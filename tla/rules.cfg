SPECIFICATION Spec
CONSTANTS
  Spacing = 1
  Poll = 2
  Tolerance = 3
  Gap = 5
  WakeDelay = 6
  RequestTime = 5
  TurnTime = 8
  Sleeps = {4, 6}
  MaxSleep = 1
  MaxTime = 18
  MaxSave = 1
  MaxStart = 3
  MaxEmptyReplies = 2
  MaxFailures = 5
INVARIANTS
  NoFalseWake
  DocumentWhole
  SettingsStick
  FatalStops
  EmptyBounded
PROPERTIES
  SpacingKept
  WakeRespected
CHECK_DEADLOCK FALSE
