SPECIFICATION WindowSpec
CONSTANTS
  MaxTask = 2
  Endings = {"Success"}
  MaxSession = 3
  Limits = {1}
  MaxFinished = 1
  Asked = {}
  MaxCommands = 0
  MaxCrashes = 0
  Channel = 2
  MaxHaste = 0
INVARIANT TextReturnedIfRefused
CHECK_DEADLOCK FALSE
