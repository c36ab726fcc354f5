SPECIFICATION WindowSpec
CONSTANTS
  MaxTask = 3
  Endings = {"Success"}
  MaxSession = 4
  Limits = {1, 2}
  MaxFinished = 1
  Asked = {"select", "pause", "stop", "resume", "withdraw", "dismiss", "cancel", "clear", "limit", "quit"}
  MaxCommands = 1
  MaxCrashes = 0
  Channel = 2
  MaxHaste = 1
INVARIANTS WindowTypeOK OnePlace FollowUpsArrive WindowFollowsTask SubmissionAnswered
CHECK_DEADLOCK FALSE
