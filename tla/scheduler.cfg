SPECIFICATION FairSchedSpec
CONSTANTS
  MaxTask = 3
  Endings = {"Success"}
  MaxSession = 4
  Limits = {1, 2}
  MaxFinished = 1
  Asked = {"new", "submit", "resume", "dismiss", "quit"}
  MaxCommands = 1
  MaxCrashes = 1
INVARIANTS TypeOK DismissedStaysAway NothingHidden
PROPERTIES WithinLimit ServesInOrder QueueMoves
CHECK_DEADLOCK FALSE
