\* A new task, started through StartNewConfigured.
SPECIFICATION Spec
CONSTANTS
  Tasks = {t1}
  NoTask = NoTask
  MaxEmpty = 1
  Commands = {"new"}
  Faults = {"crash"}
  MaxFaults = 1
INVARIANTS Recoverable
\* A task that is at rest stays so until the user acts, and they may not.
CHECK_DEADLOCK FALSE
