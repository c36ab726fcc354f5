\* An unanswered turn/start, then a reconnection that asks for a retry.
SPECIFICATION Spec
CONSTANTS
  Tasks = {t1}
  NoTask = NoTask
  MaxEmpty = 1
  Commands = {"submit"}
  Faults = {"timeout", "busy"}
  MaxFaults = 2
INVARIANTS NoRepeatAfterAnswer
\* A task that is at rest stays so until the user acts, and they may not.
CHECK_DEADLOCK FALSE
