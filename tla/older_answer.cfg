\* A crash just before the write-ahead marker of a follow-up.
SPECIFICATION Spec
CONSTANTS
  Tasks = {t1, t2}
  NoTask = NoTask
  MaxEmpty = 1
  Commands = {"submit", "queue"}
  Faults = {"crash"}
  MaxFaults = 1
INVARIANTS AnswerBelongsToTask
\* A task that is at rest stays so until the user acts, and they may not.
CHECK_DEADLOCK FALSE
