\* Continue on a task that a failed turn paused.
SPECIFICATION Spec
CONSTANTS
  Tasks = {t1}
  NoTask = NoTask
  MaxEmpty = 1
  Commands = {"submit", "continue"}
  Faults = {"fail"}
  MaxFaults = 2
PROPERTIES ContinueCarriesOn
\* A task that is at rest stays so until the user acts, and they may not.
CHECK_DEADLOCK FALSE
