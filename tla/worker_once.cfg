\* Crashes and lost requests: a task is sent once and not lost.
SPECIFICATION Spec
CONSTANTS
  Tasks = {t1, t2}
  NoTask = NoTask
  MaxEmpty = 1
  Commands = {
    "submit", "continue", "pause", "stop", "reset", "shutdown",
    "settings"}
  Faults = {
    "connect", "session", "refuse", "garbled", "timeout", "expire",
    "interrupt", "fail", "notice", "mute", "textless", "disconnect", "crash"}
  MaxFaults = 3
SYMMETRY Symmetry
INVARIANTS NoRepeatAfterAnswer AtMostOneInFlight StaysStopped Recoverable
\* A task that is at rest stays so until the user acts, and they may not.
CHECK_DEADLOCK FALSE
