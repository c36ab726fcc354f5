\* Failures of Codex without a crash: the right answer, in the end.
SPECIFICATION FairSpec
CONSTANTS
  Tasks = {t1, t2}
  NoTask = NoTask
  MaxEmpty = 1
  Commands = {
    "submit", "new", "queue", "continue", "pause", "reset", "settings"}
  Faults = {
    "connect", "session", "refuse", "expire", "interrupt", "fail",
    "notice", "mute", "textless", "disconnect"}
  MaxFaults = 2
INVARIANTS AnswerBelongsToTask NeverVerbatimTwice
PROPERTIES Settles
\* A task that is at rest stays so until the user acts, and they may not.
CHECK_DEADLOCK FALSE
