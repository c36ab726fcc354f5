\* Everything that may go wrong except a crash, two of them at a time.
SPECIFICATION Spec
CONSTANTS
  Tasks = {t1, t2}
  NoTask = NoTask
  MaxEmpty = 1
  Commands = {
    "submit", "new", "queue", "continue", "pause", "stop", "reset",
    "shutdown", "settings", "unoffered"}
  Faults = {
    "connect", "session", "busy", "unread", "deleted", "refuse", "garbled",
    "timeout", "expire", "interrupt", "fail", "notice", "system", "mute",
    "textless", "disconnect", "foreign", "oldServer", "disk"}
  MaxFaults = 2
SYMMETRY Symmetry
INVARIANTS TypeOK NoStall NeverDies WriteAhead
\* A task that is at rest stays so until the user acts, and they may not.
CHECK_DEADLOCK FALSE
