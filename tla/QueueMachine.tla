---------------------------- MODULE QueueMachine ----------------------------
(***************************************************************************)
(* The QueueMachine of src/src/queue.rs: the persisted half of one         *)
(* conversation, as pure operators on a record.  The worker (Worker.tla)   *)
(* is the only caller, exactly as QueueRuntime is in the code.             *)
(*                                                                         *)
(* Kept: every field a decision reads.  Left out: wording (status_message, *)
(* reply_preview), display history (conversation, completion times), the   *)
(* alert counters, and the three request counters, which the worker only   *)
(* writes.  Identifiers are natural numbers with 0 for Rust's None;        *)
(* next_attempt_at keeps only whether a time is set.                       *)
(***************************************************************************)
EXTENDS Naturals

CONSTANTS
  Tasks,      \* the texts a user may ask Codex to work on
  NoTask,     \* an empty prompt, or no queued message
  MaxEmpty    \* retry_policy.max_empty_replies, a u8

ASSUME MachineAssumption ==
  /\ NoTask \notin Tasks
  /\ MaxEmpty \in 0..255

Phases == {"Idle", "Connecting", "Sending", "Waiting", "Backoff",
           "Success", "Paused", "FatalError"}

\* QueuePhase::is_running, and the active_phase of spawn_runtime.
Running == {"Connecting", "Sending", "Waiting", "Backoff"}

Machine ==
  [phase     : Phases,
   thread    : Nat,                  \* active_thread_id
   turn      : Nat,                  \* active_turn_id
   uncertain : BOOLEAN,              \* submission_uncertain
   client    : Nat,                  \* pending_client_message_id
   followUp  : BOOLEAN,              \* retry_as_follow_up
   queued    : Tasks \cup {NoTask},  \* queued_message
   next      : BOOLEAN,              \* next_attempt_at.is_some()
   empties   : 0..255]               \* empty_reply_count

\* QueueSnapshot::default(), and PersistedQueueState::default().
Fresh ==
  [phase |-> "Idle", thread |-> 0, turn |-> 0, uncertain |-> FALSE,
   client |-> 0, followUp |-> FALSE, queued |-> NoTask, next |-> FALSE,
   empties |-> 0]

-----------------------------------------------------------------------------
\* Connecting and starting over.

BeginConnecting(m) == [m EXCEPT !.phase = "Connecting", !.next = FALSE]

Reactivate(m) == [m EXCEPT !.phase = "Connecting", !.next = FALSE]

\* A new message in the same conversation: only the thread and the message
\* waiting behind it survive.
PrepareFollowUp(m) == [Fresh EXCEPT !.thread = m.thread, !.queued = m.queued]

\* stop_current_turn is prepare_follow_up with another status line.
StopCurrentTurn(m) == PrepareFollowUp(m)

ClearSession(m) == Fresh

SetThread(m, t) == [m EXCEPT !.thread = t]

\* The saved thread is gone: nothing that refers to it may survive.
ClearThread(m) ==
  [m EXCEPT !.thread = 0, !.turn = 0, !.uncertain = FALSE, !.followUp = FALSE]

-----------------------------------------------------------------------------
\* One submission.

\* begin_sending refuses (TurnAlreadyActive) while a turn is active.
CanBeginSending(m) == m.turn = 0

BeginSending(m) ==
  [m EXCEPT !.phase = "Sending", !.next = FALSE, !.uncertain = FALSE]

\* Mutant of MarkSubmission: the id is recorded, the marker is forgotten.
MarkIdOnly(m, id) == [m EXCEPT !.client = id]

\* set_pending_client_message_id and mark_submission_uncertain.
MarkSubmission(m, id) == [m EXCEPT !.client = id, !.uncertain = TRUE]

\* set_active_turn refuses a second turn (TurnAlreadyActive).
CanSetActiveTurn(m, t) == m.turn \in {0, t}

SetActiveTurn(m, t) ==
  [m EXCEPT !.turn = t, !.uncertain = FALSE, !.phase = "Waiting"]

ForgetTurn(m) == [m EXCEPT !.turn = 0, !.uncertain = FALSE]

-----------------------------------------------------------------------------
\* How an attempt ends.

\* Saturating u8 arithmetic.
MarkEmptyReply(m) ==
  [m EXCEPT !.empties = IF @ = 255 THEN 255 ELSE @ + 1]

MarkRetryAsFollowUp(m) == [m EXCEPT !.followUp = TRUE]

\* Mutant of FollowUpIfActive: every retry repeats the text.
NeverFollowUp(m) == m

\* The caller's half (QueueRuntime::schedule_retry) turns the next attempt
\* into a continuation when a turn was active.
FollowUpIfActive(m) == [m EXCEPT !.followUp = @ \/ m.turn # 0]

\* Mutant of ScheduleRetry: the next attempt is announced but not timed.
ScheduleNothing(m) ==
  [m EXCEPT !.turn = 0, !.uncertain = FALSE, !.phase = "Backoff", !.next = FALSE]

ScheduleRetry(m) ==
  [m EXCEPT !.turn = 0, !.uncertain = FALSE, !.phase = "Backoff", !.next = TRUE]

Succeed(m) ==
  [m EXCEPT !.phase = "Success", !.turn = 0, !.uncertain = FALSE,
            !.next = FALSE, !.empties = 0, !.followUp = FALSE]

Pause(m) == [m EXCEPT !.phase = "Paused", !.next = FALSE]

\* Mutant of Fatal: a phase that the persisted format does not have.
FatalRenamed(m) == [m EXCEPT !.phase = "Failed", !.next = FALSE]

Fatal(m) == [m EXCEPT !.phase = "FatalError", !.next = FALSE]

-----------------------------------------------------------------------------
\* The messages the user types ahead.

SetQueuedMessage(m, t) == [m EXCEPT !.queued = t]

ClearQueuedMessage(m) == [m EXCEPT !.queued = NoTask]

\* persisted_state_requires_recovery: what a restart has to keep.
RequiresRecovery(m) ==
  \/ m.phase \in Running \cup {"Paused"}
  \/ m.turn # 0
  \/ m.uncertain
  \/ m.queued # NoTask
=============================================================================
