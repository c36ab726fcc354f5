------------------------------ MODULE Outcome -------------------------------
(***************************************************************************)
(* What becomes of a task when Codex answers or fails: the decisions of    *)
(* src/src/classifier.rs and what handle_event, handle_completed_turn and  *)
(* handle_transport_failure in src/src/runtime.rs make of them.            *)
(***************************************************************************)
EXTENDS Integers

CONSTANTS MaxEmptyReplies,  \* max_empty_replies
          MaxFailures       \* bound: failures and answers

ASSUME OutcomeAssumption == MaxEmptyReplies \in Nat /\ MaxFailures \in Nat

VARIABLES
  task,    \* phase, empty_reply_count
  last,    \* history: the error that was handled last
  emptied  \* history: empty answers that were sent again since the last success

outcomeVars == <<task, last, emptied>>

\* TurnError, by what the classifier asks of it: the kind in codexErrorInfo, the
\* status code in it or in the text, and what the normalized text contains.
\* A phrase is one of the user's or "server overloaded".
ErrorKinds == {"fatal", "exhausted", "busy", "connection", "other", "none"}
Errors ==
  [kind : ErrorKinds, http : {"none", "temporary", "other"}, fatal : BOOLEAN,
   highDemand : BOOLEAN, phrase : BOOLEAN, connection : BOOLEAN]
NoError == [kind |-> "none", http |-> "none", fatal |-> FALSE, highDemand |-> FALSE,
            phrase |-> FALSE, connection |-> FALSE]

\* The text of an answer: the notices count where it starts with them.
Replies == {"empty", "highDemand", "phrase", "answer"}
Statuses == {"completed", "interrupted", "failed", "inProgress"}

\* is_fatal_error: sign in, quota, policy, a bad request.
IsFatal(e) == e.kind = "fatal" \/ e.fatal

\* classify_error
Temporary(e) ==
  \/ e.highDemand \/ e.http = "temporary" \/ e.phrase \/ e.connection
  \/ e.kind \in {"busy", "connection", "exhausted"}
ClassifyError(e) ==
  CASE IsFatal(e)                    -> "pause"
    [] ~IsFatal(e) /\ e.highDemand   -> "retryQuiet"
    [] ~IsFatal(e) /\ ~e.highDemand  -> IF Temporary(e) THEN "retry" ELSE "pause"

\* Mutant of ClassifyErrorNotification: Codex is trusted to retry.
ClassifyErrorNotificationTrusting(e, willRetry) ==
  IF willRetry THEN "wait" ELSE ClassifyError(e)

\* classify_error_notification; retries that Codex has exhausted are not quiet.
ClassifyErrorNotification(e, willRetry) ==
  CASE IsFatal(e)                -> "pause"
    [] ~IsFatal(e) /\ willRetry  -> "wait"
    [] OTHER -> IF e.kind = "exhausted" THEN "retryAtOnce" ELSE ClassifyError(e)

\* Mutant of EmptyAllowed: one more.
EmptyAllowedOneMore(empties) == empties <= MaxEmptyReplies

EmptyAllowed(empties) == empties < MaxEmptyReplies

ClassifyCompleted(reply, empties) ==
  CASE reply = "empty"      -> IF EmptyAllowed(empties) THEN "retry" ELSE "pause"
    [] reply = "highDemand" -> "retryQuiet"
    [] reply = "phrase"     -> "retry"
    [] reply = "answer"     -> "success"

\* classify_turn_completion; a failure without an error pauses as well.
ClassifyTurnCompletion(status, reply, e, empties) ==
  CASE status = "completed"   -> ClassifyCompleted(reply, empties)
    [] status = "interrupted" -> "retry"
    [] status = "inProgress"  -> "wait"
    [] status = "failed"      -> IF e = NoError THEN "pause" ELSE ClassifyError(e)

-----------------------------------------------------------------------------
\* What a decision does: schedule_retry, note_internal_retry, pause, succeed.
Decided(t, decision) ==
  CASE decision \in {"retry", "retryQuiet", "retryAtOnce"} -> [t EXCEPT !.phase = "Backoff"]
    [] decision = "wait"    -> [t EXCEPT !.phase = "Waiting"]
    [] decision = "pause"   -> [t EXCEPT !.phase = "Paused"]
    [] decision = "success" -> [phase |-> "Success", empties |-> 0, left |-> t.left]

Happens == task.left > 0
Spent == [task EXCEPT !.left = @ - 1]

\* TransportEvent::Error of the active turn.
OnError(e, willRetry) ==
  /\ Happens /\ task.phase = "Waiting"
  /\ task' = Decided(Spent, ClassifyErrorNotification(e, willRetry))
  /\ last' = e
  /\ UNCHANGED emptied

\* handle_completed_turn: a retry without any text counts as an empty reply,
\* that of an interrupted or failed turn too.
OnTurnCompleted(status, reply, e) ==
  LET decision == ClassifyTurnCompletion(status, reply, e, task.empties)
      counts   == decision = "retry" /\ reply = "empty"
  IN /\ Happens /\ task.phase = "Waiting"
     /\ task' = Decided([Spent EXCEPT !.empties = IF counts THEN @ + 1 ELSE @], decision)
     /\ last' = IF status = "failed" THEN e ELSE NoError
     /\ emptied' = CASE decision = "success" -> 0
                     [] counts /\ status = "completed" -> emptied + 1
                     [] OTHER -> emptied

\* handle_transport_failure, TransportError::Rpc, while connecting or sending.
OnRpcError(e) ==
  /\ Happens /\ task.phase = "Backoff"
  /\ task' = Decided(Spent, ClassifyErrorNotification(e, FALSE))
  /\ last' = e
  /\ UNCHANGED emptied

\* The next attempt; Continue; the next task. None of them clears the count.
SendAttempt ==
  /\ task.phase \in {"Backoff", "Paused", "Success"}
  /\ task' = [task EXCEPT !.phase = "Waiting"]
  /\ last' = NoError
  /\ UNCHANGED emptied

OutcomeInit ==
  task = [phase |-> "Waiting", empties |-> 0, left |-> MaxFailures]
    /\ last = NoError /\ emptied = 0

OutcomeNext ==
  \/ \E e \in Errors :
       \/ OnRpcError(e) \/ \E willRetry \in BOOLEAN : OnError(e, willRetry)
       \/ OnTurnCompleted("failed", "empty", e)
  \/ \E status \in Statuses \ {"failed"}, reply \in Replies :
       OnTurnCompleted(status, reply, NoError)
  \/ SendAttempt

OutcomeSpec == OutcomeInit /\ [][OutcomeNext]_outcomeVars

-----------------------------------------------------------------------------
\* Properties.

\* An error that the user must mend stops the task, on whichever path it comes,
\* whatever else it says and whatever Codex means to do; one with a sign of a
\* passing failure and none of those never does ("Authentication, quota and policy
\* failures always win over a coincident HTTP 429 or a broad user phrase",
\* classifier.rs:119).
FatalStops ==
  last # NoError => /\ IsFatal(last) => task.phase = "Paused"
                    /\ ~IsFatal(last) /\ Temporary(last) => task.phase # "Paused"

\* No more than MaxEmptyReplies empty answers are sent again before a success,
\* whatever fails in between and however often the user continues
\* (classify_turn_completion, mark_empty_reply).
EmptyBounded == emptied <= MaxEmptyReplies
=============================================================================
