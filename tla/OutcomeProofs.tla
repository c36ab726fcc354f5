---------------------------- MODULE OutcomeProofs ----------------------------
(***************************************************************************)
(* Proofs about Outcome: for every limit on empty replies and any number   *)
(* of failures, empty answers are sent again no more often than the limit  *)
(* says, and an error that the user must mend stops the task.              *)
(***************************************************************************)
EXTENDS Outcome, TLAPS

TaskType == [phase : {"Waiting", "Backoff", "Paused", "Success"},
             empties : Nat, left : Int]
OutcomeType == task \in TaskType /\ last \in Errors /\ emptied \in Nat

\* The worker's count includes every empty answer that was sent again.
Counted == emptied <= task.empties

OutcomeInv == OutcomeType /\ Counted /\ EmptyBounded

Decisions == {"retry", "retryQuiet", "retryAtOnce", "wait", "pause", "success"}

LEMMA ErrorDecisions ==
  ASSUME NEW e \in Errors, NEW w \in BOOLEAN
  PROVE  /\ ClassifyError(e) \in {"pause", "retry", "retryQuiet"}
         /\ ClassifyErrorNotification(e, w) \in Decisions \ {"success"}
  BY DEF ClassifyError, ClassifyErrorNotification, Decisions

\* A decision keeps the type of the task and, unless it is success, its count.
LEMMA DecidedType ==
  ASSUME NEW t \in TaskType, NEW d \in Decisions
  PROVE  /\ Decided(t, d) \in TaskType
         /\ Decided(t, d).empties = IF d = "success" THEN 0 ELSE t.empties
  BY DEF Decided, Decisions, TaskType

LEMMA NoErrorType == NoError \in Errors
  BY DEF NoError, Errors, ErrorKinds

LEMMA CompletedDecisions ==
  ASSUME NEW status \in Statuses, NEW reply \in Replies, NEW e \in Errors,
         NEW n \in Nat
  PROVE  /\ ClassifyTurnCompletion(status, reply, e, n) \in Decisions
         /\ status = "completed" /\ reply = "empty"
              /\ ClassifyTurnCompletion(status, reply, e, n) = "retry"
            => n < MaxEmptyReplies
  BY ErrorDecisions DEF ClassifyTurnCompletion, ClassifyCompleted, EmptyAllowed,
     Statuses, Replies, Decisions

LEMMA OutcomeInit1 == OutcomeInit => OutcomeInv
  BY OutcomeAssumption, NoErrorType
  DEF OutcomeInit, OutcomeInv, OutcomeType, TaskType, Counted, EmptyBounded

LEMMA ErrorStep ==
  ASSUME OutcomeInv, NEW e \in Errors, NEW w \in BOOLEAN,
         task' = Decided(Spent, ClassifyErrorNotification(e, w)), last' = e,
         UNCHANGED emptied
  PROVE  OutcomeInv'
<1>1. Spent \in TaskType /\ Spent.empties = task.empties
  BY DEF Spent, OutcomeInv, OutcomeType, TaskType
<1>2. task' \in TaskType /\ task'.empties = task.empties
  BY <1>1, ErrorDecisions, DecidedType
<1> QED
  BY <1>2 DEF OutcomeInv, OutcomeType, Counted, EmptyBounded

LEMMA CompletedStep ==
  ASSUME OutcomeInv, NEW status \in Statuses, NEW reply \in Replies,
         NEW e \in Errors, OnTurnCompleted(status, reply, e)
  PROVE  OutcomeInv'
<1> DEFINE d == ClassifyTurnCompletion(status, reply, e, task.empties)
           counts == d = "retry" /\ reply = "empty"
           spent == [Spent EXCEPT !.empties = IF counts THEN @ + 1 ELSE @]
<1>1. task.empties \in Nat /\ emptied \in Nat /\ emptied <= task.empties
      /\ emptied <= MaxEmptyReplies
  BY DEF OutcomeInv, OutcomeType, TaskType, Counted, EmptyBounded
<1>2. d \in Decisions /\ (status = "completed" /\ counts => task.empties < MaxEmptyReplies)
  BY <1>1, CompletedDecisions
<1>3. /\ spent \in TaskType
      /\ spent.empties = IF counts THEN task.empties + 1 ELSE task.empties
  <2>1. Spent \in TaskType /\ Spent.empties = task.empties
    BY DEF Spent, OutcomeInv, OutcomeType, TaskType
  <2>2. \A n \in Nat : /\ [Spent EXCEPT !.empties = n] \in TaskType
                       /\ [Spent EXCEPT !.empties = n].empties = n
    BY <2>1 DEF TaskType
  <2>3. CASE counts
    <3>1. spent = [Spent EXCEPT !.empties = task.empties + 1]
      BY <2>1, <2>3
    <3> HIDE DEF spent
    <3> QED
      BY <1>1, <2>2, <2>3, <3>1
  <2>4. CASE ~counts
    <3>1. spent = [Spent EXCEPT !.empties = task.empties]
      BY <2>1, <2>4
    <3> HIDE DEF spent
    <3> QED
      BY <1>1, <2>2, <2>4, <3>1
  <2> QED
    BY <2>3, <2>4
<1>4. /\ task' = Decided(spent, d)
      /\ last' = IF status = "failed" THEN e ELSE NoError
      /\ emptied' = CASE d = "success" -> 0
                      [] counts /\ status = "completed" -> emptied + 1
                      [] OTHER -> emptied
  BY DEF OnTurnCompleted
<1> HIDE DEF d, spent
<1>5. /\ task' \in TaskType
      /\ task'.empties = IF d = "success" THEN 0 ELSE spent.empties
  BY <1>2, <1>3, <1>4, DecidedType
<1>6. last' \in Errors
  BY <1>4, NoErrorType
<1>7. CASE d = "success"
  BY <1>1, <1>4, <1>5, <1>6, <1>7, OutcomeAssumption
  DEF OutcomeInv, OutcomeType, Counted, EmptyBounded
<1>8. CASE d # "success" /\ counts /\ status = "completed"
  BY <1>1, <1>2, <1>3, <1>4, <1>5, <1>6, <1>8, OutcomeAssumption
  DEF OutcomeInv, OutcomeType, Counted, EmptyBounded
<1>9. CASE d # "success" /\ ~(counts /\ status = "completed")
  BY <1>1, <1>3, <1>4, <1>5, <1>6, <1>9
  DEF OutcomeInv, OutcomeType, Counted, EmptyBounded
<1> QED
  BY <1>7, <1>8, <1>9

LEMMA OutcomeStep == OutcomeInv /\ [OutcomeNext]_outcomeVars => OutcomeInv'
<1> SUFFICES ASSUME OutcomeInv, [OutcomeNext]_outcomeVars PROVE OutcomeInv'
  OBVIOUS
<1>1. ASSUME NEW e \in Errors, OnRpcError(e) PROVE OutcomeInv'
  BY <1>1, ErrorStep DEF OnRpcError
<1>2. ASSUME NEW e \in Errors, NEW w \in BOOLEAN, OnError(e, w) PROVE OutcomeInv'
  BY <1>2, ErrorStep DEF OnError
<1>3. ASSUME NEW e \in Errors, OnTurnCompleted("failed", "empty", e) PROVE OutcomeInv'
  BY <1>3, CompletedStep DEF Statuses, Replies
<1>4. ASSUME NEW status \in Statuses \ {"failed"}, NEW reply \in Replies,
             OnTurnCompleted(status, reply, NoError)
      PROVE OutcomeInv'
  BY <1>4, CompletedStep, NoErrorType
<1>5. CASE SendAttempt
  BY <1>5, NoErrorType
  DEF SendAttempt, OutcomeInv, OutcomeType, TaskType, Counted, EmptyBounded
<1>6. CASE UNCHANGED outcomeVars
  BY <1>6 DEF outcomeVars, OutcomeInv, OutcomeType, Counted, EmptyBounded
<1> QED
  BY <1>1, <1>2, <1>3, <1>4, <1>5, <1>6 DEF OutcomeNext

\* Whatever fails in between and however often the user continues, an empty
\* answer is sent again MaxEmptyReplies times at most before the next success
\* (classify_turn_completion, mark_empty_reply).
THEOREM EmptyBoundedCorrect == OutcomeSpec => []EmptyBounded
<1>1. OutcomeInv => EmptyBounded
  BY DEF OutcomeInv
<1> QED
  BY <1>1, OutcomeInit1, OutcomeStep, PTL DEF OutcomeSpec

-----------------------------------------------------------------------------
\* What a decision of the classifier makes of the phase.
LEMMA NotificationStops ==
  ASSUME NEW e \in Errors, NEW w \in BOOLEAN, NEW t \in TaskType
  PROVE  LET p == Decided(t, ClassifyErrorNotification(e, w)).phase IN
         /\ IsFatal(e) => p = "Paused"
         /\ ~IsFatal(e) /\ Temporary(e) => p # "Paused"
  BY DEF ClassifyErrorNotification, ClassifyError, Decided, Temporary, TaskType

LEMMA CompletionStops ==
  ASSUME NEW e \in Errors, NEW n \in Nat, NEW t \in TaskType, e # NoError
  PROVE  LET p == Decided(t, ClassifyTurnCompletion("failed", "empty", e, n)).phase IN
         /\ IsFatal(e) => p = "Paused"
         /\ ~IsFatal(e) /\ Temporary(e) => p # "Paused"
  BY DEF ClassifyTurnCompletion, ClassifyError, Decided, Temporary, TaskType

LEMMA FatalStep == OutcomeInv /\ FatalStops /\ [OutcomeNext]_outcomeVars => FatalStops'
<1> SUFFICES ASSUME OutcomeInv, FatalStops, [OutcomeNext]_outcomeVars PROVE FatalStops'
  OBVIOUS
<1>0. task \in TaskType /\ task.empties \in Nat /\ Spent \in TaskType
  BY DEF OutcomeInv, OutcomeType, TaskType, Spent
<1>1. ASSUME NEW e \in Errors, OnRpcError(e) PROVE FatalStops'
  BY <1>0, <1>1, NotificationStops DEF OnRpcError, FatalStops, IsFatal, Temporary
<1>2. ASSUME NEW e \in Errors, NEW w \in BOOLEAN, OnError(e, w) PROVE FatalStops'
  BY <1>0, <1>2, NotificationStops DEF OnError, FatalStops, IsFatal, Temporary
<1>3. ASSUME NEW e \in Errors, OnTurnCompleted("failed", "empty", e) PROVE FatalStops'
  <2>1. last' = e
    BY <1>3 DEF OnTurnCompleted
  <2>2. PICK t \in TaskType :
          task' = Decided(t, ClassifyTurnCompletion("failed", "empty", e, task.empties))
    <3>1. \A b \in BOOLEAN : [Spent EXCEPT !.empties = IF b THEN @ + 1 ELSE @] \in TaskType
      BY <1>0 DEF TaskType
    <3> QED
      BY <1>3, <3>1 DEF OnTurnCompleted
  <2>3. CASE e = NoError
    BY <2>1, <2>3 DEF FatalStops
  <2>4. CASE e # NoError
    BY <1>0, <2>1, <2>2, <2>4, CompletionStops DEF FatalStops, IsFatal, Temporary
  <2> QED
    BY <2>3, <2>4
<1>4. ASSUME NEW status \in Statuses \ {"failed"}, NEW reply \in Replies,
             OnTurnCompleted(status, reply, NoError)
      PROVE FatalStops'
  BY <1>4 DEF OnTurnCompleted, FatalStops
<1>5. CASE SendAttempt
  BY <1>5 DEF SendAttempt, FatalStops
<1>6. CASE UNCHANGED outcomeVars
  BY <1>6 DEF outcomeVars, FatalStops, IsFatal, Temporary
<1> QED
  BY <1>1, <1>2, <1>3, <1>4, <1>5, <1>6 DEF OutcomeNext

\* A fatal error stops the task on every path, and an error with a sign of a
\* passing failure and none of a fatal one never does
\* (classify_error_notification, classify_turn_completion).
THEOREM FatalStopsCorrect == OutcomeSpec => []FatalStops
<1>1. OutcomeInit => FatalStops
  BY DEF OutcomeInit, FatalStops
<1> QED
  BY <1>1, OutcomeInit1, OutcomeStep, FatalStep, PTL DEF OutcomeSpec
=============================================================================
