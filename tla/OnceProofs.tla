------------------------------ MODULE OnceProofs ------------------------------
(***************************************************************************)
(* What Codex is asked to do: for every set of tasks and commands and      *)
(* every fault but those a theorem names.                                  *)
(***************************************************************************)
EXTENDS WorkerProofs

-----------------------------------------------------------------------------
\* What each pure step of the worker leaves, field by field.

\* The fields of the queue machine that decide what is sent next.
Has(m, phase, thread, turn, uncertain, client, followUp, queued) ==
  /\ m.phase = phase /\ m.thread = thread /\ m.turn = turn
  /\ m.client = client /\ m.queued = queued
  /\ (m.uncertain <=> uncertain) /\ (m.followUp <=> followUp)

Looks(s, pc, started, connected, prompt) ==
  /\ s.pc = pc /\ s.prompt = prompt
  /\ (s.started <=> started) /\ (s.connected <=> connected)

LEMMA FreshEffect ==
  /\ Has(Fresh, "Idle", 0, 0, FALSE, 0, FALSE, NoTask)
  /\ \A m \in Machine :
       /\ Has(PrepareFollowUp(m), "Idle", m.thread, 0, FALSE, 0, FALSE, m.queued)
       /\ Has(StopCurrentTurn(m), "Idle", m.thread, 0, FALSE, 0, FALSE, m.queued)
       /\ Has(ClearSession(m), "Idle", 0, 0, FALSE, 0, FALSE, NoTask)
<1>1. Has(Fresh, "Idle", 0, 0, FALSE, 0, FALSE, NoTask)
  BY DEF Has, Fresh
<1>2. ASSUME NEW m \in Machine
      PROVE  Has(PrepareFollowUp(m), "Idle", m.thread, 0, FALSE, 0, FALSE, m.queued)
  BY DEF Has, Fresh, PrepareFollowUp
<1> QED BY <1>1, <1>2 DEF StopCurrentTurn, ClearSession

LEMMA ConnectingEffect ==
  ASSUME NEW m \in Machine
  PROVE  /\ Has(BeginConnecting(m), "Connecting", m.thread, m.turn, m.uncertain,
                m.client, m.followUp, m.queued)
         /\ Has(Reactivate(m), "Connecting", m.thread, m.turn, m.uncertain,
                m.client, m.followUp, m.queued)
         /\ Has(ClearThread(m), m.phase, 0, 0, FALSE, m.client, FALSE, m.queued)
         /\ \A t \in Nat : Has(SetThread(m, t), m.phase, t, m.turn, m.uncertain,
                               m.client, m.followUp, m.queued)
<1>1. Has(BeginConnecting(m), "Connecting", m.thread, m.turn, m.uncertain,
          m.client, m.followUp, m.queued)
  BY DEF Has, BeginConnecting, Machine
<1>2. Has(Reactivate(m), "Connecting", m.thread, m.turn, m.uncertain,
          m.client, m.followUp, m.queued)
  BY DEF Has, Reactivate, Machine
<1>3. Has(ClearThread(m), m.phase, 0, 0, FALSE, m.client, FALSE, m.queued)
  BY DEF Has, ClearThread, Machine
<1>4. ASSUME NEW t \in Nat
      PROVE  Has(SetThread(m, t), m.phase, t, m.turn, m.uncertain, m.client,
                 m.followUp, m.queued)
  BY DEF Has, SetThread, Machine
<1> QED BY <1>1, <1>2, <1>3, <1>4

LEMMA SubmissionEffect ==
  ASSUME NEW m \in Machine, NEW t \in Nat
  PROVE  /\ Has(BeginSending(m), "Sending", m.thread, m.turn, FALSE, m.client,
                m.followUp, m.queued)
         /\ Has(MarkSubmission(m, t), m.phase, m.thread, m.turn, TRUE, t,
                m.followUp, m.queued)
         /\ Has(SetActiveTurn(m, t), "Waiting", m.thread, t, FALSE, m.client,
                m.followUp, m.queued)
         /\ Has(ForgetTurn(m), m.phase, m.thread, 0, FALSE, m.client,
                m.followUp, m.queued)
<1>1. Has(BeginSending(m), "Sending", m.thread, m.turn, FALSE, m.client,
          m.followUp, m.queued)
  BY DEF Has, BeginSending, Machine
<1>2. Has(MarkSubmission(m, t), m.phase, m.thread, m.turn, TRUE, t,
          m.followUp, m.queued)
  BY DEF Has, MarkSubmission, Machine
<1>3. Has(SetActiveTurn(m, t), "Waiting", m.thread, t, FALSE, m.client,
          m.followUp, m.queued)
  BY DEF Has, SetActiveTurn, Machine
<1>4. Has(ForgetTurn(m), m.phase, m.thread, 0, FALSE, m.client,
          m.followUp, m.queued)
  BY DEF Has, ForgetTurn, Machine
<1> QED BY <1>1, <1>2, <1>3, <1>4

LEMMA EndingEffect ==
  ASSUME NEW m \in Machine
  PROVE  /\ Has(MarkEmptyReply(m), m.phase, m.thread, m.turn, m.uncertain, m.client,
                m.followUp, m.queued)
         /\ Has(MarkRetryAsFollowUp(m), m.phase, m.thread, m.turn, m.uncertain, m.client,
                TRUE, m.queued)
         /\ Has(FollowUpIfActive(m), m.phase, m.thread, m.turn, m.uncertain, m.client,
                m.followUp \/ m.turn # 0, m.queued)
         /\ Has(ScheduleRetry(m), "Backoff", m.thread, 0, FALSE, m.client,
                m.followUp, m.queued)
         /\ Has(Succeed(m), "Success", m.thread, 0, FALSE, m.client, FALSE, m.queued)
         /\ Has(Pause(m), "Paused", m.thread, m.turn, m.uncertain, m.client,
                m.followUp, m.queued)
         /\ Has(Fatal(m), "FatalError", m.thread, m.turn, m.uncertain, m.client,
                m.followUp, m.queued)
         /\ Has(ClearQueuedMessage(m), m.phase, m.thread, m.turn, m.uncertain, m.client,
                m.followUp, NoTask)
         /\ \A t \in Tasks : Has(SetQueuedMessage(m, t), m.phase, m.thread, m.turn,
                                 m.uncertain, m.client, m.followUp, t)
<1>1. Has(MarkEmptyReply(m), m.phase, m.thread, m.turn, m.uncertain, m.client,
          m.followUp, m.queued)
  BY DEF Has, MarkEmptyReply, Machine
<1>2. Has(MarkRetryAsFollowUp(m), m.phase, m.thread, m.turn, m.uncertain, m.client,
          TRUE, m.queued)
  BY DEF Has, MarkRetryAsFollowUp, Machine
<1>3. Has(FollowUpIfActive(m), m.phase, m.thread, m.turn, m.uncertain, m.client,
          m.followUp \/ m.turn # 0, m.queued)
  BY DEF Has, FollowUpIfActive, Machine
<1>4. Has(ScheduleRetry(m), "Backoff", m.thread, 0, FALSE, m.client, m.followUp, m.queued)
  BY DEF Has, ScheduleRetry, Machine
<1>5. Has(Succeed(m), "Success", m.thread, 0, FALSE, m.client, FALSE, m.queued)
  <2> DEFINE k == [m EXCEPT !.phase = "Success", !.turn = 0, !.uncertain = FALSE]
  <2>1. k \in Machine /\ Has(k, "Success", m.thread, 0, FALSE, m.client, m.followUp, m.queued)
    BY PhaseNames DEF Machine, Has
  <2>2. Succeed(m) = [k EXCEPT !.next = FALSE, !.empties = 0, !.followUp = FALSE]
    BY DEF Succeed
  <2> HIDE DEF k
  <2>3. Has([k EXCEPT !.next = FALSE, !.empties = 0, !.followUp = FALSE], "Success",
            m.thread, 0, FALSE, m.client, FALSE, m.queued)
    BY <2>1 DEF Machine, Has
  <2> QED BY <2>2, <2>3
<1>6. Has(Pause(m), "Paused", m.thread, m.turn, m.uncertain, m.client,
          m.followUp, m.queued)
  BY DEF Has, Pause, Machine
<1>7. Has(Fatal(m), "FatalError", m.thread, m.turn, m.uncertain, m.client,
          m.followUp, m.queued)
  BY DEF Has, Fatal, Machine
<1>8. Has(ClearQueuedMessage(m), m.phase, m.thread, m.turn, m.uncertain, m.client,
          m.followUp, NoTask)
  BY DEF Has, ClearQueuedMessage, Machine
<1>9. ASSUME NEW t \in Tasks
      PROVE  Has(SetQueuedMessage(m, t), m.phase, m.thread, m.turn, m.uncertain,
                 m.client, m.followUp, t)
  BY DEF Has, SetQueuedMessage, Machine
<1> QED BY <1>1, <1>2, <1>3, <1>4, <1>5, <1>6, <1>7, <1>8, <1>9

-----------------------------------------------------------------------------
\* The results a pure step of the worker may have, from memory s to memory r.

\* The task rests, and nothing runs until the user acts.
Rests(s, phase, thread, turn, uncertain, followUp, queued, r) ==
  /\ Looks(r, "loop", FALSE, FALSE, s.prompt)
  /\ Has(r.m, phase, thread, turn, uncertain, s.m.client, followUp, queued)

\* A retry is scheduled, on the connection there is.
Retries(s, thread, followUp, r) ==
  /\ Looks(r, "loop", s.started, s.connected, s.prompt)
  /\ Has(r.m, "Backoff", thread, 0, FALSE, s.m.client, followUp, s.m.queued)

\* A retry is scheduled on a new connection; what is owed stays owed.
Reconnects(s, r) ==
  /\ Looks(r, "loop", s.started, FALSE, s.prompt)
  /\ Has(r.m, "Connecting", s.m.thread, s.m.turn, s.m.uncertain, s.m.client,
         s.m.followUp \/ s.m.turn # 0, s.m.queued)

\* An attempt begins, unless the task is not started.
Sends(s, thread, followUp, r) ==
  \/ /\ s.started
     /\ Looks(r, "mark", s.started, s.connected, s.prompt)
     /\ Has(r.m, "Sending", thread, 0, FALSE, s.m.client, followUp, s.m.queued)
  \/ /\ ~s.started
     /\ Looks(r, "loop", s.started, s.connected, s.prompt)
     /\ Has(r.m, s.m.phase, thread, 0, FALSE, s.m.client, followUp, s.m.queued)

\* Turn t is the active one.
Watches(s, thread, t, r) ==
  /\ Looks(r, "loop", s.started, s.connected, s.prompt)
  /\ Has(r.m, "Waiting", thread, t, FALSE, s.m.client, s.m.followUp, s.m.queued)

\* A turn has ended with this outcome.
Concludes(s, thread, outcome, r) ==
  \/ /\ outcome = "answer" /\ s.m.queued # NoTask
     /\ Looks(r, "handover", TRUE, s.connected, s.m.queued)
     /\ Has(r.m, "Idle", thread, 0, FALSE, 0, FALSE, NoTask)
  \/ /\ outcome = "answer" /\ s.m.queued = NoTask
     /\ Rests(s, "Success", thread, 0, FALSE, FALSE, NoTask, r)
  \/ /\ outcome # "answer"
     /\ Retries(s, thread, s.m.followUp \/ s.m.turn # 0, r)
  \/ /\ outcome # "answer"
     /\ Rests(s, "Paused", thread, s.m.turn, FALSE, s.m.followUp, s.m.queued, r)

\* The connection and the thread are looked for.
Ensures(s, r) ==
  \/ /\ s.connected /\ r.m = s.m
     /\ Looks(r, IF s.m.thread = 0 THEN "create" ELSE "resume",
              s.started, s.connected, s.prompt)
  \/ /\ ~s.connected
     /\ Looks(r, "connect", s.started, s.connected, s.prompt)
     /\ Has(r.m, "Connecting", s.m.thread, s.m.turn, s.m.uncertain, s.m.client,
            s.m.followUp, s.m.queued)

\* A request has failed with an error of this kind.
Fails(s, kind, r) ==
  \/ /\ kind \in {"notFound", "rpcPause", "protocol"}
     /\ \E phase \in {"Paused", "FatalError"} :
          Rests(s, phase, s.m.thread, s.m.turn, s.m.uncertain, s.m.followUp, s.m.queued, r)
  \/ kind = "rpcRetry" /\ Retries(s, s.m.thread, s.m.followUp \/ s.m.turn # 0, r)
  \/ kind = "process" /\ Reconnects(s, r)

LEMMA HaltEffect ==
  ASSUME NEW s \in Memory, NEW m \in Machine
  PROVE  Looks(Halt(s, m), "loop", FALSE, FALSE, s.prompt) /\ Halt(s, m).m = m
BY DEF Halt, Loop, ShutdownTransport, Memory, Looks

LEMMA RetryEffect ==
  ASSUME NEW s \in Memory
  PROVE  /\ Retries(s, s.m.thread, s.m.followUp \/ s.m.turn # 0, ScheduleRetryW(s))
         /\ Looks(ScheduleConnectionRetry(s), "loop", s.started, s.connected, s.prompt)
         /\ Has(ScheduleConnectionRetry(s).m, "Connecting", s.m.thread, s.m.turn,
                s.m.uncertain, s.m.client, s.m.followUp \/ s.m.turn # 0, s.m.queued)
<1> DEFINE f  == FollowUpIfActive(s.m)
           m1 == ScheduleRetry(f)
           b  == BeginConnecting(f)
           m2 == [b EXCEPT !.next = TRUE]
           again == s.m.followUp \/ s.m.turn # 0
<1>0. s.m \in Machine BY DEF Memory
<1>1. f \in Machine /\ Has(f, s.m.phase, s.m.thread, s.m.turn, s.m.uncertain,
                           s.m.client, again, s.m.queued)
  BY <1>0, EndingTypes, EndingEffect
<1> HIDE DEF f, again
<1>2. Has(m1, "Backoff", s.m.thread, 0, FALSE, s.m.client, again, s.m.queued)
  BY <1>1, EndingEffect DEF Has
<1>3. Has(m2, "Connecting", s.m.thread, s.m.turn, s.m.uncertain, s.m.client, again,
          s.m.queued)
  <2>1. b \in Machine BY <1>1, ConnectingTypes
  <2>2. Has(b, "Connecting", s.m.thread, s.m.turn, s.m.uncertain, s.m.client, again,
            s.m.queued)
    BY <1>1, ConnectingEffect DEF Has
  <2> HIDE DEF b
  <2> QED BY <2>1, <2>2 DEF Has, Machine
<1> HIDE DEF m1, m2
<1>4. ScheduleRetryW(s) = [[s EXCEPT !.turnDeadline = FALSE, !.m = m1] EXCEPT !.pc = "loop"]
  BY DEF ScheduleRetryW, Loop, m1, f
<1>5. ScheduleConnectionRetry(s) = [[s EXCEPT !.m = m2] EXCEPT !.pc = "loop"]
  BY DEF ScheduleConnectionRetry, Loop, m2, b, f
<1>6. Looks(ScheduleRetryW(s), "loop", s.started, s.connected, s.prompt)
      /\ ScheduleRetryW(s).m = m1
  BY <1>4 DEF Memory, Looks
<1>7. Looks(ScheduleConnectionRetry(s), "loop", s.started, s.connected, s.prompt)
      /\ ScheduleConnectionRetry(s).m = m2
  BY <1>5 DEF Memory, Looks
<1> QED BY <1>2, <1>3, <1>6, <1>7 DEF Retries, again

LEMMA FailureEffect ==
  ASSUME NEW s \in Memory, NEW kind \in FailureKinds
  PROVE  Fails(s, kind, HandleTransportFailure(s, kind))
<1> DEFINE k == [s EXCEPT !.turnDeadline = FALSE]
           d == ShutdownTransport(k)
           p == Pause(s.m)
           f == Fatal(s.m)
<1>0. s.m \in Machine BY DEF Memory
<1>1. /\ p \in Machine /\ f \in Machine
      /\ Has(p, "Paused", s.m.thread, s.m.turn, s.m.uncertain, s.m.client, s.m.followUp,
             s.m.queued)
      /\ Has(f, "FatalError", s.m.thread, s.m.turn, s.m.uncertain, s.m.client,
             s.m.followUp, s.m.queued)
  BY <1>0, EndingTypes, EndingEffect
<1> HIDE DEF p, f
<1>2. /\ Rests(s, "Paused", s.m.thread, s.m.turn, s.m.uncertain, s.m.followUp,
               s.m.queued, Halt(s, p))
      /\ Rests(s, "FatalError", s.m.thread, s.m.turn, s.m.uncertain, s.m.followUp,
               s.m.queued, Halt(s, f))
  BY <1>1, HaltEffect DEF Rests
<1>3. d \in Memory /\ d.m = s.m /\ Looks(d, s.pc, s.started, FALSE, s.prompt)
  <2>1. k \in Memory /\ k.m = s.m /\ Looks(k, s.pc, s.started, s.connected, s.prompt)
    BY DEF Memory, Looks
  <2> HIDE DEF k
  <2> QED BY <2>1, LoopTypes DEF ShutdownTransport, Memory, Looks
<1> HIDE DEF d
<1>4. Reconnects(s, ScheduleConnectionRetry(d))
  BY <1>3, RetryEffect DEF Reconnects, Looks
<1>5. Retries(s, s.m.thread, s.m.followUp \/ s.m.turn # 0, ScheduleRetryW(s))
  BY RetryEffect
<1>6. CASE kind \in {"notFound", "rpcPause"}
  <2>1. HandleTransportFailure(s, kind) = Halt(s, p)
    BY <1>6 DEF HandleTransportFailure, p
  <2> QED BY <1>2, <1>6, <2>1 DEF Fails
<1>7. CASE kind = "protocol"
  <2>1. HandleTransportFailure(s, kind) = Halt(s, f)
    BY <1>7 DEF HandleTransportFailure, f
  <2> QED BY <1>2, <1>7, <2>1 DEF Fails
<1>8. CASE kind = "rpcRetry"
  <2>1. HandleTransportFailure(s, kind) = ScheduleRetryW(s)
    BY <1>8 DEF HandleTransportFailure
  <2> QED BY <1>5, <1>8, <2>1 DEF Fails
<1>9. CASE kind = "process"
  <2>1. HandleTransportFailure(s, kind) = ScheduleConnectionRetry(d)
    BY <1>9 DEF HandleTransportFailure, d, k
  <2> QED BY <1>4, <1>9, <2>1 DEF Fails
<1> QED BY <1>6, <1>7, <1>8, <1>9 DEF FailureKinds

LEMMA AttemptEffect ==
  ASSUME NEW s \in Memory
  PROVE  /\ Ensures(s, EnsureConnectionAndThread(s))
         /\ s.m.thread # 0 /\ s.m.turn = 0 =>
              \/ /\ s.started
                 /\ Looks(SendAttempt(s), "mark", s.started, s.connected, s.prompt)
                 /\ Has(SendAttempt(s).m, "Sending", s.m.thread, 0, FALSE, s.m.client,
                        s.m.followUp, s.m.queued)
              \/ ~s.started /\ SendAttempt(s) = [s EXCEPT !.pc = "loop"]
         /\ s.m.thread # 0 /\ s.m.turn = 0 /\ ~s.m.uncertain =>
              Sends(s, s.m.thread, s.m.followUp, SendAttempt(s))
         /\ \A t \in Nat : CanSetActiveTurn(s.m, t) =>
              Watches(s, s.m.thread, t, SetActiveTurnW(s, t))
<1>0. s.m \in Machine BY DEF Memory
<1>1. Ensures(s, EnsureConnectionAndThread(s))
  <2> DEFINE c == BeginConnecting(s.m)
  <2>1. Has(c, "Connecting", s.m.thread, s.m.turn, s.m.uncertain, s.m.client,
            s.m.followUp, s.m.queued)
    BY <1>0, ConnectingEffect
  <2>2. EnsureConnectionAndThread(s) =
          IF s.connected
          THEN [s EXCEPT !.pc = IF s.m.thread = 0 THEN "create" ELSE "resume"]
          ELSE [s EXCEPT !.pc = "connect", !.m = c]
    BY DEF EnsureConnectionAndThread
  <2> HIDE DEF c
  <2>3. CASE s.connected
    <3>1. EnsureConnectionAndThread(s) =
            [s EXCEPT !.pc = IF s.m.thread = 0 THEN "create" ELSE "resume"]
      BY <2>2, <2>3
    <3> QED BY <2>3, <3>1 DEF Ensures, Looks, Memory
  <2>4. CASE ~s.connected
    <3> DEFINE r == [s EXCEPT !.pc = "connect", !.m = c]
    <3>1. EnsureConnectionAndThread(s) = r BY <2>2, <2>4
    <3>2. r.m = c /\ Looks(r, "connect", s.started, s.connected, s.prompt)
      BY DEF Looks, Memory
    <3> HIDE DEF r
    <3> QED BY <2>1, <2>4, <3>1, <3>2 DEF Ensures
  <2> QED BY <2>3, <2>4
<1>2. ASSUME s.m.thread # 0, s.m.turn = 0
      PROVE  \/ /\ s.started
                /\ Looks(SendAttempt(s), "mark", s.started, s.connected, s.prompt)
                /\ Has(SendAttempt(s).m, "Sending", s.m.thread, 0, FALSE, s.m.client,
                       s.m.followUp, s.m.queued)
             \/ ~s.started /\ SendAttempt(s) = [s EXCEPT !.pc = "loop"]
  <2> DEFINE m == BeginSending(s.m)
             a == [s EXCEPT !.pc = "mark", !.m = m]
  <2>1. Has(m, "Sending", s.m.thread, 0, FALSE, s.m.client, s.m.followUp, s.m.queued)
    BY <1>0, <1>2, SubmissionEffect
  <2>2. SendAttempt(s) = IF s.started THEN a ELSE [s EXCEPT !.pc = "loop"]
    BY <1>2 DEF SendAttempt, CanBeginSending, Loop
  <2> HIDE DEF m
  <2>3. a.m = m /\ Looks(a, "mark", s.started, s.connected, s.prompt)
    BY DEF Looks, Memory
  <2> HIDE DEF a
  <2> QED BY <2>1, <2>2, <2>3
<1>4. ASSUME s.m.thread # 0, s.m.turn = 0, ~s.m.uncertain
      PROVE  Sends(s, s.m.thread, s.m.followUp, SendAttempt(s))
  <2> DEFINE l == [s EXCEPT !.pc = "loop"]
  <2>1. l.m = s.m /\ Looks(l, "loop", s.started, s.connected, s.prompt)
    BY DEF Looks, Memory
  <2>2. Has(s.m, s.m.phase, s.m.thread, 0, FALSE, s.m.client, s.m.followUp, s.m.queued)
    BY <1>4 DEF Has
  <2> HIDE DEF l
  <2> QED BY <1>2, <1>4, <2>1, <2>2 DEF Sends, l
<1>3. ASSUME NEW t \in Nat, CanSetActiveTurn(s.m, t)
      PROVE  Watches(s, s.m.thread, t, SetActiveTurnW(s, t))
  <2> DEFINE m == SetActiveTurn(s.m, t)
             a == [s EXCEPT !.m = m, !.turnDeadline = TRUE]
  <2>1. Has(m, "Waiting", s.m.thread, t, FALSE, s.m.client, s.m.followUp, s.m.queued)
    BY <1>0, SubmissionEffect
  <2>2. SetActiveTurnW(s, t) = [a EXCEPT !.pc = "loop"]
    BY <1>3 DEF SetActiveTurnW, Loop
  <2> HIDE DEF m
  <2>3. SetActiveTurnW(s, t).m = m
        /\ Looks(SetActiveTurnW(s, t), "loop", s.started, s.connected, s.prompt)
    BY <2>2 DEF Looks, Memory
  <2> QED BY <2>1, <2>3 DEF Watches
<1> QED BY <1>1, <1>2, <1>3, <1>4

LEMMA CompletionEffect ==
  ASSUME NEW s \in Memory, NEW outcome
  PROVE  Concludes(s, s.m.thread, outcome, HandleCompletedTurn(s, outcome))
<1> DEFINE settled == [s EXCEPT !.m.uncertain = FALSE, !.turnDeadline = FALSE]
           done    == [settled EXCEPT !.m = Succeed(@)]
           retried == [settled EXCEPT !.m = MarkEmptyReply(@)]
           decision == ClassifyTurnCompletion(outcome, s.m.empties)
           again == s.m.followUp \/ s.m.turn # 0
           r == HandleCompletedTurn(s, outcome)
<1>1. /\ settled \in Memory /\ Looks(settled, s.pc, s.started, s.connected, s.prompt)
      /\ Has(settled.m, s.m.phase, s.m.thread, s.m.turn, FALSE, s.m.client,
             s.m.followUp, s.m.queued)
  <2> DEFINE k == [s.m EXCEPT !.uncertain = FALSE]
  <2>1. k \in Machine /\ Has(k, s.m.phase, s.m.thread, s.m.turn, FALSE, s.m.client,
                             s.m.followUp, s.m.queued)
    BY ZenonT(40) DEF Memory, Machine, Has
  <2>2. settled = [s EXCEPT !.m = k, !.turnDeadline = FALSE] OBVIOUS
  <2> HIDE DEF k
  <2>3. settled.m = k /\ settled \in Memory
        /\ Looks(settled, s.pc, s.started, s.connected, s.prompt)
    BY <2>1, <2>2 DEF Memory, Looks
  <2> QED BY <2>1, <2>3
<1>2. settled.m \in Machine BY <1>1 DEF Memory
<1> HIDE DEF settled
<1> DEFINE su == Succeed(settled.m)
           pa == Pause(settled.m)
           em == MarkEmptyReply(settled.m)
<1>3. su \in Machine /\ pa \in Machine /\ em \in Machine
  BY <1>2, EndingTypes
<1>4. /\ Has(su, "Success", s.m.thread, 0, FALSE, s.m.client, FALSE, s.m.queued)
      /\ Has(pa, "Paused", s.m.thread, s.m.turn, FALSE, s.m.client, s.m.followUp, s.m.queued)
      /\ Has(em, s.m.phase, s.m.thread, s.m.turn, FALSE, s.m.client,
             s.m.followUp, s.m.queued)
  BY <1>1, <1>2, EndingEffect DEF Has
<1>5. done = [settled EXCEPT !.m = su] /\ retried = [settled EXCEPT !.m = em]
  OBVIOUS
<1> HIDE DEF su, pa, em
<1>6. /\ done \in Memory /\ done.m = su
      /\ Looks(done, s.pc, s.started, s.connected, s.prompt)
      /\ retried \in Memory /\ retried.m = em
      /\ Looks(retried, s.pc, s.started, s.connected, s.prompt)
  BY <1>1, <1>3, <1>5 DEF Memory, Looks
<1> HIDE DEF done, retried
<1>7. /\ Looks(StartQueuedMessage(done), "handover", TRUE, s.connected, s.m.queued)
      /\ Has(StartQueuedMessage(done).m, "Idle", s.m.thread, 0, FALSE, 0, FALSE, NoTask)
  <2> DEFINE c == ClearQueuedMessage(done.m)
             m == PrepareFollowUp(c)
             q == done.m.queued
  <2>1. c \in Machine /\ c.thread = s.m.thread /\ c.queued = NoTask
    BY <1>3, <1>4, <1>6, QueuedTypes, EndingEffect DEF Has
  <2> HIDE DEF c
  <2>2. Has(m, "Idle", s.m.thread, 0, FALSE, 0, FALSE, NoTask)
    BY <2>1, FreshEffect
  <2>3. q = s.m.queued BY <1>4, <1>6 DEF Has
  <2>4. StartQueuedMessage(done) =
          [done EXCEPT !.prompt = q, !.started = TRUE, !.pc = "handover", !.m = m]
    BY DEF StartQueuedMessage, c
  <2> HIDE DEF m, q
  <2> DEFINE x == StartQueuedMessage(done)
  <2>5. x.m = m /\ x.prompt = q /\ x.started /\ x.pc = "handover"
        /\ (x.connected <=> done.connected)
    BY <1>6, <2>4 DEF Memory
  <2> HIDE DEF x
  <2>6. Looks(x, "handover", TRUE, s.connected, s.m.queued)
    BY <1>6, <2>3, <2>5 DEF Looks
  <2> QED BY <2>2, <2>5, <2>6 DEF x
<1>8. /\ Looks(Halt(settled, su), "loop", FALSE, FALSE, s.prompt) /\ Halt(settled, su).m = su
      /\ Looks(Halt(settled, pa), "loop", FALSE, FALSE, s.prompt) /\ Halt(settled, pa).m = pa
  BY <1>1, <1>3, HaltEffect DEF Looks
<1>9. Retries(s, s.m.thread, again, ScheduleRetryW(retried))
      /\ Retries(s, s.m.thread, again, ScheduleRetryW(settled))
  <2>1. Retries(settled, settled.m.thread, settled.m.followUp \/ settled.m.turn # 0,
                ScheduleRetryW(settled))
    BY <1>1, RetryEffect
  <2>2. Retries(retried, retried.m.thread, retried.m.followUp \/ retried.m.turn # 0,
                ScheduleRetryW(retried))
    BY <1>6, RetryEffect
  <2> DEFINE a == ScheduleRetryW(settled)
             b == ScheduleRetryW(retried)
  <2> HIDE DEF a, b
  <2>3. Retries(s, s.m.thread, again, a)
    BY <1>1, <2>1 DEF a, Retries, Looks, Has
  <2>4. Retries(s, s.m.thread, again, b)
    BY <1>4, <1>6, <2>2 DEF b, Retries, Looks, Has
  <2> QED BY <2>3, <2>4 DEF a, b
<1>10. [settled EXCEPT !.m = settled.m] = settled
  BY <1>1 DEF Memory
<1>11. r =
        CASE decision[1] = "success" /\ s.m.queued # NoTask -> StartQueuedMessage(done)
          [] decision[1] = "success" /\ s.m.queued = NoTask ->
               Halt(settled, su)
          [] decision[1] = "retry" ->
               ScheduleRetryW([settled EXCEPT !.m = IF decision[2]
                                                    THEN MarkEmptyReply(@) ELSE @])
          [] OTHER -> Halt(settled, pa)
  BY DEF HandleCompletedTurn, settled, done, su, pa
<1>12. Retries(s, s.m.thread, again,
               ScheduleRetryW([settled EXCEPT !.m = IF decision[2]
                                                 THEN MarkEmptyReply(@) ELSE @]))
  <2>1. CASE decision[2]
    BY <2>1, <1>9 DEF retried
  <2>2. CASE ~decision[2]
    BY <2>2, <1>9, <1>10
  <2> QED BY <2>1, <2>2
<1>13. /\ decision[1] = "success" <=> outcome = "answer"
       /\ decision[1] \in {"success", "retry", "pause"}
  BY DEF ClassifyTurnCompletion
<1> HIDE DEF decision, again, r
<1>14. CASE outcome = "answer" /\ s.m.queued # NoTask
  <2>1. r = StartQueuedMessage(done) BY <1>11, <1>13, <1>14
  <2> QED BY <1>7, <1>14, <2>1 DEF Concludes, r
<1>15. CASE outcome = "answer" /\ s.m.queued = NoTask
  <2>1. r = Halt(settled, su) BY <1>11, <1>13, <1>15
  <2> QED BY <1>4, <1>8, <1>15, <2>1 DEF Concludes, Rests, r
<1>16. CASE outcome # "answer" /\ decision[1] = "retry"
  <2>1. Retries(s, s.m.thread, again, r)
    BY <1>11, <1>12, <1>16
  <2> QED BY <1>16, <2>1 DEF Concludes, again, r
<1>17. CASE outcome # "answer" /\ decision[1] # "retry"
  <2>1. r = Halt(settled, pa) BY <1>11, <1>13, <1>17
  <2> QED BY <1>4, <1>8, <1>17, <2>1 DEF Concludes, Rests, r
<1> QED BY <1>14, <1>15, <1>16, <1>17

\* The latest turn of the thread is not the one an outcome is owed for.
Stranger(m, latest, reports) ==
  AwaitingOutcome(m) /\ NotOurs(m, turns[latest], reports)

\* A session is restored or created for a thread with this latest turn.
Session(s, thread, latest, reports, r) ==
  LET owed == AwaitingOutcome(s.m)
      foreign == Stranger(s.m, latest, reports)
      outcome == turns[latest].outcome
  IN \/ latest = 0 /\ owed /\ Retries(s, thread, s.m.followUp \/ s.m.turn # 0, r)
     \/ latest = 0 /\ ~owed /\ Sends(s, thread, s.m.followUp, r)
     \/ /\ latest # 0 /\ foreign /\ outcome = "running"
        /\ Retries(s, thread, s.m.followUp, r)
     \/ /\ latest # 0 /\ foreign /\ outcome # "running"
        /\ Sends(s, thread, s.m.followUp, r)
     \/ /\ latest # 0 /\ ~foreign /\ outcome = "running"
        /\ Watches(s, thread, latest, r)
     \/ /\ latest # 0 /\ ~foreign /\ ~owed /\ outcome # "running"
        /\ Sends(s, thread, s.m.followUp, r)
     \/ /\ latest # 0 /\ ~foreign /\ owed /\ outcome = "interrupted"
        /\ Sends(s, thread, TRUE, r)
     \/ /\ latest # 0 /\ ~foreign /\ owed /\ outcome # "running"
        /\ Concludes(s, thread, outcome, r)

LEMMA SessionEffect ==
  ASSUME NEW s \in Memory, NEW thread \in Nat \ {0}, NEW latest \in Nat,
         NEW reports \in BOOLEAN
  PROVE  Session(s, thread, latest, reports,
                 ApplyThreadSession(s, thread, latest, reports))
<1> DEFINE k == [s EXCEPT !.m = SetThread(@, thread), !.resumeRequested = FALSE]
           clean == [k EXCEPT !.m = ForgetTurn(@)]
           marked == [clean EXCEPT !.m = MarkRetryAsFollowUp(@)]
           outcome == turns[latest].outcome
           owed == AwaitingOutcome(s.m)
           foreign == Stranger(s.m, latest, reports)
           again == s.m.followUp \/ s.m.turn # 0
           r == ApplyThreadSession(s, thread, latest, reports)
<1>1. /\ k \in Memory /\ k.m \in Machine /\ Looks(k, s.pc, s.started, s.connected, s.prompt)
      /\ Has(k.m, s.m.phase, thread, s.m.turn, s.m.uncertain, s.m.client, s.m.followUp,
             s.m.queued)
  <2> DEFINE m == SetThread(s.m, thread)
  <2>1. /\ m \in Machine
        /\ Has(m, s.m.phase, thread, s.m.turn, s.m.uncertain, s.m.client, s.m.followUp,
               s.m.queued)
    BY ThreadType, ConnectingEffect DEF Memory
  <2> HIDE DEF m
  <2>2. /\ k \in Memory /\ k.m = m /\ Looks(k, s.pc, s.started, s.connected, s.prompt)
    BY <2>1 DEF Memory, Looks, m
  <2> QED BY <2>1, <2>2
<1> HIDE DEF k
<1>2. /\ clean \in Memory /\ clean.m \in Machine
      /\ Looks(clean, s.pc, s.started, s.connected, s.prompt)
      /\ Has(clean.m, s.m.phase, thread, 0, FALSE, s.m.client, s.m.followUp, s.m.queued)
  <2> DEFINE m == ForgetTurn(k.m)
  <2>1. m \in Machine BY <1>1, SubmissionTypes
  <2>2. Has(m, s.m.phase, thread, 0, FALSE, s.m.client, s.m.followUp, s.m.queued)
    <3>1. Has(m, k.m.phase, k.m.thread, 0, FALSE, k.m.client, k.m.followUp, k.m.queued)
      BY <1>1, SubmissionEffect
    <3> HIDE DEF m
    <3> QED BY <1>1, <3>1 DEF Has
  <2> HIDE DEF m
  <2>3. clean \in Memory /\ clean.m = m
        /\ Looks(clean, k.pc, k.started, k.connected, k.prompt)
    BY <1>1, <2>1 DEF Memory, Looks, m
  <2> HIDE DEF clean
  <2>4. Looks(clean, s.pc, s.started, s.connected, s.prompt)
    BY <1>1, <2>3 DEF Looks
  <2> QED BY <2>1, <2>2, <2>3, <2>4
<1> HIDE DEF clean
<1>3. /\ marked \in Memory
      /\ Looks(marked, s.pc, s.started, s.connected, s.prompt)
      /\ Has(marked.m, s.m.phase, thread, 0, FALSE, s.m.client, TRUE, s.m.queued)
  <2> DEFINE m == MarkRetryAsFollowUp(clean.m)
  <2>1. m \in Machine BY <1>2, EndingTypes
  <2>2. Has(m, s.m.phase, thread, 0, FALSE, s.m.client, TRUE, s.m.queued)
    <3>1. Has(m, clean.m.phase, clean.m.thread, clean.m.turn, clean.m.uncertain,
              clean.m.client, TRUE, clean.m.queued)
      BY <1>2, EndingEffect
    <3> HIDE DEF m
    <3> QED BY <1>2, <3>1 DEF Has
  <2> HIDE DEF m
  <2>3. marked \in Memory /\ marked.m = m
        /\ Looks(marked, clean.pc, clean.started, clean.connected, clean.prompt)
    BY <1>2, <2>1 DEF Memory, Looks, m
  <2> HIDE DEF marked
  <2>4. Looks(marked, s.pc, s.started, s.connected, s.prompt)
    BY <1>2, <2>3 DEF Looks
  <2> QED BY <2>1, <2>2, <2>3, <2>4
<1> HIDE DEF marked
<1>4. Retries(s, thread, again, ScheduleRetryW(k))
  <2>1. Retries(k, k.m.thread, k.m.followUp \/ k.m.turn # 0, ScheduleRetryW(k))
    BY <1>1, RetryEffect
  <2> DEFINE x == ScheduleRetryW(k)
  <2> HIDE DEF x
  <2>2. Retries(s, thread, again, x)
    BY <1>1, <2>1 DEF x, Retries, Looks, Has
  <2> QED BY <2>2 DEF x
<1>5. Retries(s, thread, s.m.followUp, ScheduleRetryW(clean))
  <2>1. Retries(clean, clean.m.thread, clean.m.followUp \/ clean.m.turn # 0,
                ScheduleRetryW(clean))
    BY <1>2, RetryEffect
  <2> DEFINE x == ScheduleRetryW(clean)
  <2> HIDE DEF x
  <2>2. Retries(s, thread, s.m.followUp, x)
    BY <1>2, <2>1 DEF x, Retries, Looks, Has
  <2> QED BY <2>2 DEF x
<1>6. ASSUME NEW j \in Memory, NEW followUp,
             Looks(j, s.pc, s.started, s.connected, s.prompt),
             Has(j.m, s.m.phase, thread, 0, FALSE, s.m.client, followUp, s.m.queued)
      PROVE  Sends(s, thread, followUp, SendAttempt(j))
  <2>1. Sends(j, j.m.thread, j.m.followUp, SendAttempt(j))
    BY <1>6, AttemptEffect DEF Has
  <2> DEFINE x == SendAttempt(j)
  <2> HIDE DEF x
  <2>2. Sends(s, thread, followUp, x)
    BY <1>6, <2>1 DEF x, Sends, Looks, Has
  <2> QED BY <2>2 DEF x
<1>7. Sends(s, thread, s.m.followUp, SendAttempt(clean))
      /\ Sends(s, thread, TRUE, SendAttempt(marked))
  BY <1>2, <1>3, <1>6
<1>8. ~owed => Sends(s, thread, s.m.followUp, SendAttempt(k))
  <2>1. ~owed => s.m.turn = 0 /\ ~s.m.uncertain
    BY DEF AwaitingOutcome
  <2>2. ~owed => Has(k.m, s.m.phase, thread, 0, FALSE, s.m.client, s.m.followUp, s.m.queued)
    BY <1>1, <2>1 DEF Has
  <2> QED BY <1>1, <1>6, <2>2
<1>9. Watches(s, thread, latest, AdoptTurn(k, latest))
  <2> DEFINE m == IF k.m.turn = latest THEN k.m ELSE ForgetTurn(k.m)
             a == [k EXCEPT !.m = m]
  <2>1. m \in Machine /\ m.turn \in {0, latest} /\ m.thread = thread
        /\ m.client = s.m.client /\ (m.followUp <=> s.m.followUp)
        /\ m.queued = s.m.queued
    <3>1. ForgetTurn(k.m) \in Machine
      BY <1>1, SubmissionTypes
    <3>2. Has(ForgetTurn(k.m), k.m.phase, k.m.thread, 0, FALSE, k.m.client, k.m.followUp,
              k.m.queued)
      BY <1>1, SubmissionEffect
    <3>3. CASE k.m.turn = latest
      BY <1>1, <3>3 DEF Has
    <3>4. CASE k.m.turn # latest
      <4>1. m = ForgetTurn(k.m) BY <3>4
      <4> HIDE DEF m
      <4> QED BY <1>1, <3>1, <3>2, <4>1 DEF Has
    <3> QED BY <3>3, <3>4
  <2>2. AdoptTurn(k, latest) = SetActiveTurnW(a, latest) BY DEF AdoptTurn
  <2> HIDE DEF m
  <2>3. a \in Memory /\ a.m = m /\ Looks(a, k.pc, k.started, k.connected, k.prompt)
    BY <1>1, <2>1 DEF Memory, Looks
  <2> HIDE DEF a
  <2>4. Watches(a, a.m.thread, latest, SetActiveTurnW(a, latest))
    BY <2>1, <2>3, AttemptEffect DEF CanSetActiveTurn
  <2> DEFINE x == SetActiveTurnW(a, latest)
  <2> HIDE DEF x
  <2>5. Watches(s, thread, latest, x)
    BY <1>1, <2>1, <2>3, <2>4 DEF x, Watches, Looks, Has
  <2> QED BY <2>2, <2>5 DEF x
<1>10. Concludes(s, thread, outcome, HandleCompletedTurn(k, outcome))
  <2>1. Concludes(k, k.m.thread, outcome, HandleCompletedTurn(k, outcome))
    BY <1>1, CompletionEffect
  <2> DEFINE x == HandleCompletedTurn(k, outcome)
  <2> HIDE DEF x, outcome
  <2>2. Concludes(s, thread, outcome, x)
    BY <1>1, <2>1 DEF x, Concludes, Retries, Rests, Looks, Has
  <2> QED BY <2>2 DEF x
<1>11. /\ AwaitingOutcome(k.m) <=> owed
       /\ (AwaitingOutcome(k.m) /\ NotOurs(k.m, turns[latest], reports)) <=> foreign
  BY <1>1 DEF Has, AwaitingOutcome, NotOurs, Stranger
<1>12. r =
        CASE latest = 0 /\ owed -> ScheduleRetryW(k)
          [] latest = 0 /\ ~owed -> SendAttempt(k)
          [] latest # 0 /\ foreign ->
               IF outcome = "running" THEN ScheduleRetryW(clean) ELSE SendAttempt(clean)
          [] latest # 0 /\ ~foreign /\ outcome = "running" -> AdoptTurn(k, latest)
          [] latest # 0 /\ ~foreign /\ outcome # "running" ->
               IF ~owed THEN SendAttempt(k)
               ELSE IF outcome = "interrupted" /\ s.resumeRequested
               THEN SendAttempt(marked)
               ELSE HandleCompletedTurn(k, outcome)
  <2> DEFINE owedK == AwaitingOutcome(k.m)
             foreignK == owedK /\ NotOurs(k.m, turns[latest], reports)
  <2>1. r =
        CASE latest = 0 /\ owedK -> ScheduleRetryW(k)
          [] latest = 0 /\ ~owedK -> SendAttempt(k)
          [] latest # 0 /\ foreignK ->
               IF outcome = "running" THEN ScheduleRetryW(clean) ELSE SendAttempt(clean)
          [] latest # 0 /\ ~foreignK /\ outcome = "running" -> AdoptTurn(k, latest)
          [] latest # 0 /\ ~foreignK /\ outcome # "running" ->
               IF ~owedK THEN SendAttempt(k)
               ELSE IF outcome = "interrupted" /\ s.resumeRequested
               THEN SendAttempt(marked)
               ELSE HandleCompletedTurn(k, outcome)
    BY DEF ApplyThreadSession, k, clean, marked
  <2>2. (owedK <=> owed) /\ (foreignK <=> foreign) BY <1>11
  <2> HIDE DEF owedK, foreignK, owed, foreign, r, outcome
  <2> QED BY <2>1, <2>2
<1> HIDE DEF r, owed, foreign, outcome, again, Session
<1>13. CASE latest = 0
  <2>1. r = IF owed THEN ScheduleRetryW(k) ELSE SendAttempt(k)
    BY <1>12, <1>13
  <2> QED BY <1>4, <1>8, <1>13, <2>1 DEF r, owed, foreign, outcome, again, Session
<1>14. CASE latest # 0 /\ foreign
  <2>1. r = IF outcome = "running" THEN ScheduleRetryW(clean) ELSE SendAttempt(clean)
    BY <1>12, <1>14
  <2> QED BY <1>5, <1>7, <1>14, <2>1 DEF r, owed, foreign, outcome, again, Session
<1>15. CASE latest # 0 /\ ~foreign /\ outcome = "running"
  <2>1. r = AdoptTurn(k, latest)
    BY <1>12, <1>15
  <2> QED BY <1>9, <1>15, <2>1 DEF r, owed, foreign, outcome, again, Session
<1>16. CASE latest # 0 /\ ~foreign /\ outcome # "running"
  <2>1. r = IF ~owed THEN SendAttempt(k)
            ELSE IF outcome = "interrupted" /\ s.resumeRequested
            THEN SendAttempt(marked)
            ELSE HandleCompletedTurn(k, outcome)
    BY <1>12, <1>16
  <2> QED BY <1>7, <1>8, <1>10, <1>16, <2>1 DEF r, owed, foreign, outcome, again, Session
<1> QED BY <1>13, <1>14, <1>15, <1>16

LEMMA CommandEffect ==
  ASSUME NEW s \in Memory
  PROVE  /\ Looks(StopTask(s), s.pc, FALSE, s.connected, s.prompt)
         /\ Has(StopTask(s).m, "Idle", s.m.thread, 0, FALSE, 0, FALSE, s.m.queued)
         /\ Looks(Pristine(s), "loop", FALSE, FALSE, NoTask)
         /\ Has(Pristine(s).m, "Idle", 0, 0, FALSE, 0, FALSE, NoTask)
         /\ \A t \in Prompts :
              /\ Looks(StartNewTask(s, t), "connect", TRUE, FALSE, t)
              /\ Has(StartNewTask(s, t).m, "Connecting", 0, 0, FALSE, 0, FALSE, NoTask)
<1>0. s.m \in Machine BY DEF Memory
<1>1. /\ Looks(StopTask(s), s.pc, FALSE, s.connected, s.prompt)
      /\ Has(StopTask(s).m, "Idle", s.m.thread, 0, FALSE, 0, FALSE, s.m.queued)
  <2> DEFINE m == StopCurrentTurn(s.m)
             t == s.m.turn
  <2>1. Has(m, "Idle", s.m.thread, 0, FALSE, 0, FALSE, s.m.queued)
    BY <1>0, FreshEffect
  <2>2. StopTask(s) = [s EXCEPT !.started = FALSE, !.turnDeadline = FALSE, !.m = m,
                                !.interrupting = t]
    BY DEF StopTask
  <2> HIDE DEF m, t
  <2>3. StopTask(s).m = m /\ Looks(StopTask(s), s.pc, FALSE, s.connected, s.prompt)
    BY <2>2 DEF Looks, Memory
  <2> QED BY <2>1, <2>3
<1>2. /\ Looks(Pristine(s), "loop", FALSE, FALSE, NoTask)
      /\ Has(Pristine(s).m, "Idle", 0, 0, FALSE, 0, FALSE, NoTask)
  <2> DEFINE m == ClearSession(s.m)
             h == Halt(s, m)
  <2>1. m \in Machine /\ Has(m, "Idle", 0, 0, FALSE, 0, FALSE, NoTask)
    BY <1>0, FreshEffect, ConnectingTypes
  <2> HIDE DEF m
  <2>2. h \in Memory /\ h.m = m /\ Looks(h, "loop", FALSE, FALSE, s.prompt)
    BY <2>1, HaltEffect, LoopTypes
  <2>3. Pristine(s) = Loop([h EXCEPT !.resumeRequested = FALSE, !.prompt = NoTask,
                                     !.interrupting = 0])
    BY DEF Pristine, m
  <2> HIDE DEF h
  <2>4. Pristine(s).m = m /\ Looks(Pristine(s), "loop", FALSE, FALSE, NoTask)
    BY <2>2, <2>3 DEF Loop, Looks, Memory
  <2> QED BY <2>1, <2>4
<1>3. ASSUME NEW t \in Prompts
      PROVE  /\ Looks(StartNewTask(s, t), "connect", TRUE, FALSE, t)
             /\ Has(StartNewTask(s, t).m, "Connecting", 0, 0, FALSE, 0, FALSE, NoTask)
  <2> DEFINE c == ClearSession(s.m)
             m == Reactivate(c)
             k == [s EXCEPT !.m = m, !.started = TRUE, !.turnDeadline = FALSE,
                            !.prompt = t, !.incoming = NoTask, !.interrupting = 0]
             d == ShutdownTransport(k)
  <2>1. c \in Machine /\ Has(c, "Idle", 0, 0, FALSE, 0, FALSE, NoTask)
    BY <1>0, FreshEffect, ConnectingTypes
  <2> HIDE DEF c
  <2>2. m \in Machine /\ Has(m, "Connecting", 0, 0, FALSE, 0, FALSE, NoTask)
    BY <2>1, ConnectingEffect, ConnectingTypes DEF Has
  <2>3. StartNewTask(s, t) = EnsureConnectionAndThread(d)
    BY DEF StartNewTask, c
  <2> HIDE DEF m
  <2>4. k \in Memory /\ k.m = m /\ k.started /\ k.prompt = t
    BY <2>2 DEF Memory, Prompts
  <2> HIDE DEF k
  <2>5. d \in Memory /\ d.m = m /\ Looks(d, k.pc, TRUE, FALSE, t)
    BY <2>4, LoopTypes DEF ShutdownTransport, Looks, Memory
  <2> HIDE DEF d
  <2>6. Ensures(d, EnsureConnectionAndThread(d))
    BY <2>5, AttemptEffect
  <2> DEFINE x == EnsureConnectionAndThread(d)
  <2> HIDE DEF x
  <2>7. /\ Looks(x, "connect", TRUE, FALSE, t)
        /\ Has(x.m, "Connecting", 0, 0, FALSE, 0, FALSE, NoTask)
    BY <2>2, <2>5, <2>6 DEF x, Ensures, Looks, Has
  <2> QED BY <2>3, <2>7 DEF x
<1> QED BY <1>1, <1>2, <1>3

-----------------------------------------------------------------------------
\* What each action leaves in the worker's memory.

\* The request the worker sends first once it has something to do.
Opening == {"connect", "create", "resume"}

\* The task is under way: the connection or the thread comes first.
Opens(prompt, thread, turn, uncertain, client, followUp, queued) ==
  /\ w'.pc \in Opening /\ w'.started /\ w'.prompt = prompt
  /\ w'.pc = "create" => thread = 0
  /\ Has(w'.m, "Connecting", thread, turn, uncertain, client, followUp, queued)

LEMMA OpeningEffect ==
  ASSUME NEW s \in Memory, NEW r, Ensures(s, r), s.m.phase = "Connecting"
  PROVE  /\ r.pc \in Opening /\ r.prompt = s.prompt /\ (r.started <=> s.started)
         /\ r.pc = "create" => s.m.thread = 0
         /\ Has(r.m, "Connecting", s.m.thread, s.m.turn, s.m.uncertain, s.m.client,
                s.m.followUp, s.m.queued)
BY DEF Ensures, Looks, Opening, Has

LEMMA DownEffect ==
  Looks(Down, "down", FALSE, FALSE, NoTask) /\ Down.m = Fresh
BY DEF Down, Offline, Looks

\* A new text, in the conversation there is or in a new one.
LEMMA SubmitMoves ==
  ASSUME TypeOK, NEW t \in Tasks
  PROVE  /\ StartConfigured(t) =>
              Opens(t, w.m.thread, 0, FALSE,
                    IF w.m.phase \in {"Success", "Paused", "FatalError"}
                    THEN 0 ELSE w.m.client, FALSE, w.m.queued)
         /\ StartNewConfigured(t) =>
              \/ /\ Looks(w', "replacing", FALSE, w.connected, w.prompt)
                 /\ Has(w'.m, "Idle", w.m.thread, 0, FALSE, 0, FALSE, w.m.queued)
                 /\ w'.incoming = t
              \/ Opens(t, 0, 0, FALSE, 0, FALSE, NoTask)
<1>0. w \in Memory /\ w.m \in Machine BY DEF TypeOK, Memory
<1>1. ASSUME StartConfigured(t)
      PROVE  Opens(t, w.m.thread, 0, FALSE,
                   IF w.m.phase \in {"Success", "Paused", "FatalError"}
                   THEN 0 ELSE w.m.client, FALSE, w.m.queued)
  <2> DEFINE m1 == [w.m EXCEPT !.followUp = FALSE]
             m2 == IF m1.phase \in {"Success", "Paused", "FatalError"}
                   THEN PrepareFollowUp(m1) ELSE m1
             m3 == Reactivate(m2)
             s  == [w EXCEPT !.prompt = t, !.started = TRUE, !.m = m3]
             client == IF w.m.phase \in {"Success", "Paused", "FatalError"}
                       THEN 0 ELSE w.m.client
  <2>0. w.m.turn = 0 /\ ~w.m.uncertain
    BY <1>1 DEF StartConfigured, TaskLocked
  <2>1. m1 \in Machine /\ Has(m1, w.m.phase, w.m.thread, 0, FALSE, w.m.client, FALSE,
                              w.m.queued)
    <3>1. /\ m1 \in Machine
          /\ Has(m1, w.m.phase, w.m.thread, w.m.turn, w.m.uncertain, w.m.client, FALSE,
                 w.m.queued)
      BY <1>0 DEF Machine, Has
    <3> HIDE DEF m1
    <3> QED BY <2>0, <3>1 DEF Has
  <2> HIDE DEF m1
  <2>2. /\ m2 \in Machine /\ m2.thread = w.m.thread /\ m2.turn = 0 /\ ~m2.uncertain
        /\ m2.client = client /\ ~m2.followUp /\ m2.queued = w.m.queued
    <3>1. PrepareFollowUp(m1) \in Machine
          /\ Has(PrepareFollowUp(m1), "Idle", m1.thread, 0, FALSE, 0, FALSE, m1.queued)
      BY <2>1, FollowUpType, FreshEffect
    <3> DEFINE p == PrepareFollowUp(m1)
    <3> HIDE DEF p
    <3>2. CASE w.m.phase \in {"Success", "Paused", "FatalError"}
      <4>1. m2 = p BY <2>1, <3>2 DEF Has, p
      <4> HIDE DEF m2
      <4> QED BY <2>1, <3>1, <3>2, <4>1 DEF Has, p
    <3>3. CASE w.m.phase \notin {"Success", "Paused", "FatalError"}
      <4>1. m2 = m1 BY <2>1, <3>3 DEF Has
      <4> HIDE DEF m2
      <4> QED BY <2>1, <3>3, <4>1 DEF Has
    <3> QED BY <3>2, <3>3
  <2> HIDE DEF m2, client
  <2>3. m3 \in Machine /\ Has(m3, "Connecting", w.m.thread, 0, FALSE, client, FALSE,
                              w.m.queued)
    BY <2>2, ConnectingTypes, ConnectingEffect DEF Has
  <2>4. w' = EnsureConnectionAndThread(s)
    BY <1>1 DEF StartConfigured, Becomes, m1, m2
  <2> HIDE DEF m3
  <2>5. s \in Memory /\ s.m = m3 /\ s.started /\ s.prompt = t
    BY <1>0, <2>3 DEF Memory, Prompts
  <2> HIDE DEF s
  <2>6. Ensures(s, w') BY <2>4, <2>5, AttemptEffect
  <2>7. s.m.phase = "Connecting" BY <2>3, <2>5 DEF Has
  <2>8. Opens(t, w.m.thread, 0, FALSE, client, FALSE, w.m.queued)
    BY <2>3, <2>5, <2>6, <2>7, OpeningEffect DEF Opens, Has
  <2> QED BY <2>8 DEF client
<1>2. ASSUME StartNewConfigured(t)
      PROVE  \/ /\ Looks(w', "replacing", FALSE, w.connected, w.prompt)
                /\ Has(w'.m, "Idle", w.m.thread, 0, FALSE, 0, FALSE, w.m.queued)
                /\ w'.incoming = t
             \/ Opens(t, 0, 0, FALSE, 0, FALSE, NoTask)
  <2> DEFINE k == StopTask(w)
             s == [k EXCEPT !.pc = "replacing", !.incoming = t]
  <2>1. k \in Memory BY <1>0, CommandTypes
  <2>2. w' = s \/ w' = StartNewTask(w, t)
    BY <1>2 DEF StartNewConfigured, Becomes
  <2>3. /\ Looks(k, w.pc, FALSE, w.connected, w.prompt)
        /\ Has(k.m, "Idle", w.m.thread, 0, FALSE, 0, FALSE, w.m.queued)
    BY <1>0, CommandEffect
  <2> HIDE DEF k
  <2>4. Looks(s, "replacing", FALSE, w.connected, w.prompt) /\ s.m = k.m /\ s.incoming = t
    BY <2>1, <2>3 DEF Looks, Memory
  <2> HIDE DEF s
  <2>5. /\ Looks(StartNewTask(w, t), "connect", TRUE, FALSE, t)
        /\ Has(StartNewTask(w, t).m, "Connecting", 0, 0, FALSE, 0, FALSE, NoTask)
    BY <1>0, CommandEffect DEF Prompts
  <2>6. CASE w' = s BY <2>3, <2>4, <2>6
  <2>7. CASE w' = StartNewTask(w, t)
    BY <2>5, <2>7 DEF Opens, Looks, Opening
  <2> QED BY <2>2, <2>6, <2>7
<1> QED BY <1>1, <1>2

\* The commands that leave the task as it is, and those that stop it.
LEMMA CommandMoves ==
  ASSUME TypeOK
  PROVE  /\ \A t \in Tasks : QueueMessage(t) =>
              /\ Looks(w', w.pc, w.started, w.connected, w.prompt)
              /\ Has(w'.m, w.m.phase, w.m.thread, w.m.turn, w.m.uncertain, w.m.client,
                     w.m.followUp, t)
         /\ Configure \/ SaveAgain => w' = w
         /\ ClearQueued =>
              /\ Looks(w', w.pc, w.started, w.connected, w.prompt)
              /\ Has(w'.m, w.m.phase, w.m.thread, w.m.turn, w.m.uncertain, w.m.client,
                     w.m.followUp, NoTask)
         /\ Resume =>
              \/ /\ w.prompt = NoTask /\ w.m.thread = 0
                 /\ Looks(w', "loop", FALSE, w.connected, w.prompt)
                 /\ Has(w'.m, "Paused", w.m.thread, w.m.turn, w.m.uncertain, w.m.client,
                        w.m.followUp, w.m.queued)
              \/ /\ w.prompt # NoTask /\ w.m.thread = 0
                 /\ Opens(w.prompt, w.m.thread, w.m.turn, w.m.uncertain, w.m.client,
                          w.m.followUp, w.m.queued)
              \/ /\ w.m.thread # 0
                 /\ Opens(w.prompt, w.m.thread, w.m.turn, w.m.uncertain, w.m.client,
                          w.m.followUp \/ w.m.turn # 0, w.m.queued)
         /\ PauseTask =>
              /\ w'.pc \in {"loop", "pausing"} /\ ~w'.started /\ w'.prompt = w.prompt
              /\ Has(w'.m, "Paused", w.m.thread, w.m.turn, w.m.uncertain, w.m.client,
                     w.m.followUp, w.m.queued)
         /\ Stop =>
              /\ w'.pc \in {"loop", "stopping"} /\ ~w'.started /\ w'.prompt = w.prompt
              /\ Has(w'.m, "Idle", w.m.thread, 0, FALSE, 0, FALSE, w.m.queued)
         /\ Reset =>
              \/ /\ Looks(w', "resetting", FALSE, w.connected, w.prompt)
                 /\ Has(w'.m, "Idle", w.m.thread, 0, FALSE, 0, FALSE, w.m.queued)
              \/ /\ Looks(w', "loop", FALSE, FALSE, NoTask)
                 /\ Has(w'.m, "Idle", 0, 0, FALSE, 0, FALSE, NoTask)
         /\ Shutdown => w' = Down
<1>0. w \in Memory /\ w.m \in Machine BY DEF TypeOK, Memory
<1>1. ASSUME NEW t \in Tasks, QueueMessage(t)
      PROVE  /\ Looks(w', w.pc, w.started, w.connected, w.prompt)
             /\ Has(w'.m, w.m.phase, w.m.thread, w.m.turn, w.m.uncertain, w.m.client,
                    w.m.followUp, t)
  <2> DEFINE m == SetQueuedMessage(w.m, t)
  <2>1. w' = [w EXCEPT !.m = m] BY <1>1 DEF QueueMessage, Becomes
  <2>2. Has(m, w.m.phase, w.m.thread, w.m.turn, w.m.uncertain, w.m.client, w.m.followUp, t)
    BY <1>0, EndingEffect
  <2> HIDE DEF m
  <2>3. w'.m = m /\ Looks(w', w.pc, w.started, w.connected, w.prompt)
    BY <1>0, <2>1 DEF Looks, Memory
  <2> QED BY <2>2, <2>3
<1>2. ASSUME ClearQueued
      PROVE  /\ Looks(w', w.pc, w.started, w.connected, w.prompt)
             /\ Has(w'.m, w.m.phase, w.m.thread, w.m.turn, w.m.uncertain, w.m.client,
                    w.m.followUp, NoTask)
  <2> DEFINE m == ClearQueuedMessage(w.m)
  <2>1. w' = [w EXCEPT !.m = m] BY <1>2 DEF ClearQueued, Becomes
  <2>2. Has(m, w.m.phase, w.m.thread, w.m.turn, w.m.uncertain, w.m.client, w.m.followUp,
            NoTask)
    BY <1>0, EndingEffect
  <2> HIDE DEF m
  <2>3. w'.m = m /\ Looks(w', w.pc, w.started, w.connected, w.prompt)
    BY <1>0, <2>1 DEF Looks, Memory
  <2> QED BY <2>2, <2>3
<1>3. Configure \/ SaveAgain => w' = w
  BY DEF Configure, SaveAgain
<1>4. ASSUME Resume
      PROVE  \/ /\ w.prompt = NoTask /\ w.m.thread = 0
                /\ Looks(w', "loop", FALSE, w.connected, w.prompt)
                /\ Has(w'.m, "Paused", w.m.thread, w.m.turn, w.m.uncertain, w.m.client,
                       w.m.followUp, w.m.queued)
             \/ /\ w.prompt # NoTask /\ w.m.thread = 0
                /\ Opens(w.prompt, w.m.thread, w.m.turn, w.m.uncertain, w.m.client,
                         w.m.followUp, w.m.queued)
             \/ /\ w.m.thread # 0
                /\ Opens(w.prompt, w.m.thread, w.m.turn, w.m.uncertain, w.m.client,
                         w.m.followUp \/ w.m.turn # 0, w.m.queued)
  <2> DEFINE p  == Pause(w.m)
             m2 == Reactivate(w.m)
             f  == FollowUpIfActive(w.m)
             m3 == Reactivate(f)
             k2 == [w EXCEPT !.started = TRUE, !.m = m2]
             k3 == [w EXCEPT !.started = TRUE, !.resumeRequested = TRUE, !.m = m3]
             again == w.m.followUp \/ w.m.turn # 0
  <2>1. w.pc = "loop" /\ ~w.started
    BY <1>4 DEF Resume, Asks, Listening
  <2>2. \/ w.prompt = NoTask /\ w.m.thread = 0 /\ w' = [w EXCEPT !.m = p]
        \/ w.prompt # NoTask /\ w.m.thread = 0 /\ w' = EnsureConnectionAndThread(k2)
        \/ w.m.thread # 0 /\ w' = EnsureConnectionAndThread(k3)
    BY <1>4 DEF Resume, Becomes
  <2>3. Has(p, "Paused", w.m.thread, w.m.turn, w.m.uncertain, w.m.client, w.m.followUp,
            w.m.queued)
    BY <1>0, EndingEffect
  <2>4. m2 \in Machine
        /\ Has(m2, "Connecting", w.m.thread, w.m.turn, w.m.uncertain, w.m.client,
               w.m.followUp, w.m.queued)
    BY <1>0, ConnectingTypes, ConnectingEffect
  <2>5. m3 \in Machine
        /\ Has(m3, "Connecting", w.m.thread, w.m.turn, w.m.uncertain, w.m.client,
               again, w.m.queued)
    <3>1. f \in Machine /\ Has(f, w.m.phase, w.m.thread, w.m.turn, w.m.uncertain,
                               w.m.client, again, w.m.queued)
      BY <1>0, EndingTypes, EndingEffect
    <3> HIDE DEF f, again
    <3> QED BY <3>1, ConnectingTypes, ConnectingEffect DEF Has
  <2> HIDE DEF p, m2, m3, again
  <2>6. CASE w.prompt = NoTask /\ w.m.thread = 0 /\ w' = [w EXCEPT !.m = p]
    <3>1. w'.m = p /\ Looks(w', "loop", FALSE, w.connected, w.prompt)
      BY <1>0, <2>1, <2>6 DEF Looks, Memory
    <3> QED BY <2>3, <2>6, <3>1
  <2>7. /\ k2 \in Memory /\ k2.m = m2 /\ k2.started /\ k2.prompt = w.prompt
        /\ k3 \in Memory /\ k3.m = m3 /\ k3.started /\ k3.prompt = w.prompt
    BY <1>0, <2>4, <2>5 DEF Memory
  <2> HIDE DEF k2, k3
  <2>8. Ensures(k2, EnsureConnectionAndThread(k2)) /\ Ensures(k3, EnsureConnectionAndThread(k3))
    BY <2>7, AttemptEffect
  <2>9. k2.m.phase = "Connecting" /\ k3.m.phase = "Connecting"
    BY <2>4, <2>5, <2>7 DEF Has
  <2>10. CASE w.prompt # NoTask /\ w.m.thread = 0 /\ w' = EnsureConnectionAndThread(k2)
    <3>1. Ensures(k2, w') BY <2>8, <2>10
    <3>2. Opens(w.prompt, w.m.thread, w.m.turn, w.m.uncertain, w.m.client,
                w.m.followUp, w.m.queued)
      BY <2>4, <2>7, <2>9, <3>1, OpeningEffect DEF Opens, Has
    <3> QED BY <2>10, <3>2
  <2>11. CASE w.m.thread # 0 /\ w' = EnsureConnectionAndThread(k3)
    <3>1. Ensures(k3, w') BY <2>8, <2>11
    <3>2. Opens(w.prompt, w.m.thread, w.m.turn, w.m.uncertain, w.m.client,
                again, w.m.queued)
      BY <2>5, <2>7, <2>9, <3>1, OpeningEffect DEF Opens, Has
    <3> QED BY <2>11, <3>2 DEF again
  <2> QED BY <2>2, <2>6, <2>10, <2>11
<1>5. ASSUME PauseTask
      PROVE  /\ w'.pc \in {"loop", "pausing"} /\ ~w'.started /\ w'.prompt = w.prompt
             /\ Has(w'.m, "Paused", w.m.thread, w.m.turn, w.m.uncertain, w.m.client,
                    w.m.followUp, w.m.queued)
  <2> DEFINE m == Pause(w.m)
             s == [w EXCEPT !.started = FALSE, !.turnDeadline = FALSE, !.m = m]
             t == s.m.turn
             p == [s EXCEPT !.pc = "pausing", !.interrupting = t]
  <2>1. w.pc = "loop"
    BY <1>5 DEF PauseTask, Asks, Listening
  <2>2. Has(m, "Paused", w.m.thread, w.m.turn, w.m.uncertain, w.m.client, w.m.followUp,
            w.m.queued) /\ m \in Machine
    BY <1>0, EndingEffect, EndingTypes
  <2>3. w' = p \/ w' = ShutdownTransport(s)
    BY <1>5 DEF PauseTask, Becomes
  <2> HIDE DEF m
  <2>4. s \in Memory /\ s.m = m /\ ~s.started /\ s.pc = "loop" /\ s.prompt = w.prompt
    BY <1>0, <2>1, <2>2 DEF Memory
  <2> HIDE DEF s, t
  <2>5. w'.m = m /\ w'.pc \in {"loop", "pausing"} /\ ~w'.started /\ w'.prompt = w.prompt
    BY <2>3, <2>4 DEF ShutdownTransport, Memory
  <2> QED BY <2>2, <2>5
<1>6. ASSUME NEW pc
      PROVE  LET s == [StopTask(w) EXCEPT !.pc = pc]
             IN /\ Looks(s, pc, FALSE, w.connected, w.prompt)
                /\ Has(s.m, "Idle", w.m.thread, 0, FALSE, 0, FALSE, w.m.queued)
  <2> DEFINE k == StopTask(w)
  <2>1. k \in Memory BY <1>0, CommandTypes
  <2>2. /\ Looks(k, w.pc, FALSE, w.connected, w.prompt)
        /\ Has(k.m, "Idle", w.m.thread, 0, FALSE, 0, FALSE, w.m.queued)
    BY <1>0, CommandEffect
  <2> HIDE DEF k
  <2> DEFINE s == [k EXCEPT !.pc = pc]
  <2>3. s.m = k.m /\ Looks(s, pc, FALSE, w.connected, w.prompt)
    BY <2>1, <2>2 DEF Looks, Memory
  <2> QED BY <2>2, <2>3 DEF k
<1>7. ASSUME Stop
      PROVE  /\ w'.pc \in {"loop", "stopping"} /\ ~w'.started /\ w'.prompt = w.prompt
             /\ Has(w'.m, "Idle", w.m.thread, 0, FALSE, 0, FALSE, w.m.queued)
  <2> DEFINE k == StopTask(w)
  <2>1. w' = [k EXCEPT !.pc = "stopping"] \/ w' = ShutdownTransport(k)
    BY <1>7 DEF Stop, Becomes
  <2>2. w.pc = "loop" BY <1>7 DEF Stop, Asks, Listening
  <2>3. /\ k \in Memory /\ Looks(k, w.pc, FALSE, w.connected, w.prompt)
        /\ Has(k.m, "Idle", w.m.thread, 0, FALSE, 0, FALSE, w.m.queued)
    BY <1>0, CommandTypes, CommandEffect
  <2> HIDE DEF k
  <2>4. w'.m = k.m /\ w'.pc \in {"loop", "stopping"} /\ ~w'.started /\ w'.prompt = w.prompt
    BY <2>1, <2>2, <2>3 DEF ShutdownTransport, Looks, Memory
  <2> QED BY <2>3, <2>4
<1>8. ASSUME Reset
      PROVE  \/ /\ Looks(w', "resetting", FALSE, w.connected, w.prompt)
                /\ Has(w'.m, "Idle", w.m.thread, 0, FALSE, 0, FALSE, w.m.queued)
             \/ /\ Looks(w', "loop", FALSE, FALSE, NoTask)
                /\ Has(w'.m, "Idle", 0, 0, FALSE, 0, FALSE, NoTask)
  <2>1. w' = [StopTask(w) EXCEPT !.pc = "resetting"] \/ w' = Pristine(w)
    BY <1>8 DEF Reset, Becomes
  <2> QED BY <1>0, <1>6, <2>1, CommandEffect
<1>9. Shutdown => w' = Down
  BY DEF Shutdown, Becomes
<1> QED BY <1>1, <1>2, <1>3, <1>4, <1>5, <1>7, <1>8, <1>9

\* The answers the worker awaits.
LEMMA InterruptMoves ==
  ASSUME TypeOK, ReadyInv, InterruptReply
  PROVE  \/ /\ w.pc \in {"pausing", "stopping"} /\ w'.m = w.m
            /\ Looks(w', "loop", FALSE, FALSE, w.prompt)
         \/ w.pc = "replacing" /\ Opens(w.incoming, 0, 0, FALSE, 0, FALSE, NoTask)
         \/ /\ w.pc = "resetting"
            /\ Looks(w', "loop", FALSE, FALSE, NoTask)
            /\ Has(w'.m, "Idle", 0, 0, FALSE, 0, FALSE, NoTask)
         \/ w.pc = "expiring" /\ Retries(w, w.m.thread, TRUE, w')
<1>0. w \in Memory /\ w.m \in Machine /\ w.incoming \in Prompts /\ Ready(w)
  BY DEF TypeOK, Memory, ReadyInv
<1> DEFINE k     == [w EXCEPT !.interrupting = 0]
           idle  == Loop(ShutdownTransport(k))
           mark  == MarkRetryAsFollowUp(w.m)
           free  == ForgetTurn(mark)
           freed == [w EXCEPT !.interrupting = 0, !.m = free]
<1>1. w.pc \in {"pausing", "stopping", "replacing", "resetting", "expiring"}
  BY DEF InterruptReply
<1>2. CASE w.pc \in {"pausing", "stopping"}
  <2>1. w' = idle BY <1>2 DEF InterruptReply, Becomes
  <2>2. k \in Memory /\ k.m = w.m /\ ~k.started /\ k.prompt = w.prompt
    BY <1>0, <1>2 DEF Memory, Ready
  <2> HIDE DEF k
  <2>3. idle.m = w.m /\ Looks(idle, "loop", FALSE, FALSE, w.prompt)
    BY <2>2 DEF Loop, ShutdownTransport, Looks, Memory
  <2> QED BY <1>2, <2>1, <2>3
<1>3. CASE w.pc = "replacing"
  <2>1. w' = StartNewTask(w, w.incoming) BY <1>3 DEF InterruptReply, Becomes
  <2>2. /\ Looks(w', "connect", TRUE, FALSE, w.incoming)
        /\ Has(w'.m, "Connecting", 0, 0, FALSE, 0, FALSE, NoTask)
    BY <1>0, <2>1, CommandEffect
  <2>3. Opens(w.incoming, 0, 0, FALSE, 0, FALSE, NoTask)
    BY <2>2 DEF Opens, Opening, Looks
  <2> QED BY <1>3, <2>3
<1>4. CASE w.pc = "resetting"
  <2>1. w' = Pristine(w) BY <1>4 DEF InterruptReply, Becomes
  <2> QED BY <1>0, <1>4, <2>1, CommandEffect
<1>5. CASE w.pc = "expiring"
  <2>1. w' = ScheduleRetryW(freed) BY <1>5 DEF InterruptReply, Becomes
  <2>2. mark \in Machine
        /\ Has(mark, w.m.phase, w.m.thread, w.m.turn, w.m.uncertain, w.m.client, TRUE,
               w.m.queued)
    BY <1>0, EndingTypes, EndingEffect
  <2> HIDE DEF mark
  <2>3. free \in Machine
        /\ Has(free, w.m.phase, w.m.thread, 0, FALSE, w.m.client, TRUE, w.m.queued)
    BY <2>2, SubmissionTypes, SubmissionEffect DEF Has
  <2> HIDE DEF free
  <2>4. freed \in Memory /\ freed.m = free
        /\ Looks(freed, w.pc, w.started, w.connected, w.prompt)
    BY <1>0, <2>3 DEF Memory, Looks
  <2> HIDE DEF freed
  <2>5. Retries(freed, freed.m.thread, freed.m.followUp \/ freed.m.turn # 0, w')
    BY <2>1, <2>4, RetryEffect
  <2>6. Retries(w, w.m.thread, TRUE, w')
    BY <2>3, <2>4, <2>5 DEF Retries, Looks, Has
  <2> QED BY <1>5, <2>6
<1> QED BY <1>1, <1>2, <1>3, <1>4, <1>5

\* A request of the session fails with this kind; one that asks for a retry is a fault
\* of its own.
Possible(kind) == kind = "rpcRetry" => "busy" \in Faults

LEMMA SessionMoves ==
  ASSUME TypeOK, ReadyInv
  PROVE  /\ ConnectReply =>
              \/ /\ w'.m = w.m
                 /\ Looks(w', IF w.m.thread = 0 THEN "create" ELSE "resume",
                          w.started, TRUE, w.prompt)
              \/ \E kind \in FailureKinds : Possible(kind) /\ Fails(w, kind, w')
         /\ CreateReply =>
              \/ threads' = threads + 1 /\ Session(w, threads + 1, 0, TRUE, w')
              \/ /\ threads' = threads
                 /\ \E kind \in FailureKinds : Possible(kind) /\ Fails(w, kind, w')
         /\ ResumeReply =>
              \E latest \in 0..Len(turns), reports \in BOOLEAN :
                /\ \/ /\ IsLatestTurn(latest, w.m.thread)
                      /\ reports \/ "oldServer" \in Faults
                   \/ latest = 0 /\ "unread" \in Faults
                /\ w' = ApplyThreadSession(w, w.m.thread, latest, reports)
                /\ Session(w, w.m.thread, latest, reports, w')
                /\ SaveOutcome(w') /\ Reports(w', latest)
         /\ ResumeFails =>
              \/ \E kind \in FailureKinds : Possible(kind) /\ Fails(w, kind, w')
              \/ /\ "deleted" \in Faults
                 /\ Looks(w', "create", w.started, w.connected, w.prompt)
                 /\ Has(w'.m, w.m.phase, 0, 0, FALSE, w.m.client, FALSE, w.m.queued)
<1>0. w \in Memory /\ w.m \in Machine /\ w.m.thread \in Nat /\ Ready(w)
  BY DEF TypeOK, Memory, Machine, ReadyInv
<1>f. ASSUME NEW kind \in FailureKinds, w' = HandleTransportFailure(w, kind)
      PROVE  Fails(w, kind, w')
  <2>1. Fails(w, kind, HandleTransportFailure(w, kind)) BY <1>0, FailureEffect
  <2> QED BY <1>f, <2>1
<1>1. ASSUME ConnectReply
      PROVE  \/ /\ w'.m = w.m
                /\ Looks(w', IF w.m.thread = 0 THEN "create" ELSE "resume",
                         w.started, TRUE, w.prompt)
             \/ \E kind \in FailureKinds : Possible(kind) /\ Fails(w, kind, w')
  <2> DEFINE k == [w EXCEPT !.connected = TRUE]
  <2>1. k \in Memory /\ k.m = w.m /\ Looks(k, w.pc, w.started, TRUE, w.prompt)
    BY <1>0 DEF Memory, Looks
  <2>2. \/ w' = EnsureConnectionAndThread(k)
        \/ \E kind \in FailureKinds :
             Possible(kind) /\ w' = HandleTransportFailure(w, kind)
    BY <1>1 DEF ConnectReply, Becomes, FailsAs, Fault, Possible
  <2> HIDE DEF k
  <2>3. CASE w' = EnsureConnectionAndThread(k)
    <3>1. Ensures(k, w') BY <2>1, <2>3, AttemptEffect
    <3>2. k.connected BY <2>1 DEF Looks
    <3>3. w'.m = w.m /\ Looks(w', IF k.m.thread = 0 THEN "create" ELSE "resume",
                              w.started, TRUE, w.prompt)
      BY <2>1, <3>1, <3>2 DEF Ensures, Looks
    <3> QED BY <2>1, <3>3
  <2> QED BY <1>f, <2>2, <2>3
<1>2. ASSUME CreateReply
      PROVE  \/ threads' = threads + 1 /\ Session(w, threads + 1, 0, TRUE, w')
             \/ /\ threads' = threads
                /\ \E kind \in FailureKinds : Possible(kind) /\ Fails(w, kind, w')
  <2>1. threads + 1 \in Nat \ {0} BY DEF TypeOK
  <2> DEFINE n == threads + 1
             a == ApplyThreadSession(w, n, 0, TRUE)
  <2>2. \/ w' = a /\ threads' = n
        \/ threads' = threads /\ \E kind \in FailureKinds :
             Possible(kind) /\ w' = HandleTransportFailure(w, kind)
    BY <1>2 DEF CreateReply, Becomes, FailsAs, Fault, Possible
  <2> HIDE DEF n
  <2>3. Session(w, n, 0, TRUE, a) BY <1>0, <2>1, SessionEffect DEF n
  <2> HIDE DEF a
  <2> QED BY <1>f, <2>2, <2>3 DEF n
<1>3. ASSUME ResumeReply
      PROVE  \E latest \in 0..Len(turns), reports \in BOOLEAN :
                /\ \/ /\ IsLatestTurn(latest, w.m.thread)
                      /\ reports \/ "oldServer" \in Faults
                   \/ latest = 0 /\ "unread" \in Faults
                /\ w' = ApplyThreadSession(w, w.m.thread, latest, reports)
                /\ Session(w, w.m.thread, latest, reports, w')
                /\ SaveOutcome(w') /\ Reports(w', latest)
  <2>1. w.m.thread \in Nat \ {0}
    BY <1>0, <1>3 DEF ResumeReply, Ready
  <2>2. ASSUME NEW latest \in 0..Len(turns), NEW reports \in BOOLEAN
        PROVE  Session(w, w.m.thread, latest, reports,
                       ApplyThreadSession(w, w.m.thread, latest, reports))
    <3>1. latest \in Nat OBVIOUS
    <3> QED BY <1>0, <2>1, <3>1, SessionEffect
  <2>3. PICK latest \in 0..Len(turns), reports \in BOOLEAN :
          LET s == ApplyThreadSession(w, w.m.thread, latest, reports)
          IN /\ \/ /\ IsLatestTurn(latest, w.m.thread)
                   /\ IF reports THEN UNCHANGED budget ELSE Fault("oldServer")
                \/ latest = 0 /\ reports /\ Fault("unread")
             /\ Becomes(s, events) /\ SaveOutcome(s) /\ Reports(s, latest)
    BY <1>3 DEF ResumeReply
  <2> DEFINE s == ApplyThreadSession(w, w.m.thread, latest, reports)
  <2>4. Session(w, w.m.thread, latest, reports, s) BY <2>2
  <2> HIDE DEF s
  <2>5. /\ \/ /\ IsLatestTurn(latest, w.m.thread)
              /\ reports \/ "oldServer" \in Faults
           \/ latest = 0 /\ "unread" \in Faults
        /\ w' = s /\ SaveOutcome(s) /\ Reports(s, latest)
    BY <2>3 DEF Fault, Becomes, s
  <2> QED BY <2>4, <2>5 DEF s
<1>4. ASSUME ResumeFails
      PROVE  \/ \E kind \in FailureKinds : Possible(kind) /\ Fails(w, kind, w')
             \/ /\ "deleted" \in Faults
                /\ Looks(w', "create", w.started, w.connected, w.prompt)
                /\ Has(w'.m, w.m.phase, 0, 0, FALSE, w.m.client, FALSE, w.m.queued)
  <2> DEFINE m == ClearThread(w.m)
             s == [w EXCEPT !.m = m, !.pc = "create"]
  <2>1. \/ w' = s /\ "deleted" \in Faults
        \/ \E kind \in FailureKinds :
             Possible(kind) /\ w' = HandleTransportFailure(w, kind)
    BY <1>4 DEF ResumeFails, Becomes, FailsAs, Fault, Possible
  <2>2. Has(m, w.m.phase, 0, 0, FALSE, w.m.client, FALSE, w.m.queued)
    BY <1>0, ConnectingEffect
  <2> HIDE DEF m
  <2>3. s.m = m /\ Looks(s, "create", w.started, w.connected, w.prompt)
    BY <1>0 DEF Looks, Memory
  <2> HIDE DEF s
  <2> QED BY <1>f, <2>1, <2>2, <2>3
<1> QED BY <1>1, <1>2, <1>3, <1>4

LEMMA SubmissionMoves ==
  ASSUME TypeOK, ReadyInv
  PROVE  /\ Mark =>
              \/ /\ diskOk
                 /\ Looks(w', "submit", w.started, w.connected, w.prompt)
                 /\ Has(w'.m, w.m.phase, w.m.thread, w.m.turn, TRUE, minted + 1,
                        w.m.followUp, w.m.queued)
                 /\ wire' = [client |-> minted + 1, thread |-> w.m.thread,
                             task |-> w.prompt, turn |-> 0,
                             kind |-> IF w.m.followUp THEN "continue" ELSE "original"]
              \/ /\ ~diskOk /\ wire' = wire
                 /\ w'.pc = "loop" /\ ~w'.started /\ w'.prompt = w.prompt
                 /\ Has(w'.m, "Paused", w.m.thread, w.m.turn, FALSE, minted + 1,
                        w.m.followUp, w.m.queued)
         /\ SubmitReply =>
              /\ wire.turn # 0 /\ Watches(w, w.m.thread, wire.turn, w')
         /\ SubmitFails =>
              \E kind \in FailureKinds \ {"notFound"} :
                /\ Fails(w, kind, w')
                /\ kind = "process" => "timeout" \in Faults
                /\ kind = "protocol" => "garbled" \in Faults /\ wire.turn # 0
                /\ kind \in {"rpcPause", "rpcRetry"} => wire.turn = 0
         /\ Handover =>
              \/ /\ w.started
                 /\ Looks(w', "markQueued", w.started, w.connected, w.prompt)
                 /\ Has(w'.m, "Sending", w.m.thread, 0, FALSE, w.m.client,
                        w.m.followUp, w.m.queued)
              \/ /\ ~w.started /\ w'.m = w.m
                 /\ Looks(w', "loop", w.started, w.connected, w.prompt)
<1>0. /\ w \in Memory /\ w.m \in Machine /\ w.m.thread \in Nat /\ Ready(w)
      /\ minted + 1 \in Nat /\ wire \in Request /\ wire.turn \in Nat
  BY DEF TypeOK, Memory, Machine, ReadyInv, Request
<1>1. ASSUME Mark
      PROVE  \/ /\ diskOk
                /\ Looks(w', "submit", w.started, w.connected, w.prompt)
                /\ Has(w'.m, w.m.phase, w.m.thread, w.m.turn, TRUE, minted + 1,
                       w.m.followUp, w.m.queued)
                /\ wire' = [client |-> minted + 1, thread |-> w.m.thread,
                            task |-> w.prompt, turn |-> 0,
                            kind |-> IF w.m.followUp THEN "continue" ELSE "original"]
             \/ /\ ~diskOk /\ wire' = wire
                /\ w'.pc = "loop" /\ ~w'.started /\ w'.prompt = w.prompt
                /\ Has(w'.m, "Paused", w.m.thread, w.m.turn, FALSE, minted + 1,
                       w.m.followUp, w.m.queued)
  <2> DEFINE n       == minted + 1
             marked  == MarkSubmission(w.m, n)
             s       == [w EXCEPT !.m = marked, !.pc = "submit"]
             cleared == [marked EXCEPT !.uncertain = FALSE]
             p       == Pause(cleared)
             r       == [s EXCEPT !.started = FALSE, !.turnDeadline = FALSE, !.m = p]
  <2>1. marked \in Machine
        /\ Has(marked, w.m.phase, w.m.thread, w.m.turn, TRUE, n, w.m.followUp, w.m.queued)
    BY <1>0, SubmissionTypes, SubmissionEffect
  <2> HIDE DEF marked, n
  <2>2. s \in Memory /\ s.m = marked
        /\ Looks(s, "submit", w.started, w.connected, w.prompt)
    BY <1>0, <2>1 DEF Looks, Memory, Awaits
  <2>3. cleared \in Machine
        /\ Has(cleared, w.m.phase, w.m.thread, w.m.turn, FALSE, n, w.m.followUp, w.m.queued)
    BY <2>1 DEF Machine, Has
  <2> HIDE DEF cleared
  <2>4. p \in Machine
        /\ Has(p, "Paused", w.m.thread, w.m.turn, FALSE, n, w.m.followUp, w.m.queued)
    BY <2>3, EndingTypes, EndingEffect DEF Has
  <2>5. \/ /\ diskOk /\ w' = s
           /\ wire' = [client |-> s.m.client, thread |-> s.m.thread,
                       task |-> s.prompt, turn |-> 0,
                       kind |-> IF s.m.followUp THEN "continue" ELSE "original"]
        \/ /\ ~diskOk /\ w' \in {Loop(r), ShutdownTransport(Loop(r))} /\ wire' = wire
    BY <1>1 DEF Mark, Becomes, marked, cleared, n
  <2> HIDE DEF p, s
  <2>6. r \in Memory /\ r.m = p /\ ~r.started /\ r.prompt = w.prompt
    BY <2>2, <2>4 DEF Looks, Memory
  <2> HIDE DEF r
  <2>7. /\ Loop(r).pc = "loop" /\ Loop(r).m = p /\ ~Loop(r).started
        /\ Loop(r).prompt = w.prompt
        /\ ShutdownTransport(Loop(r)).pc = "loop" /\ ShutdownTransport(Loop(r)).m = p
        /\ ~ShutdownTransport(Loop(r)).started
        /\ ShutdownTransport(Loop(r)).prompt = w.prompt
    <3> DEFINE l == Loop(r)
    <3>1. l \in Memory /\ l.pc = "loop" /\ l.m = p /\ ~l.started /\ l.prompt = w.prompt
      BY <2>6, LoopTypes DEF Loop, Memory
    <3> HIDE DEF l
    <3>2. ShutdownTransport(l).pc = "loop" /\ ShutdownTransport(l).m = p
          /\ ~ShutdownTransport(l).started /\ ShutdownTransport(l).prompt = w.prompt
      BY <3>1 DEF ShutdownTransport, Memory
    <3> QED BY <3>1, <3>2 DEF l
  <2>8. CASE ~diskOk
    BY <2>4, <2>5, <2>7, <2>8 DEF n
  <2>9. CASE diskOk
    <3>1. /\ w' = s /\ s.m.client = n /\ s.m.thread = w.m.thread /\ s.prompt = w.prompt
          /\ (s.m.followUp <=> w.m.followUp)
      BY <2>1, <2>2, <2>5, <2>9 DEF Has, Looks
    <3>2. /\ Looks(w', "submit", w.started, w.connected, w.prompt)
          /\ Has(w'.m, w.m.phase, w.m.thread, w.m.turn, TRUE, n, w.m.followUp, w.m.queued)
      BY <2>1, <2>2, <3>1
    <3> DEFINE kind == IF w.m.followUp THEN "continue" ELSE "original"
    <3>3. (IF s.m.followUp THEN "continue" ELSE "original") = kind
      BY <3>1
    <3>4. wire' = [client |-> n, thread |-> w.m.thread, task |-> w.prompt, turn |-> 0,
                   kind |-> kind]
      BY <2>5, <2>9, <3>1, <3>3
    <3> QED BY <2>9, <3>2, <3>4 DEF n
  <2> QED BY <2>8, <2>9
<1>2. ASSUME SubmitReply
      PROVE  wire.turn # 0 /\ Watches(w, w.m.thread, wire.turn, w')
  <2>1. w' = SetActiveTurnW(w, wire.turn) /\ w.m.turn = 0 /\ wire.turn # 0
    BY <1>0, <1>2 DEF SubmitReply, Becomes, Ready
  <2>2. Watches(w, w.m.thread, wire.turn, SetActiveTurnW(w, wire.turn))
    BY <1>0, <2>1, AttemptEffect DEF CanSetActiveTurn
  <2> QED BY <2>1, <2>2
<1>3. ASSUME SubmitFails
      PROVE  \E kind \in FailureKinds \ {"notFound"} :
                /\ Fails(w, kind, w')
                /\ kind = "process" => "timeout" \in Faults
                /\ kind = "protocol" => "garbled" \in Faults /\ wire.turn # 0
                /\ kind \in {"rpcPause", "rpcRetry"} => wire.turn = 0
  <2>1. PICK kind \in FailureKinds \ {"notFound"} :
          /\ w' = HandleTransportFailure(w, kind)
          /\ CASE kind = "process" -> Fault("timeout")
               [] kind = "protocol" -> Fault("garbled") /\ wire.turn # 0
               [] kind \in {"rpcPause", "rpcRetry"} -> Fault("refuse") /\ wire.turn = 0
    BY <1>3 DEF SubmitFails, Becomes
  <2>2. /\ kind = "process" => "timeout" \in Faults
        /\ kind = "protocol" => "garbled" \in Faults /\ wire.turn # 0
        /\ kind \in {"rpcPause", "rpcRetry"} => wire.turn = 0
    BY <2>1 DEF Fault, FailureKinds
  <2>3. Fails(w, kind, HandleTransportFailure(w, kind)) BY <1>0, FailureEffect
  <2>4. Fails(w, kind, w') BY <2>1, <2>3
  <2> QED BY <2>2, <2>4
<1>4. ASSUME Handover
      PROVE  \/ /\ w.started
                /\ Looks(w', "markQueued", w.started, w.connected, w.prompt)
                /\ Has(w'.m, "Sending", w.m.thread, 0, FALSE, w.m.client,
                       w.m.followUp, w.m.queued)
             \/ /\ ~w.started /\ w'.m = w.m
                /\ Looks(w', "loop", w.started, w.connected, w.prompt)
  <2> DEFINE s == SendAttempt(w)
             k == [s EXCEPT !.pc = "markQueued"]
             l == [w EXCEPT !.pc = "loop"]
  <2>1. w.m.thread # 0 /\ w.m.turn = 0
    BY <1>0, <1>4 DEF Handover, Ready
  <2>2. w' = IF s.pc = "mark" THEN k ELSE s
    BY <1>4 DEF Handover, Becomes
  <2>3. s \in Memory BY <1>0, AttemptTypes
  <2>4. \/ /\ w.started
           /\ Looks(s, "mark", w.started, w.connected, w.prompt)
           /\ Has(s.m, "Sending", w.m.thread, 0, FALSE, w.m.client,
                  w.m.followUp, w.m.queued)
        \/ ~w.started /\ s = l
    BY <1>0, <2>1, AttemptEffect
  <2> HIDE DEF s
  <2>5. CASE w.started /\ Looks(s, "mark", w.started, w.connected, w.prompt)
             /\ Has(s.m, "Sending", w.m.thread, 0, FALSE, w.m.client,
                    w.m.followUp, w.m.queued)
    <3>1. w' = k BY <2>2, <2>5 DEF Looks
    <3>2. k.m = s.m /\ Looks(k, "markQueued", w.started, w.connected, w.prompt)
      BY <2>3, <2>5 DEF Looks, Memory
    <3> HIDE DEF k
    <3> QED BY <2>5, <3>1, <3>2
  <2>6. CASE ~w.started /\ s = l
    <3>1. l.m = w.m /\ Looks(l, "loop", w.started, w.connected, w.prompt)
      BY <1>0 DEF Looks, Memory
    <3> HIDE DEF l
    <3>2. s.pc = "loop" BY <2>6, <3>1 DEF Looks
    <3>3. w' = l BY <2>2, <2>6, <3>2
    <3> QED BY <2>6, <3>1, <3>3
  <2> QED BY <2>4, <2>5, <2>6
<1> QED BY <1>1, <1>2, <1>3, <1>4

\* The event that is heard next is one of a known turn, or the end of the connection.
LEMMA HeardEvent ==
  ASSUME TypeOK, ReadyInv, events # << >>
  PROVE  /\ Head(events) = events[1] /\ 1 \in 1..Len(events)
         /\ Head(events) \in Event
         /\ Head(events).type # "disconnected" => Head(events).turn \in 1..Len(turns)
         /\ Tail(events) \in Seq(Event)
<1>1. events \in Seq(Event) BY DEF TypeOK
<1>2. Len(events) \in Nat /\ Len(events) # 0 BY <1>1
<1>3. Head(events) = events[1] /\ 1 \in 1..Len(events) BY <1>1, <1>2
<1>4. events[1] \in Event BY <1>1, <1>3
<1>5. events[1].type # "disconnected" => events[1].turn \in 1..Len(turns)
  BY <1>3 DEF ReadyInv, Placed
<1>6. Tail(events) \in Seq(Event) BY <1>1
<1> QED BY <1>3, <1>4, <1>5, <1>6

LEMMA EventMoves ==
  ASSUME TypeOK, ReadyInv
  PROVE  LET t == Head(events).turn
             again == w.m.followUp \/ w.m.turn # 0
         IN /\ OnTurnStarted =>
                 \/ w' = w /\ disk' = disk
                 \/ StartsOurTurn /\ Watches(w, w.m.thread, t, w') /\ SaveState(w')
            /\ OnError =>
                 \/ w' = w /\ disk' = disk
                 \/ /\ MatchesActive /\ SaveState(w')
                    /\ \/ /\ Looks(w', "loop", w.started, w.connected, w.prompt)
                          /\ Has(w'.m, "Waiting", w.m.thread, w.m.turn, w.m.uncertain,
                                 w.m.client, w.m.followUp, w.m.queued)
                       \/ Retries(w, w.m.thread, again, w')
                       \/ Rests(w, "Paused", w.m.thread, w.m.turn, w.m.uncertain,
                                w.m.followUp, w.m.queued, w')
            /\ OnTurnCompleted =>
                 \/ w' = w /\ disk' = disk /\ reported' = reported
                 \/ /\ MatchesActive
                    /\ \E outcome \in {turns[t].outcome, "empty"} :
                         Concludes(w, w.m.thread, outcome, w')
                    /\ SaveOutcome(w') /\ Reports(w', t)
            /\ OnSystemError =>
                 \/ w' = w /\ disk' = disk
                 \/ /\ "system" \in Faults \/ SameThread
                    /\ Looks(w', "loop", w.started, FALSE, w.prompt) /\ SaveState(w')
                    /\ Has(w'.m, "Backoff", w.m.thread, 0, FALSE, w.m.client,
                           w.m.followUp, w.m.queued)
            /\ OnDisconnected =>
                 /\ SaveState(w')
                 /\ \/ /\ w.m.phase = "Backoff" /\ w'.m = w.m
                       /\ Looks(w', "loop", w.started, FALSE, w.prompt)
                    \/ Reconnects(w, w')
<1> DEFINE t == Head(events).turn
           again == w.m.followUp \/ w.m.turn # 0
<1>0. w \in Memory /\ w.m \in Machine /\ Ready(w)
  BY DEF TypeOK, Memory, ReadyInv
<1>1. Ignores => w' = w /\ disk' = disk
  BY DEF Ignores, Becomes
<1>2. ASSUME NEW type, Hears(type)
      PROVE  w.pc = "loop" /\ w.started /\ w.connected /\ t \in Nat
  <2>1. events # << >> BY <1>2 DEF Hears
  <2>2. Head(events) \in Event BY <2>1, HeardEvent
  <2> QED BY <1>2, <2>2 DEF Hears, Listening, Event
<1>3. ASSUME OnTurnStarted
      PROVE  \/ w' = w /\ disk' = disk
             \/ StartsOurTurn /\ Watches(w, w.m.thread, t, w') /\ SaveState(w')
  <2> DEFINE s == SetActiveTurnW(w, t)
  <2>1. Ignores \/ (StartsOurTurn /\ w' = s /\ SaveState(s))
    BY <1>3 DEF OnTurnStarted, Handles, Becomes
  <2>2. StartsOurTurn => CanSetActiveTurn(w.m, t)
    BY DEF StartsOurTurn, CanSetActiveTurn
  <2>3. t \in Nat BY <1>2, <1>3 DEF OnTurnStarted
  <2>4. StartsOurTurn => Watches(w, w.m.thread, t, s)
    BY <1>0, <2>2, <2>3, AttemptEffect
  <2> HIDE DEF s, t
  <2> QED BY <1>1, <2>1, <2>4
<1>4. ASSUME OnError
      PROVE  \/ w' = w /\ disk' = disk
             \/ /\ MatchesActive /\ SaveState(w')
                /\ \/ /\ Looks(w', "loop", w.started, w.connected, w.prompt)
                      /\ Has(w'.m, "Waiting", w.m.thread, w.m.turn, w.m.uncertain,
                             w.m.client, w.m.followUp, w.m.queued)
                   \/ Retries(w, w.m.thread, again, w')
                   \/ Rests(w, "Paused", w.m.thread, w.m.turn, w.m.uncertain,
                            w.m.followUp, w.m.queued, w')
  <2> DEFINE m == [w.m EXCEPT !.phase = "Waiting"]
             s == [w EXCEPT !.m = m]
             p == Pause(w.m)
  <2>1. \/ Ignores
        \/ MatchesActive /\ \E x \in {s, ScheduleRetryW(w), Halt(w, p)} :
                              w' = x /\ SaveState(x)
    BY <1>4 DEF OnError, Handles, Becomes
  <2>2. w.pc = "loop" BY <1>2, <1>4 DEF OnError
  <2>3. Has(m, "Waiting", w.m.thread, w.m.turn, w.m.uncertain, w.m.client,
            w.m.followUp, w.m.queued)
    BY <1>0 DEF Machine, Has
  <2> HIDE DEF m
  <2>4. s.m = m /\ Looks(s, "loop", w.started, w.connected, w.prompt)
    BY <1>0, <2>2 DEF Looks, Memory
  <2>5. Retries(w, w.m.thread, again, ScheduleRetryW(w))
    BY <1>0, RetryEffect
  <2>6. p \in Machine
        /\ Has(p, "Paused", w.m.thread, w.m.turn, w.m.uncertain, w.m.client, w.m.followUp,
               w.m.queued)
    BY <1>0, EndingTypes, EndingEffect
  <2> HIDE DEF p
  <2>7. Rests(w, "Paused", w.m.thread, w.m.turn, w.m.uncertain, w.m.followUp, w.m.queued,
              Halt(w, p))
    BY <1>0, <2>6, HaltEffect DEF Rests
  <2> DEFINE a == ScheduleRetryW(w)
             b == Halt(w, p)
  <2> HIDE DEF s, a, b, again
  <2>8. \/ Ignores
        \/ MatchesActive /\ \E x \in {s, a, b} : w' = x /\ SaveState(x)
    BY <2>1 DEF a, b
  <2>9. ASSUME MatchesActive, w' = s, SaveState(s)
        PROVE  /\ SaveState(w') /\ Looks(w', "loop", w.started, w.connected, w.prompt)
               /\ Has(w'.m, "Waiting", w.m.thread, w.m.turn, w.m.uncertain,
                      w.m.client, w.m.followUp, w.m.queued)
    BY <2>3, <2>4, <2>9
  <2> QED BY <1>1, <2>5, <2>7, <2>8, <2>9 DEF a, b
<1>5. ASSUME OnTurnCompleted
      PROVE  \/ w' = w /\ disk' = disk /\ reported' = reported
             \/ /\ MatchesActive
                /\ \E outcome \in {turns[t].outcome, "empty"} :
                     Concludes(w, w.m.thread, outcome, w')
                /\ SaveOutcome(w') /\ Reports(w', t)
  <2>1. \/ Ignores /\ reported' = reported
        \/ MatchesActive /\ \E outcome \in {turns[t].outcome, "empty"} :
             LET s == HandleCompletedTurn(w, outcome)
             IN w' = s /\ SaveOutcome(s) /\ Reports(s, t)
    BY <1>5 DEF OnTurnCompleted, Becomes
  <2>2. CASE Ignores /\ reported' = reported
    BY <1>1, <2>2
  <2>3. CASE MatchesActive /\ \E outcome \in {turns[t].outcome, "empty"} :
             LET s == HandleCompletedTurn(w, outcome)
             IN w' = s /\ SaveOutcome(s) /\ Reports(s, t)
    <3>1. PICK outcome \in {turns[t].outcome, "empty"} :
             LET s == HandleCompletedTurn(w, outcome)
             IN w' = s /\ SaveOutcome(s) /\ Reports(s, t)
      BY <2>3
    <3> DEFINE s == HandleCompletedTurn(w, outcome)
    <3>2. Concludes(w, w.m.thread, outcome, s) BY <1>0, CompletionEffect
    <3> HIDE DEF s
    <3>3. w' = s /\ SaveOutcome(s) /\ Reports(s, t) BY <3>1 DEF s
    <3> QED BY <2>3, <3>2, <3>3
  <2> QED BY <2>1, <2>2, <2>3
<1>6. ASSUME OnSystemError
      PROVE  \/ w' = w /\ disk' = disk
             \/ /\ "system" \in Faults \/ SameThread
                /\ Looks(w', "loop", w.started, FALSE, w.prompt) /\ SaveState(w')
                /\ Has(w'.m, "Backoff", w.m.thread, 0, FALSE, w.m.client,
                       w.m.followUp, w.m.queued)
  <2> DEFINE m == [w.m EXCEPT !.turn = 0]
             k == [w EXCEPT !.m = m]
             d == ShutdownTransport(k)
             s == ScheduleRetryW(d)
  <2>1. Ignores \/ (SameThread /\ w' = s /\ SaveState(s))
    BY <1>6 DEF OnSystemError, Handles, Becomes
  <2>2. m \in Machine /\ Has(m, w.m.phase, w.m.thread, 0, w.m.uncertain, w.m.client,
                             w.m.followUp, w.m.queued)
    BY <1>0 DEF Machine, Has
  <2> HIDE DEF m
  <2>3. k \in Memory /\ k.m = m /\ Looks(k, w.pc, w.started, w.connected, w.prompt)
    BY <1>0, <2>2 DEF Looks, Memory
  <2> HIDE DEF k
  <2>4. d \in Memory /\ d.m = m /\ Looks(d, w.pc, w.started, FALSE, w.prompt)
    BY <2>3, LoopTypes DEF ShutdownTransport, Looks, Memory
  <2> HIDE DEF d
  <2>5. Retries(d, d.m.thread, d.m.followUp \/ d.m.turn # 0, s)
    BY <2>4, RetryEffect
  <2> HIDE DEF s
  <2>6. /\ Looks(s, "loop", w.started, FALSE, w.prompt)
        /\ Has(s.m, "Backoff", w.m.thread, 0, FALSE, w.m.client, w.m.followUp, w.m.queued)
    BY <2>2, <2>4, <2>5 DEF Retries, Looks, Has
  <2> QED BY <1>1, <2>1, <2>6
<1>7. ASSUME OnDisconnected
      PROVE  /\ SaveState(w')
             /\ \/ /\ w.m.phase = "Backoff" /\ w'.m = w.m
                   /\ Looks(w', "loop", w.started, FALSE, w.prompt)
                \/ Reconnects(w, w')
  <2> DEFINE k == [w EXCEPT !.turnDeadline = FALSE]
             d == ShutdownTransport(k)
             s == ScheduleConnectionRetry(d)
  <2>1. \/ w.m.phase = "Backoff" /\ w' = d /\ SaveState(d)
        \/ w' = s /\ SaveState(s)
    BY <1>7 DEF OnDisconnected, Handles, Becomes
  <2>2. w.pc = "loop" BY <1>2, <1>7 DEF OnDisconnected
  <2>3. k \in Memory /\ k.m = w.m /\ Looks(k, "loop", w.started, w.connected, w.prompt)
    BY <1>0, <2>2 DEF Looks, Memory
  <2> HIDE DEF k
  <2>4. d \in Memory /\ d.m = w.m /\ Looks(d, "loop", w.started, FALSE, w.prompt)
    BY <2>3, LoopTypes DEF ShutdownTransport, Looks, Memory
  <2> HIDE DEF d
  <2>5. /\ Looks(s, "loop", d.started, d.connected, d.prompt)
        /\ Has(s.m, "Connecting", d.m.thread, d.m.turn, d.m.uncertain, d.m.client,
               d.m.followUp \/ d.m.turn # 0, d.m.queued)
    BY <2>4, RetryEffect
  <2> HIDE DEF s
  <2>6. Reconnects(w, s)
    BY <2>4, <2>5 DEF Reconnects, Looks, Has
  <2> QED BY <2>1, <2>4, <2>6
<1> QED BY <1>3, <1>4, <1>5, <1>6, <1>7

LEMMA TimerMoves ==
  ASSUME TypeOK, HandleDeadline
  PROVE  /\ w.pc = "loop" /\ w.started
         /\ \/ /\ w.m.phase \in {"Backoff", "Connecting"} \/ w.m.turn = 0
               /\ Ensures(w, w')
            \/ w'.m = w.m /\ Looks(w', "expiring", w.started, w.connected, w.prompt)
<1>0. w \in Memory BY DEF TypeOK
<1> DEFINE t == w.m.turn
           x == [w EXCEPT !.pc = "expiring", !.interrupting = t]
<1>1. \/ /\ w.m.phase \in {"Backoff", "Connecting"} \/ w.m.turn = 0
         /\ w' = EnsureConnectionAndThread(w)
      \/ w' = x
  BY DEF HandleDeadline, Becomes
<1>2. Ensures(w, EnsureConnectionAndThread(w)) BY <1>0, AttemptEffect
<1> HIDE DEF t
<1>3. x.m = w.m /\ Looks(x, "expiring", w.started, w.connected, w.prompt)
  BY <1>0 DEF Looks, Memory
<1>4. w.pc = "loop" /\ w.started
  BY DEF HandleDeadline, Listening
<1> HIDE DEF x
<1> QED BY <1>1, <1>2, <1>3, <1>4

\* What a restart makes of the files.
LEMMA RestartMoves ==
  ASSUME TypeOK, Restart
  PROVE  LET m == disk.state
         IN \/ /\ ~RequiresRecovery(m) /\ disk'.state = Fresh
               /\ Looks(w', "loop", FALSE, FALSE, NoTask) /\ w'.m = Fresh
            \/ /\ RequiresRecovery(m) /\ PickedUp(m) /\ disk.digest # disk.prompt
               /\ Looks(w', "loop", FALSE, FALSE, disk.prompt) /\ disk' = disk
               /\ Has(w'.m, "Paused", m.thread, m.turn, FALSE, m.client, m.followUp,
                      m.queued)
            \/ /\ PickedUp(m) /\ disk.digest = disk.prompt
               /\ \/ /\ Looks(w', "loop", TRUE, FALSE, disk.prompt) /\ disk' = disk
                     /\ Has(w'.m, m.phase, m.thread, m.turn,
                            m.uncertain \/ m.phase = "Sending", m.client, m.followUp,
                            m.queued)
                  \/ /\ Looks(w', "connect", TRUE, FALSE, disk.prompt) /\ SaveState(w')
                     /\ Has(w'.m, "Connecting", m.thread, m.turn,
                            m.uncertain \/ m.phase = "Sending", m.client, m.followUp,
                            m.queued)
            \/ /\ ~PickedUp(m)
               /\ Looks(w', "loop", FALSE, FALSE, disk.prompt) /\ disk' = disk
               /\ Has(w'.m, m.phase, m.thread, m.turn, m.uncertain, m.client, m.followUp,
                      m.queued)
<1> DEFINE m == disk.state
           q == Pause(m)
           paused == [q EXCEPT !.uncertain = FALSE]
           unsure == m.uncertain \/ m.phase = "Sending"
           marked == [m EXCEPT !.uncertain = unsure]
           kept == Offline(marked, disk.prompt)
           b == PickedUp(m)
           k == [kept EXCEPT !.started = b]
           o == Offline(paused, disk.prompt)
           e == EnsureConnectionAndThread(k)
<1>0. disk \in Disk /\ m \in Machine /\ disk.prompt \in Prompts
  BY DEF TypeOK, Disk
<1>1. /\ q \in Machine
      /\ Has(q, "Paused", m.thread, m.turn, m.uncertain, m.client, m.followUp, m.queued)
  BY <1>0, EndingTypes, EndingEffect
<1>2. Has(paused, "Paused", m.thread, m.turn, FALSE, m.client, m.followUp, m.queued)
  <2> HIDE DEF q, m
  <2> QED BY <1>1 DEF Has, Machine
<1>3. marked \in Machine
      /\ Has(marked, m.phase, m.thread, m.turn, unsure, m.client, m.followUp, m.queued)
  <2>1. unsure \in BOOLEAN BY <1>0 DEF Machine
  <2> HIDE DEF unsure, m
  <2> QED BY <1>0, <2>1 DEF Has, Machine
<1>4. o.m = paused /\ Looks(o, "loop", FALSE, FALSE, disk.prompt)
  <2> HIDE DEF paused
  <2> QED BY DEF Offline, Looks
<1>5. kept \in Memory /\ kept.m = marked /\ kept.pc = "loop" /\ ~kept.connected
      /\ kept.prompt = disk.prompt
  <2> HIDE DEF marked
  <2> QED BY <1>0, <1>3, OfflineType DEF Offline
<1>6. b \in BOOLEAN BY DEF PickedUp
<1> HIDE DEF kept, marked, b
<1>7. k \in Memory /\ k.m = marked /\ Looks(k, "loop", b, FALSE, disk.prompt)
  BY <1>5, <1>6 DEF Looks, Memory
<1>8. Ensures(k, e) BY <1>7, AttemptEffect
<1>9. Restored = IF ~RequiresRecovery(m) THEN Offline(Fresh, NoTask)
                 ELSE IF b /\ disk.digest # disk.prompt THEN o ELSE k
  BY DEF Restored, kept, marked, b
<1> HIDE DEF k, o
<1>10. CASE ~RequiresRecovery(m)
  <2>1. w' = Offline(Fresh, NoTask) /\ disk' = [disk EXCEPT !.state = Fresh, !.digest = NoTask]
    BY <1>9, <1>10 DEF Restart
  <2>2. disk'.state = Fresh BY <1>0, <2>1 DEF Disk
  <2> QED BY <1>10, <2>1, <2>2 DEF Offline, Looks
<1>11. CASE RequiresRecovery(m) /\ b /\ disk.digest # disk.prompt
  <2>1. Restored = o BY <1>9, <1>11
  <2>2. ~o.started BY <1>4 DEF Looks
  <2>3. w' = o /\ disk' = disk
    BY <1>11, <2>1, <2>2 DEF Restart
  <2> QED BY <1>2, <1>4, <1>11, <2>3 DEF b
<1>12. CASE RequiresRecovery(m) /\ b /\ disk.digest = disk.prompt
  <2>1. Restored = k BY <1>9, <1>12
  <2>2. \/ w' = e /\ SaveState(e)
        \/ w' = k /\ disk' = disk
    BY <1>12, <2>1 DEF Restart
  <2> HIDE DEF e, unsure, m
  <2>3. CASE w' = k /\ disk' = disk
    <3>1. Looks(w', "loop", TRUE, FALSE, disk.prompt) BY <1>7, <1>12, <2>3 DEF Looks
    <3>2. Has(w'.m, m.phase, m.thread, m.turn, unsure, m.client, m.followUp, m.queued)
      BY <1>3, <1>7, <2>3
    <3> QED BY <1>12, <2>3, <3>1, <3>2 DEF b, unsure, m
  <2>4. CASE w' = e /\ SaveState(e)
    <3>1. Looks(e, "connect", TRUE, FALSE, disk.prompt)
          /\ Has(e.m, "Connecting", m.thread, m.turn, unsure, m.client, m.followUp,
                 m.queued)
      BY <1>3, <1>7, <1>8, <1>12 DEF Ensures, Looks, Has
    <3> QED BY <1>12, <2>4, <3>1 DEF b, unsure, m
  <2> QED BY <2>2, <2>3, <2>4
<1>13. CASE RequiresRecovery(m) /\ ~b
  <2>1. Restored = k BY <1>9, <1>13
  <2>2. ~k.started BY <1>7, <1>13 DEF Looks
  <2>3. w' = k /\ disk' = disk
    BY <1>13, <2>1, <2>2 DEF Restart
  <2>4. unsure <=> m.uncertain
    BY <1>13 DEF b, PickedUp, Running
  <2>5. Looks(w', "loop", FALSE, FALSE, disk.prompt)
    BY <1>7, <1>13, <2>3 DEF Looks
  <2> HIDE DEF unsure, m
  <2>6. Has(w'.m, m.phase, m.thread, m.turn, m.uncertain, m.client, m.followUp, m.queued)
    BY <1>3, <1>7, <2>3, <2>4 DEF Has
  <2> QED BY <1>13, <2>3, <2>5, <2>6 DEF b, m
<1> QED BY <1>10, <1>11, <1>12, <1>13

\* The state on disk is the one before, or the one the handler left.
LEMMA DiskMoves ==
  ASSUME TypeOK, Next
  PROVE  disk'.state \in {disk.state, w'.m}
<1>0. w \in Memory /\ w.m \in Machine /\ disk \in Disk
  BY DEF TypeOK, Memory
<1>1. ASSUME NEW s
      PROVE  /\ SaveState(s) => disk'.state \in {disk.state, s.m}
             /\ SaveConfig(s) => disk'.state = disk.state
             /\ SaveConfigAndState(s) => disk'.state \in {disk.state, s.m}
             /\ SaveOutcome(s) => disk'.state \in {disk.state, s.m}
  <2>1. ASSUME NEW a, NEW b
        PROVE  [disk EXCEPT !.state = a, !.digest = b].state = a
    BY <1>0 DEF Disk
  <2>2. ASSUME NEW a
        PROVE  [disk EXCEPT !.prompt = a].state = disk.state
    BY <1>0 DEF Disk
  <2>3. SaveState(s) => disk'.state \in {disk.state, s.m}
    BY <2>1 DEF SaveState
  <2>4. SaveConfig(s) => disk'.state = disk.state
    BY <2>2 DEF SaveConfig
  <2>5. SaveConfigAndState(s) => disk'.state \in {disk.state, s.m}
    BY DEF SaveConfigAndState
  <2> QED BY <2>3, <2>4, <2>5 DEF SaveOutcome
<1>2. ASSUME NEW s, w' = s,
             \/ SaveState(s) \/ SaveConfig(s) \/ SaveConfigAndState(s) \/ SaveOutcome(s)
             \/ disk' = disk
      PROVE  disk'.state \in {disk.state, w'.m}
  BY <1>1, <1>2
<1>3. CASE UserStep
  <2>1. ASSUME NEW t \in Tasks, StartConfigured(t) \/ StartNewConfigured(t) \/ QueueMessage(t)
        PROVE  disk'.state \in {disk.state, w'.m}
    BY <1>2, <2>1 DEF StartConfigured, StartNewConfigured, QueueMessage, Becomes
  <2>2. CASE Configure \/ SaveAgain
    BY <1>2, <2>2 DEF Configure, SaveAgain
  <2>3. CASE Resume \/ ClearQueued
    BY <1>2, <2>3 DEF Resume, ClearQueued, Becomes
  <2>4. CASE PauseTask
    <3> DEFINE m == Pause(w.m)
               s == [w EXCEPT !.started = FALSE, !.turnDeadline = FALSE, !.m = m]
               t == s.m.turn
               p == [s EXCEPT !.pc = "pausing", !.interrupting = t]
    <3>1. \/ w' = p /\ SaveState(p)
          \/ w' = ShutdownTransport(s) /\ SaveState(s)
      BY <2>4 DEF PauseTask, Becomes
    <3>2. s \in Memory
      <4>1. m \in Machine BY <1>0, EndingTypes
      <4> HIDE DEF m
      <4> QED BY <1>0, <4>1 DEF Memory
    <3> HIDE DEF p, s
    <3>3. ShutdownTransport(s).m = s.m BY <3>2 DEF ShutdownTransport, Memory
    <3> QED BY <1>1, <1>2, <3>1, <3>3
  <2>5. CASE Stop \/ Reset
    BY <1>2, <2>5 DEF Stop, Reset, Becomes
  <2>6. CASE Shutdown
    <3> DEFINE m == ClearSession(w.m)
               s == [w EXCEPT !.m = m]
    <3>1. w' = Down /\ SaveState(s) BY <2>6 DEF Shutdown, Becomes
    <3>2. m = Fresh /\ Down.m = Fresh BY DownEffect DEF ClearSession
    <3> HIDE DEF m
    <3>3. s.m = m BY <1>0 DEF Memory
    <3> HIDE DEF s
    <3> QED BY <1>1, <3>1, <3>2, <3>3
  <2> QED BY <1>3, <2>1, <2>2, <2>3, <2>4, <2>5, <2>6 DEF UserStep
<1>4. CASE WorkerStep
  <2>1. CASE InterruptReply
    <3>1. w.pc \in {"pausing", "stopping", "replacing", "resetting", "expiring"}
      BY <2>1 DEF InterruptReply
    <3> QED BY <1>2, <2>1, <3>1 DEF InterruptReply, Becomes
  <2>2. CASE ConnectReply \/ CreateReply \/ ResumeFails
    BY <1>2, <2>2 DEF ConnectReply, CreateReply, ResumeFails, Becomes
  <2>3. CASE ResumeReply
    <3>1. \E s : w' = s /\ SaveOutcome(s) BY <2>3 DEF ResumeReply, Becomes
    <3> QED BY <1>2, <3>1
  <2>4. CASE Mark
    <3>1. disk' = disk \/ \E s : w' = s /\ SaveState(s) BY <2>4 DEF Mark, Becomes
    <3> QED BY <1>2, <3>1
  <2>5. CASE SubmitReply \/ SubmitFails
    BY <1>2, <2>5 DEF SubmitReply, SubmitFails, Becomes
  <2>6. CASE Handover
    <3> DEFINE s == SendAttempt(w)
    <3>1. /\ SaveState(s)
          /\ w' = IF s.pc = "mark" THEN [s EXCEPT !.pc = "markQueued"] ELSE s
      BY <2>6 DEF Handover, Becomes
    <3>2. s \in Memory BY <1>0, AttemptTypes
    <3> HIDE DEF s
    <3>3. w'.m = s.m BY <3>1, <3>2 DEF Memory
    <3> QED BY <1>1, <3>1, <3>3
  <2>7. CASE OnTurnStarted \/ OnError \/ OnSystemError \/ OnDisconnected
    <3>1. disk' = disk \/ \E s : w' = s /\ SaveState(s)
      BY <2>7 DEF OnTurnStarted, OnError, OnSystemError, OnDisconnected, Handles, Ignores,
                  Becomes
    <3> QED BY <1>2, <3>1
  <2>8. CASE OnTurnCompleted
    <3>1. disk' = disk \/ \E s : w' = s /\ SaveOutcome(s)
      BY <2>8 DEF OnTurnCompleted, Ignores, Becomes
    <3> QED BY <1>2, <3>1
  <2>9. CASE HandleDeadline
    <3>1. disk' = disk \/ \E s : w' = s /\ SaveState(s)
      BY <2>9 DEF HandleDeadline, Becomes
    <3> QED BY <1>2, <3>1
  <2>10. CASE Restart
    <3>1. \/ disk'.state = Fresh /\ w'.m = Fresh
          \/ disk' = disk
          \/ SaveState(w')
      BY <2>10, RestartMoves
    <3> QED BY <1>2, <3>1
  <2> QED BY <1>4, <2>1, <2>2, <2>3, <2>4, <2>5, <2>6, <2>7, <2>8, <2>9, <2>10 DEF WorkerStep
<1>5. CASE CodexStep \/ MachineStep
  <2>1. disk' = disk
    BY <1>5 DEF CodexStep, ServerAccepts, TurnEnds, Notices, ThreadBreaks, ForeignTurn,
                MachineStep, Disconnects, DiskFails, DiskRecovers, Crash
  <2> QED BY <2>1
<1> QED BY <1>3, <1>4, <1>5 DEF Next

\* What a step makes of Codex's turns: one of them ends, or one is added.
Ended(t, o) ==
  /\ t \in RunningTurns /\ o \in Endings
  /\ turns' = [turns EXCEPT ![t].outcome = o]

LEMMA TurnMoves ==
  ASSUME TypeOK, Next
  PROVE  \/ turns' = turns
         \/ \E t \in RunningTurns, o \in Endings : Ended(t, o)
         \/ ServerAccepts
         \/ ForeignTurn
<1>1. CASE UserStep \/ MachineStep
  BY <1>1 DEF UserStep, StartConfigured, StartNewConfigured, QueueMessage, Configure,
              SaveAgain, Resume, ClearQueued, PauseTask, Stop, Reset, Shutdown, server,
              MachineStep, Disconnects, DiskFails, DiskRecovers, Crash
<1>2. CASE WorkerStep /\ ~InterruptReply
  BY <1>2 DEF WorkerStep, ConnectReply, CreateReply, ResumeReply, ResumeFails, Mark,
              SubmitReply, SubmitFails, Handover, OnTurnStarted, OnError, OnTurnCompleted,
              OnSystemError, OnDisconnected, HandleDeadline, Restart, server
<1>3. CASE InterruptReply
  <2>1. "interrupted" \in Endings BY DEF Endings
  <2>2. turns' = turns \/ Ended(w.interrupting, "interrupted")
    BY <1>3, <2>1 DEF InterruptReply, Ended
  <2> QED BY <2>1, <2>2 DEF Ended
<1>4. CASE TurnEnds
  BY <1>4 DEF TurnEnds, Ended
<1>5. CASE ThreadBreaks
  <2>1. "overloaded" \in Endings BY DEF Endings
  <2> QED BY <1>5, <2>1 DEF ThreadBreaks, OwnRunning, Ended
<1>6. CASE Notices
  BY <1>6 DEF Notices, server
<1> QED BY <1>1, <1>2, <1>3, <1>4, <1>5, <1>6 DEF Next, WorkerStep, CodexStep

\* A turn that ends keeps everything else it has.
LEMMA EndedMoves ==
  ASSUME TypeOK, NEW t \in RunningTurns, NEW o \in Endings, Ended(t, o)
  PROVE  /\ Len(turns') = Len(turns) /\ Len(turns) \in Nat /\ t \in 1..Len(turns)
         /\ \A i \in 1..Len(turns) :
              /\ turns'[i].thread = turns[i].thread /\ turns'[i].client = turns[i].client
              /\ turns'[i].task = turns[i].task /\ turns'[i].kind = turns[i].kind
              /\ turns'[i].outcome = IF i = t THEN o ELSE turns[i].outcome
         /\ RunningTurns' = RunningTurns \ {t}
         /\ OwnRunning' = OwnRunning \ {t}
<1>1. turns \in Seq(Turn) /\ t \in 1..Len(turns) /\ Len(turns) \in Nat
  BY DEF TypeOK, RunningTurns
<1> DEFINE u == [turns[t] EXCEPT !.outcome = o]
<1>2. /\ u.thread = turns[t].thread /\ u.client = turns[t].client
      /\ u.task = turns[t].task /\ u.kind = turns[t].kind /\ u.outcome = o
  <2>1. turns[t] \in Turn BY <1>1
  <2> QED BY <2>1 DEF Turn
<1>3. turns' = [turns EXCEPT ![t] = u] BY DEF Ended
<1> HIDE DEF u
<1>4. Len(turns') = Len(turns) BY <1>1, <1>3
<1>5. ASSUME NEW i \in 1..Len(turns)
      PROVE  turns'[i] = IF i = t THEN u ELSE turns[i]
  BY <1>1, <1>3
<1>6. \A i \in 1..Len(turns) :
        /\ turns'[i].thread = turns[i].thread /\ turns'[i].client = turns[i].client
        /\ turns'[i].task = turns[i].task /\ turns'[i].kind = turns[i].kind
        /\ turns'[i].outcome = IF i = t THEN o ELSE turns[i].outcome
  BY <1>2, <1>5
<1>7. o # "running" BY DEF Endings
<1>8. RunningTurns' = RunningTurns \ {t}
  BY <1>4, <1>6, <1>7 DEF RunningTurns
<1>9. OwnRunning' = OwnRunning \ {t}
  BY <1>6, <1>8 DEF OwnRunning, RunningTurns
<1> QED BY <1>1, <1>4, <1>6, <1>8, <1>9

\* A new turn leaves the others alone.
LEMMA AddedMoves ==
  ASSUME TypeOK, NEW u \in Turn, turns' = Append(turns, u), u.outcome = "running"
  PROVE  /\ Len(turns') = Len(turns) + 1 /\ Len(turns) \in Nat
         /\ turns'[Len(turns) + 1] = u
         /\ \A i \in 1..Len(turns) : turns'[i] = turns[i]
         /\ RunningTurns' = RunningTurns \cup {Len(turns) + 1}
         /\ OwnRunning' = IF u.kind = "foreign" THEN OwnRunning
                          ELSE OwnRunning \cup {Len(turns) + 1}
<1>1. turns \in Seq(Turn) /\ Len(turns) \in Nat BY DEF TypeOK
<1>2. /\ Len(turns') = Len(turns) + 1
      /\ turns'[Len(turns) + 1] = u
      /\ \A i \in 1..Len(turns) : turns'[i] = turns[i]
  BY <1>1
<1>3. 1..Len(turns') = 1..Len(turns) \cup {Len(turns) + 1}
  BY <1>1, <1>2
<1> DEFINE n == Len(turns) + 1
<1>n. n \notin 1..Len(turns) BY <1>1
<1>4. RunningTurns' = RunningTurns \cup {n}
  <2>1. ASSUME NEW i
        PROVE  i \in RunningTurns' <=> i \in RunningTurns \cup {n}
    <3>1. CASE i = n BY <1>2, <1>3, <3>1 DEF RunningTurns
    <3>2. CASE i # n BY <1>2, <1>3, <3>2 DEF RunningTurns
    <3> QED BY <3>1, <3>2
  <2> QED BY <2>1
<1>5. OwnRunning' = IF u.kind = "foreign" THEN OwnRunning ELSE OwnRunning \cup {n}
  <2>1. \A i \in RunningTurns : i \in 1..Len(turns) BY DEF RunningTurns
  <2>2. ASSUME NEW i \in RunningTurns
        PROVE  turns'[i].kind = turns[i].kind /\ i # n
    BY <1>2, <1>n, <2>1
  <2>3. turns'[n] = u BY <1>2
  <2>4. ASSUME NEW i
        PROVE  i \in OwnRunning' <=>
                 i \in OwnRunning \/ (i = n /\ u.kind # "foreign")
    <3>1. CASE i = n BY <1>4, <2>2, <2>3, <3>1 DEF OwnRunning
    <3>2. CASE i # n BY <1>4, <2>2, <3>2 DEF OwnRunning
    <3> QED BY <3>1, <3>2
  <2> QED BY <2>4
<1> QED BY <1>1, <1>2, <1>4, <1>5

-----------------------------------------------------------------------------
\* One turn at a time.

\* Of this thread Codex can only be working on turn t of the worker's.
Only(thread, t) == \A i \in OwnRunning : turns[i].thread = thread => i = t

\* What every handler leaves in memory when Codex has created k threads: a thread that
\* it knows, none of whose turns is running where one is about to be started, and the
\* running one where events are heard.
Sure(s, k) ==
  /\ s.m.thread <= k
  /\ s.pc \in {"mark", "markQueued", "handover"} => Only(s.m.thread, 0)
  /\ s.pc = "loop" /\ s.started /\ s.connected =>
       IF s.m.turn = 0 THEN s.m.phase \notin {"Sending", "Waiting"}
                       ELSE Only(s.m.thread, s.m.turn)

\* A turn that runs is the last of its thread.
LastRunning ==
  \A i \in OwnRunning : \A j \in 1..Len(turns) : j > i => turns[j].thread # turns[i].thread

\* A turn whose end was announced has ended.
EndingsTrue ==
  \A k \in 1..Len(events) :
    events[k].type = "completed" => turns[events[k].turn].outcome # "running"

\* The threads in the files, in the history and on the wire are threads Codex created,
\* and a request on the wire is the only one in its thread.
Known ==
  /\ \A t \in 1..Len(turns) : turns[t].thread <= threads
  /\ disk.state.thread <= threads
  /\ wire.thread <= threads /\ (w.pc = "submit" => wire.thread = w.m.thread)
  /\ Only(wire.thread, wire.turn)

SingleInv == Sure(w, threads) /\ LastRunning /\ EndingsTrue /\ Known

\* Every result of a pure step is sure where the thread and its turns are known.
LEMMA SureResults ==
  ASSUME TypeOK, NEW r, NEW thread \in Nat, NEW k \in Nat, thread <= k
  PROVE  /\ \A again : Retries(w, thread, again, r) => Sure(r, k)
         /\ thread = w.m.thread /\ Reconnects(w, r) => Sure(r, k)
         /\ \A phase, turn, uncertain, followUp, queued :
              Rests(w, phase, thread, turn, uncertain, followUp, queued, r) => Sure(r, k)
         /\ \A kind : thread = w.m.thread /\ Fails(w, kind, r) => Sure(r, k)
         /\ thread = w.m.thread /\ Ensures(w, r) => Sure(r, k)
         /\ \A again : Only(thread, 0) /\ Sends(w, thread, again, r) => Sure(r, k)
         /\ \A outcome : /\ outcome = "answer" => Only(thread, 0)
                         /\ Concludes(w, thread, outcome, r)
                         => Sure(r, k)
         /\ \A t : t # 0 /\ Only(thread, t) /\ Watches(w, thread, t, r) => Sure(r, k)
<1>1. \A again : Retries(w, thread, again, r) => Sure(r, k)
  BY DEF Retries, Looks, Has, Sure
<1>2. thread = w.m.thread /\ Reconnects(w, r) => Sure(r, k)
  BY DEF Reconnects, Looks, Has, Sure
<1>3. \A phase, turn, uncertain, followUp, queued :
        Rests(w, phase, thread, turn, uncertain, followUp, queued, r) => Sure(r, k)
  BY DEF Rests, Looks, Has, Sure
<1>4. \A kind : thread = w.m.thread /\ Fails(w, kind, r) => Sure(r, k)
  BY <1>1, <1>2, <1>3 DEF Fails
<1>5. thread = w.m.thread /\ Ensures(w, r) => Sure(r, k)
  BY DEF Ensures, Looks, Has, Sure
<1>6. \A again : Only(thread, 0) /\ Sends(w, thread, again, r) => Sure(r, k)
  BY DEF Sends, Looks, Has, Sure
<1>7. ASSUME NEW outcome, outcome = "answer" => Only(thread, 0),
             Concludes(w, thread, outcome, r)
      PROVE  Sure(r, k)
  <2>1. CASE Looks(r, "handover", TRUE, w.connected, w.m.queued)
             /\ Has(r.m, "Idle", thread, 0, FALSE, 0, FALSE, NoTask) /\ outcome = "answer"
    BY <1>7, <2>1 DEF Looks, Has, Sure
  <2> QED BY <1>1, <1>3, <1>7, <2>1 DEF Concludes
<1>8. \A t : t # 0 /\ Only(thread, t) /\ Watches(w, thread, t, r) => Sure(r, k)
  BY DEF Watches, Looks, Has, Sure
<1> QED BY <1>1, <1>2, <1>3, <1>4, <1>5, <1>6, <1>7, <1>8

LEMMA SureUser ==
  ASSUME TypeOK, SingleInv, UserStep
  PROVE  Sure(w', threads')
<1>0. w.m.thread \in Nat /\ threads \in Nat /\ Sure(w, threads) /\ w.m.thread <= threads
      /\ threads' = threads
  BY DEF TypeOK, Memory, Machine, SingleInv, Sure, UserStep, StartConfigured,
         StartNewConfigured, QueueMessage, Configure, SaveAgain, Resume, ClearQueued,
         PauseTask, Stop, Reset, Shutdown, server
<1>1. ASSUME w'.pc \notin {"loop", "mark", "markQueued", "handover"} \/ ~w'.started,
             w'.pc \notin {"mark", "markQueued", "handover"},
             w'.m.thread \in {0, w.m.thread}
      PROVE  Sure(w', threads')
  BY <1>0, <1>1 DEF Sure
<1>2. ASSUME NEW prompt, NEW thread \in {0, w.m.thread}, NEW turn, NEW uncertain,
             NEW client, NEW followUp, NEW queued,
             Opens(prompt, thread, turn, uncertain, client, followUp, queued)
      PROVE  Sure(w', threads')
  BY <1>1, <1>2 DEF Opens, Opening, Has
<1>3. ASSUME NEW t \in Tasks, StartConfigured(t) \/ StartNewConfigured(t)
      PROVE  Sure(w', threads')
  <2>1. CASE StartConfigured(t)
    BY <1>2, <2>1, SubmitMoves
  <2>2. CASE StartNewConfigured(t)
    <3>1. CASE Opens(t, 0, 0, FALSE, 0, FALSE, NoTask)
      BY <1>2, <3>1
    <3>2. CASE Looks(w', "replacing", FALSE, w.connected, w.prompt)
               /\ Has(w'.m, "Idle", w.m.thread, 0, FALSE, 0, FALSE, w.m.queued)
      BY <1>1, <3>2 DEF Looks, Has
    <3> QED BY <2>2, <3>1, <3>2, SubmitMoves
  <2> QED BY <1>3, <2>1, <2>2
<1>4. ASSUME NEW queued, w.pc = "loop",
             Looks(w', w.pc, w.started, w.connected, w.prompt),
             Has(w'.m, w.m.phase, w.m.thread, w.m.turn, w.m.uncertain, w.m.client,
                 w.m.followUp, queued)
      PROVE  Sure(w', threads')
  BY <1>0, <1>4 DEF Looks, Has, Sure
<1>5. ASSUME NEW t \in Tasks, QueueMessage(t) PROVE Sure(w', threads')
  BY <1>4, <1>5, CommandMoves DEF QueueMessage, Asks, Listening
<1>6. CASE Configure \/ SaveAgain
  BY <1>0, <1>6, CommandMoves
<1>7. CASE ClearQueued
  BY <1>4, <1>7, CommandMoves DEF ClearQueued, Asks, Listening
<1>8. CASE Resume
  <2>1. CASE Looks(w', "loop", FALSE, w.connected, w.prompt)
             /\ Has(w'.m, "Paused", w.m.thread, w.m.turn, w.m.uncertain, w.m.client,
                    w.m.followUp, w.m.queued)
    BY <1>1, <2>1 DEF Looks, Has
  <2>2. CASE Opens(w.prompt, w.m.thread, w.m.turn, w.m.uncertain, w.m.client,
                   w.m.followUp, w.m.queued)
    BY <1>2, <2>2
  <2>3. CASE Opens(w.prompt, w.m.thread, w.m.turn, w.m.uncertain, w.m.client,
                   w.m.followUp \/ w.m.turn # 0, w.m.queued)
    BY <1>2, <2>3
  <2> QED BY <1>8, <2>1, <2>2, <2>3, CommandMoves
<1>9. CASE PauseTask
  BY <1>1, <1>9, CommandMoves DEF Has
<1>10. CASE Stop
  BY <1>1, <1>10, CommandMoves DEF Has
<1>11. CASE Reset
  BY <1>1, <1>11, CommandMoves DEF Has, Looks
<1>12. CASE Shutdown
  BY <1>1, <1>12, CommandMoves, DownEffect, FreshEffect DEF Has, Looks
<1> QED BY <1>3, <1>5, <1>6, <1>7, <1>8, <1>9, <1>10, <1>11, <1>12 DEF UserStep

\* Where the latest turn of a thread is known and has ended, none runs.
LEMMA LatestOnly ==
  ASSUME TypeOK, LastRunning, NEW thread, NEW latest \in 0..Len(turns),
         IsLatestTurn(latest, thread)
  PROVE  /\ Only(thread, latest)
         /\ latest = 0 \/ turns[latest].outcome # "running" => Only(thread, 0)
<1>0. Len(turns) \in Nat BY DEF TypeOK
<1>1. ASSUME NEW i \in OwnRunning, turns[i].thread = thread
      PROVE  i = latest /\ i # 0 /\ turns[i].outcome = "running"
  <2>1. i \in 1..Len(turns) /\ turns[i].outcome = "running"
    BY DEF OwnRunning, RunningTurns
  <2>2. ~(i > latest)
    BY <1>0, <1>1, <2>1 DEF IsLatestTurn
  <2>3. ~(i < latest)
    <3>1. SUFFICES ASSUME i < latest PROVE FALSE OBVIOUS
    <3>2. latest \in 1..Len(turns) /\ latest > i BY <1>0, <2>1, <3>1
    <3>3. turns[latest].thread = thread BY <1>0, <3>2 DEF IsLatestTurn
    <3> QED BY <1>1, <3>2, <3>3 DEF LastRunning
  <2> QED BY <1>0, <2>1, <2>2, <2>3
<1> QED BY <1>1 DEF Only

LEMMA SureRequest ==
  ASSUME "unread" \notin Faults, TypeOK, ReadyInv, WriteAheadInv, SingleInv,
         \/ InterruptReply \/ ConnectReply \/ CreateReply \/ ResumeReply \/ ResumeFails
         \/ Mark \/ SubmitReply \/ SubmitFails \/ Handover
  PROVE  Sure(w', threads')
<1>0. /\ w.m.thread \in Nat /\ threads \in Nat /\ Sure(w, threads) /\ w.m.thread <= threads
      /\ Ready(w) /\ LastRunning
  BY DEF TypeOK, Memory, Machine, SingleInv, Sure, ReadyInv
<1>f. ASSUME NEW kind, Fails(w, kind, w') PROVE Sure(w', threads)
  BY <1>0, <1>f, SureResults
<1>1. CASE InterruptReply
  <2>1. threads' = threads BY <1>1 DEF InterruptReply
  <2>2. CASE w'.m = w.m /\ Looks(w', "loop", FALSE, FALSE, w.prompt)
    BY <1>0, <2>1, <2>2 DEF Looks, Sure
  <2>3. CASE Opens(w.incoming, 0, 0, FALSE, 0, FALSE, NoTask)
    BY <1>0, <2>1, <2>3 DEF Opens, Opening, Has, Sure
  <2>4. CASE Looks(w', "loop", FALSE, FALSE, NoTask)
             /\ Has(w'.m, "Idle", 0, 0, FALSE, 0, FALSE, NoTask)
    BY <1>0, <2>1, <2>4 DEF Looks, Has, Sure
  <2>5. CASE Retries(w, w.m.thread, TRUE, w')
    BY <1>0, <2>1, <2>5, SureResults
  <2> QED BY <1>1, <2>2, <2>3, <2>4, <2>5, InterruptMoves
<1>2. CASE ConnectReply
  <2>1. threads' = threads BY <1>2 DEF ConnectReply, server
  <2>2. CASE w'.m = w.m /\ Looks(w', IF w.m.thread = 0 THEN "create" ELSE "resume",
                                 w.started, TRUE, w.prompt)
    BY <1>0, <2>1, <2>2 DEF Looks, Sure
  <2> QED BY <1>2, <1>f, <2>1, <2>2, SessionMoves
<1>3. CASE CreateReply
  <2>1. CASE threads' = threads /\ \E kind \in FailureKinds : Fails(w, kind, w')
    BY <1>f, <2>1
  <2>2. CASE threads' = threads + 1 /\ Session(w, threads + 1, 0, TRUE, w')
    <3> DEFINE n == threads + 1
    <3>1. n \in Nat /\ threads' = n /\ n <= threads' BY <1>0, <2>2
    <3>2. Only(n, 0)
      <4>1. \A i \in OwnRunning : turns[i].thread <= threads
        BY DEF SingleInv, Known, OwnRunning, RunningTurns
      <4>2. ASSUME NEW i \in OwnRunning PROVE turns[i].thread \in Nat
        <5>1. i \in 1..Len(turns) /\ turns \in Seq(Turn)
          BY DEF TypeOK, OwnRunning, RunningTurns
        <5>2. turns[i] \in Turn BY <5>1
        <5> QED BY <5>2 DEF Turn
      <4> QED BY <1>0, <4>1, <4>2 DEF Only
    <3>3. Session(w, n, 0, TRUE, w') BY <2>2
    <3> HIDE DEF n
    <3>4. \E again : Retries(w, n, again, w') \/ Sends(w, n, again, w')
      BY <3>3 DEF Session
    <3>5. n <= n BY <3>1
    <3>6. Sure(w', n) BY <3>1, <3>2, <3>4, <3>5, SureResults
    <3> QED BY <3>1, <3>6
  <2> QED BY <1>3, <2>1, <2>2, SessionMoves
<1>4. CASE ResumeReply
  <2>1. threads' = threads BY <1>4 DEF ResumeReply, server
  <2>2. PICK latest \in 0..Len(turns), reports \in BOOLEAN :
          IsLatestTurn(latest, w.m.thread) /\ Session(w, w.m.thread, latest, reports, w')
    BY <1>4, SessionMoves
  <2> DEFINE thread == w.m.thread
             outcome == turns[latest].outcome
  <2>3. /\ Only(thread, latest)
        /\ latest = 0 \/ outcome # "running" => Only(thread, 0)
    BY <1>0, <2>2, LatestOnly
  <2>4. \/ \E again : Retries(w, thread, again, w')
        \/ Only(thread, 0) /\ \E again : Sends(w, thread, again, w')
        \/ latest # 0 /\ Watches(w, thread, latest, w')
        \/ Only(thread, 0) /\ Concludes(w, thread, outcome, w')
    <3> HIDE DEF thread
    <3>1. Session(w, thread, latest, reports, w') BY <2>2 DEF thread
    <3>2. outcome = "interrupted" => outcome # "running" OBVIOUS
    <3> QED BY <2>3, <3>1, <3>2 DEF Session
  <2>5. CASE \E again : Retries(w, thread, again, w')
    BY <1>0, <2>1, <2>5, SureResults
  <2>6. CASE Only(thread, 0) /\ \E again : Sends(w, thread, again, w')
    BY <1>0, <2>1, <2>6, SureResults
  <2>7. CASE latest # 0 /\ Watches(w, thread, latest, w')
    BY <1>0, <2>1, <2>3, <2>7, SureResults
  <2>8. CASE Only(thread, 0) /\ Concludes(w, thread, outcome, w')
    BY <1>0, <2>1, <2>8, SureResults
  <2> QED BY <2>4, <2>5, <2>6, <2>7, <2>8
<1>5. CASE ResumeFails
  <2>1. threads' = threads BY <1>5 DEF ResumeFails, server
  <2>2. CASE Looks(w', "create", w.started, w.connected, w.prompt)
             /\ Has(w'.m, w.m.phase, 0, 0, FALSE, w.m.client, FALSE, w.m.queued)
    BY <1>0, <2>1, <2>2 DEF Looks, Has, Sure
  <2> QED BY <1>5, <1>f, <2>1, <2>2, SessionMoves
<1>6. CASE Mark
  <2>1. threads' = threads BY <1>6 DEF Mark
  <2>2. CASE /\ Looks(w', "submit", w.started, w.connected, w.prompt)
             /\ Has(w'.m, w.m.phase, w.m.thread, w.m.turn, TRUE, minted + 1,
                    w.m.followUp, w.m.queued)
    BY <1>0, <2>1, <2>2 DEF Looks, Has, Sure
  <2>3. CASE /\ w'.pc = "loop" /\ ~w'.started
             /\ Has(w'.m, "Paused", w.m.thread, w.m.turn, FALSE, minted + 1,
                    w.m.followUp, w.m.queued)
    BY <1>0, <2>1, <2>3 DEF Has, Sure
  <2> QED BY <1>6, <2>2, <2>3, SubmissionMoves
<1>7. CASE SubmitReply
  <2>1. threads' = threads BY <1>7 DEF SubmitReply
  <2>2. w.pc = "submit" /\ wire.turn # 0 /\ Watches(w, w.m.thread, wire.turn, w')
    BY <1>7, SubmissionMoves DEF SubmitReply
  <2>3. Only(w.m.thread, wire.turn)
    BY <2>2 DEF SingleInv, Known
  <2> QED BY <1>0, <2>1, <2>2, <2>3, SureResults
<1>8. CASE SubmitFails
  <2>1. threads' = threads BY <1>8 DEF SubmitFails
  <2> QED BY <1>8, <1>f, <2>1, SubmissionMoves
<1>9. CASE Handover
  <2>1. threads' = threads /\ w.pc = "handover" BY <1>9 DEF Handover, server
  <2>2. CASE Looks(w', "markQueued", w.started, w.connected, w.prompt)
             /\ Has(w'.m, "Sending", w.m.thread, 0, FALSE, w.m.client, w.m.followUp,
                    w.m.queued)
    BY <1>0, <2>1, <2>2 DEF Looks, Has, Sure
  <2>3. CASE ~w.started /\ w'.m = w.m /\ Looks(w', "loop", w.started, w.connected, w.prompt)
    BY <1>0, <2>1, <2>3 DEF Looks, Sure
  <2> QED BY <1>9, <2>2, <2>3, SubmissionMoves
<1> QED BY <1>1, <1>2, <1>3, <1>4, <1>5, <1>6, <1>7, <1>8, <1>9

LEMMA SureEvent ==
  ASSUME TypeOK, ReadyInv, SingleInv,
         OnTurnStarted \/ OnError \/ OnTurnCompleted \/ OnSystemError \/ OnDisconnected
  PROVE  Sure(w', threads')
<1> DEFINE t == Head(events).turn
           again == w.m.followUp \/ w.m.turn # 0
<1>0. /\ w.m.thread \in Nat /\ threads \in Nat /\ Sure(w, threads) /\ w.m.thread <= threads
      /\ threads' = threads /\ w.pc = "loop" /\ w.started /\ w.connected /\ events # << >>
  BY DEF TypeOK, Memory, Machine, SingleInv, Sure, OnTurnStarted, OnError,
         OnTurnCompleted, OnSystemError, OnDisconnected, Hears, Listening, server
<1>1. ASSUME w' = w PROVE Sure(w', threads')
  BY <1>0, <1>1
<1>2. ASSUME t # 0, w.m.turn = t PROVE Only(w.m.thread, t)
  BY <1>0, <1>2 DEF Sure
<1>3. CASE OnTurnStarted
  <2>1. t \in 1..Len(turns)
    BY <1>0, <1>3, HeardEvent DEF OnTurnStarted, Hears
  <2>2. ASSUME StartsOurTurn PROVE w.m.turn = t
    BY <1>0, <2>2 DEF StartsOurTurn, Sure
  <2>3. CASE StartsOurTurn /\ Watches(w, w.m.thread, t, w')
    <3>1. t # 0 /\ Only(w.m.thread, t) BY <1>2, <2>1, <2>2, <2>3
    <3> HIDE DEF t
    <3> QED BY <1>0, <2>3, <3>1, SureResults
  <2> QED BY <1>1, <1>3, <2>3, EventMoves
<1>4. CASE OnError
  <2>1. t \in 1..Len(turns)
    BY <1>0, <1>4, HeardEvent DEF OnError, Hears
  <2>2. CASE /\ MatchesActive
             /\ Looks(w', "loop", w.started, w.connected, w.prompt)
             /\ Has(w'.m, "Waiting", w.m.thread, w.m.turn, w.m.uncertain,
                    w.m.client, w.m.followUp, w.m.queued)
    <3>1. w.m.turn = t /\ t # 0 BY <2>1, <2>2 DEF MatchesActive
    <3>2. Only(w.m.thread, w.m.turn) BY <1>2, <3>1
    <3> HIDE DEF t
    <3> QED BY <1>0, <2>2, <3>1, <3>2 DEF Looks, Has, Sure
  <2>3. CASE Retries(w, w.m.thread, again, w')
    BY <1>0, <2>3, SureResults
  <2>4. CASE Rests(w, "Paused", w.m.thread, w.m.turn, w.m.uncertain,
                   w.m.followUp, w.m.queued, w')
    BY <1>0, <2>4, SureResults
  <2> QED BY <1>1, <1>4, <2>2, <2>3, <2>4, EventMoves
<1>5. CASE OnTurnCompleted
  <2>1. t \in 1..Len(turns) /\ Head(events) = events[1] /\ 1 \in 1..Len(events)
        /\ Head(events).type = "completed"
    BY <1>0, <1>5, HeardEvent DEF OnTurnCompleted, Hears
  <2>2. t \notin OwnRunning
    BY <2>1 DEF SingleInv, EndingsTrue, OwnRunning, RunningTurns
  <2>3. CASE MatchesActive /\ \E outcome : Concludes(w, w.m.thread, outcome, w')
    <3>1. w.m.turn = t /\ t # 0 BY <2>1, <2>3 DEF MatchesActive
    <3>2. Only(w.m.thread, t) BY <1>2, <3>1
    <3> HIDE DEF t
    <3>3. Only(w.m.thread, 0) BY <2>2, <3>2 DEF Only
    <3> QED BY <1>0, <2>3, <3>3, SureResults
  <2> QED BY <1>1, <1>5, <2>3, EventMoves
<1>6. CASE OnSystemError
  <2>1. CASE /\ Looks(w', "loop", w.started, FALSE, w.prompt)
             /\ Has(w'.m, "Backoff", w.m.thread, 0, FALSE, w.m.client,
                    w.m.followUp, w.m.queued)
    BY <1>0, <2>1 DEF Looks, Has, Sure
  <2> QED BY <1>1, <1>6, <2>1, EventMoves
<1>7. CASE OnDisconnected
  <2>1. CASE w'.m = w.m /\ Looks(w', "loop", w.started, FALSE, w.prompt)
    BY <1>0, <2>1 DEF Looks, Sure
  <2>2. CASE Reconnects(w, w')
    BY <1>0, <2>2, SureResults
  <2> QED BY <1>7, <2>1, <2>2, EventMoves
<1> QED BY <1>3, <1>4, <1>5, <1>6, <1>7

LEMMA SureElse ==
  ASSUME TypeOK, SingleInv, HandleDeadline \/ Restart \/ CodexStep \/ MachineStep
  PROVE  Sure(w', threads')
<1>0. /\ w.m.thread \in Nat /\ threads \in Nat /\ Sure(w, threads) /\ w.m.thread <= threads
      /\ disk.state.thread <= threads
  BY DEF TypeOK, Memory, Machine, SingleInv, Sure, Known
<1>1. CASE HandleDeadline
  <2>1. threads' = threads BY <1>1 DEF HandleDeadline, server
  <2>2. CASE Ensures(w, w')
    BY <1>0, <2>1, <2>2, SureResults
  <2>3. CASE w'.m = w.m /\ Looks(w', "expiring", w.started, w.connected, w.prompt)
    BY <1>0, <2>1, <2>3 DEF Looks, Sure
  <2> QED BY <1>1, <2>2, <2>3, TimerMoves
<1>2. CASE Restart
  <2>1. threads' = threads BY <1>2 DEF Restart
  <2>2. ASSUME w'.m.thread \in {0, disk.state.thread}, w'.pc \in {"loop", "connect"},
               ~w'.connected
        PROVE  Sure(w', threads')
    BY <1>0, <2>1, <2>2 DEF Sure
  <2> DEFINE m == disk.state
  <2>3. CASE Looks(w', "loop", FALSE, FALSE, NoTask) /\ w'.m = Fresh
    BY <2>2, <2>3, FreshEffect DEF Looks, Has
  <2>4. CASE /\ Looks(w', "loop", FALSE, FALSE, disk.prompt)
             /\ Has(w'.m, "Paused", m.thread, m.turn, FALSE, m.client, m.followUp, m.queued)
    BY <2>2, <2>4 DEF Looks, Has
  <2>5. CASE /\ Looks(w', "loop", TRUE, FALSE, disk.prompt)
             /\ Has(w'.m, m.phase, m.thread, m.turn,
                    m.uncertain \/ m.phase = "Sending", m.client, m.followUp, m.queued)
    BY <2>2, <2>5 DEF Looks, Has
  <2>6. CASE /\ Looks(w', "connect", TRUE, FALSE, disk.prompt)
             /\ Has(w'.m, "Connecting", m.thread, m.turn,
                    m.uncertain \/ m.phase = "Sending", m.client, m.followUp, m.queued)
    BY <2>2, <2>6 DEF Looks, Has
  <2>7. CASE /\ Looks(w', "loop", FALSE, FALSE, disk.prompt)
             /\ Has(w'.m, m.phase, m.thread, m.turn, m.uncertain, m.client, m.followUp,
                    m.queued)
    BY <2>2, <2>7 DEF Looks, Has
  <2> QED BY <1>2, <2>3, <2>4, <2>5, <2>6, <2>7, RestartMoves
<1>3. CASE CodexStep
  <2>1. w' = w /\ threads' = threads
    BY <1>3 DEF CodexStep, ServerAccepts, TurnEnds, Notices, ThreadBreaks, ForeignTurn, server
  <2> QED BY <1>0, <2>1
<1>4. CASE MachineStep
  <2>1. (w' = w \/ w' = Down) /\ threads' = threads
    BY <1>4 DEF MachineStep, Disconnects, DiskFails, DiskRecovers, Crash, server
  <2>2. CASE w' = Down
    BY <1>0, <2>1, <2>2, DownEffect, FreshEffect DEF Looks, Has, Sure
  <2> QED BY <1>0, <2>1, <2>2
<1> QED BY <1>1, <1>2, <1>3, <1>4

\* Only the marker starts the wait for turn/start's answer, and only a quit or a crash
\* ends the worker.
LEMMA PlacesOnly ==
  ASSUME TypeOK, ReadyInv, Next
  PROVE  w'.pc \in {"submit", "down"} =>
           \/ Mark \/ Shutdown \/ Crash
           \/ w' = w /\ (CodexStep \/ MachineStep)
<1>1. ASSUME NEW kind, Fails(w, kind, w') PROVE w'.pc \notin {"submit", "down"}
  BY <1>1 DEF Fails, Rests, Retries, Reconnects, Looks
<1>2. ASSUME NEW thread, NEW latest, NEW reports, Session(w, thread, latest, reports, w')
      PROVE  w'.pc \notin {"submit", "down"}
  <2>1. \/ \E again : Retries(w, thread, again, w') \/ Sends(w, thread, again, w')
        \/ Watches(w, thread, latest, w')
        \/ \E outcome : Concludes(w, thread, outcome, w')
    BY <1>2 DEF Session
  <2> QED BY <2>1 DEF Retries, Sends, Watches, Concludes, Rests, Looks
<1>3. ASSUME NEW prompt, NEW thread, NEW turn, NEW uncertain, NEW client, NEW followUp,
             NEW queued, Opens(prompt, thread, turn, uncertain, client, followUp, queued)
      PROVE  w'.pc \notin {"submit", "down"}
  BY <1>3 DEF Opens, Opening
<1>4. CASE UserStep
  <2>1. w.pc = "loop"
    BY <1>4 DEF UserStep, StartConfigured, StartNewConfigured, QueueMessage, Configure,
                SaveAgain, Resume, ClearQueued, PauseTask, Stop, Reset, Shutdown, Asks,
                Listening
  <2>2. ASSUME NEW t \in Tasks, StartConfigured(t) \/ StartNewConfigured(t)
        PROVE  w'.pc \notin {"submit", "down"}
    <3>1. CASE Looks(w', "replacing", FALSE, w.connected, w.prompt)
      BY <3>1 DEF Looks
    <3> QED BY <1>3, <2>2, <3>1, SubmitMoves
  <2>3. ASSUME NEW t \in Tasks, QueueMessage(t) PROVE w'.pc \notin {"submit", "down"}
    BY <2>1, <2>3, CommandMoves DEF Looks
  <2>4. CASE Configure \/ SaveAgain BY <2>1, <2>4, CommandMoves
  <2>5. CASE ClearQueued BY <2>1, <2>5, CommandMoves DEF Looks
  <2>6. CASE Resume
    <3>1. CASE Looks(w', "loop", FALSE, w.connected, w.prompt) BY <3>1 DEF Looks
    <3> QED BY <1>3, <2>6, <3>1, CommandMoves
  <2>7. CASE PauseTask \/ Stop BY <2>7, CommandMoves
  <2>8. CASE Reset BY <2>8, CommandMoves DEF Looks
  <2> QED BY <1>4, <2>2, <2>3, <2>4, <2>5, <2>6, <2>7, <2>8 DEF UserStep
<1>5. CASE InterruptReply
  <2>1. CASE Looks(w', "loop", FALSE, FALSE, w.prompt) \/ Looks(w', "loop", FALSE, FALSE, NoTask)
    BY <2>1 DEF Looks
  <2>2. CASE Retries(w, w.m.thread, TRUE, w')
    BY <2>2 DEF Retries, Looks
  <2> QED BY <1>3, <1>5, <2>1, <2>2, InterruptMoves
<1>6. CASE ConnectReply \/ ResumeFails
  <2>1. CASE Looks(w', IF w.m.thread = 0 THEN "create" ELSE "resume", w.started, TRUE, w.prompt)
    BY <2>1 DEF Looks
  <2>2. CASE Looks(w', "create", w.started, w.connected, w.prompt)
    BY <2>2 DEF Looks
  <2> QED BY <1>1, <1>6, <2>1, <2>2, SessionMoves
<1>7. CASE CreateReply \/ ResumeReply
  BY <1>1, <1>2, <1>7, SessionMoves
<1>8. CASE SubmitReply \/ SubmitFails \/ Handover
  <2>1. CASE Watches(w, w.m.thread, wire.turn, w') BY <2>1 DEF Watches, Looks
  <2>2. CASE \/ Looks(w', "markQueued", w.started, w.connected, w.prompt)
             \/ Looks(w', "loop", w.started, w.connected, w.prompt)
    BY <2>2 DEF Looks
  <2> QED BY <1>1, <1>8, <2>1, <2>2, SubmissionMoves
<1>9. CASE OnTurnStarted \/ OnError \/ OnTurnCompleted \/ OnSystemError \/ OnDisconnected
  <2>0. w.pc = "loop"
    BY <1>9 DEF OnTurnStarted, OnError, OnTurnCompleted, OnSystemError, OnDisconnected,
                Hears, Listening
  <2>1. ASSUME NEW a, NEW b, NEW p, Looks(w', "loop", a, b, p)
        PROVE  w'.pc \notin {"submit", "down"}
    BY <2>1 DEF Looks
  <2>2. \A thread, t : Watches(w, thread, t, w') => w'.pc \notin {"submit", "down"}
    BY <2>1 DEF Watches
  <2>3. \A thread, again : Retries(w, thread, again, w') => w'.pc \notin {"submit", "down"}
    BY <2>1 DEF Retries
  <2>4. \A thread, o : Concludes(w, thread, o, w') => w'.pc \notin {"submit", "down"}
    BY DEF Concludes, Retries, Rests, Looks
  <2>5. Reconnects(w, w') => w'.pc \notin {"submit", "down"}
    BY <2>1 DEF Reconnects
  <2>6. CASE OnTurnStarted BY <2>0, <2>2, <2>6, EventMoves
  <2>7. CASE OnError
    <3>1. Rests(w, "Paused", w.m.thread, w.m.turn, w.m.uncertain, w.m.followUp,
                w.m.queued, w') => w'.pc \notin {"submit", "down"}
      BY <2>1 DEF Rests
    <3> QED BY <2>0, <2>1, <2>3, <2>7, <3>1, EventMoves
  <2>8. CASE OnTurnCompleted BY <2>0, <2>4, <2>8, EventMoves
  <2>9. CASE OnSystemError BY <2>0, <2>1, <2>9, EventMoves
  <2>10. CASE OnDisconnected BY <2>1, <2>5, <2>10, EventMoves
  <2> QED BY <1>9, <2>6, <2>7, <2>8, <2>9, <2>10
<1>10. CASE HandleDeadline
  <2>1. CASE Ensures(w, w') BY <2>1 DEF Ensures, Looks
  <2>2. CASE Looks(w', "expiring", w.started, w.connected, w.prompt) BY <2>2 DEF Looks
  <2> QED BY <1>10, <2>1, <2>2, TimerMoves
<1>11. CASE Restart
  <2>1. ASSUME NEW a, NEW p, \/ Looks(w', "loop", a, FALSE, p)
                             \/ Looks(w', "connect", a, FALSE, p)
        PROVE  w'.pc \notin {"submit", "down"}
    BY <2>1 DEF Looks
  <2> QED BY <1>11, <2>1, RestartMoves
<1>12. CASE CodexStep
  BY <1>12 DEF CodexStep, ServerAccepts, TurnEnds, Notices, ThreadBreaks, ForeignTurn
<1>13. CASE MachineStep
  BY <1>13 DEF MachineStep, Disconnects, DiskFails, DiskRecovers
<1> QED BY <1>4, <1>5, <1>6, <1>7, <1>8, <1>9, <1>10, <1>11, <1>12, <1>13 DEF Next, WorkerStep

\* Where an event of the channel comes from: it was there, or a step adds it.
LEMMA ListMoves ==
  ASSUME events \in Seq(Event), NEW ev \in Event,
         \/ events' = events \/ events' = << >> \/ events' = events \o <<ev>>
         \/ events # << >> /\ events' = Tail(events)
  PROVE  \A k \in 1..Len(events') :
           events'[k] = ev \/ \E j \in 1..Len(events) : events'[k] = events[j]
<1>1. CASE events' = events \/ events' = << >>
  BY <1>1
<1>2. CASE events' = events \o <<ev>>
  <2>1. ASSUME NEW k \in 1..Len(events')
        PROVE  events'[k] = ev \/ \E j \in 1..Len(events) : events'[k] = events[j]
    <3>1. Len(events') = Len(events) + 1 /\ Len(events) \in Nat BY <1>2
    <3>2. CASE k = Len(events) + 1 BY <1>2, <3>2
    <3>3. CASE k # Len(events) + 1
      <4>1. k \in 1..Len(events) BY <3>1, <3>3
      <4>2. events'[k] = events[k] BY <1>2, <4>1
      <4> QED BY <4>1, <4>2
    <3> QED BY <3>2, <3>3
  <2> QED BY <2>1
<1>3. CASE events # << >> /\ events' = Tail(events)
  <2>1. ASSUME NEW k \in 1..Len(events')
        PROVE  k + 1 \in 1..Len(events) /\ events'[k] = events[k + 1]
    BY <1>3
  <2> QED BY <2>1
<1> QED BY <1>1, <1>2, <1>3

LEMMA EventsMade ==
  ASSUME TypeOK, Next
  PROVE  \A k \in 1..Len(events') :
           \/ \E j \in 1..Len(events) : events'[k] = events[j]
           \/ /\ events'[k].type \notin {"started", "completed"}
              /\ events'[k].type = "systemError" => "system" \in Faults
           \/ events'[k].type # "systemError" /\ \E o \in Endings : Ended(events'[k].turn, o)
           \/ ServerAccepts /\ events'[k] = [type |-> "started", turn |-> Len(turns) + 1]
<1> DEFINE Made(k) ==
             \/ \E j \in 1..Len(events) : events'[k] = events[j]
             \/ /\ events'[k].type \notin {"started", "completed"}
                /\ events'[k].type = "systemError" => "system" \in Faults
             \/ events'[k].type # "systemError" /\ \E o \in Endings : Ended(events'[k].turn, o)
             \/ ServerAccepts /\ events'[k] = [type |-> "started", turn |-> Len(turns) + 1]
<1>0. events \in Seq(Event) /\ turns \in Seq(Turn) /\ Len(turns) \in Nat
  BY DEF TypeOK
<1>1. ASSUME \/ events' = events \/ events' = << >>
             \/ events # << >> /\ events' = Tail(events)
      PROVE  \A k \in 1..Len(events') : Made(k)
  <2>1. [type |-> "willRetry", turn |-> 0] \in Event BY DEF Event, EventTypes
  <2>2. PICK ev \in Event : ev.type = "willRetry" BY <2>1
  <2> QED BY <1>0, <1>1, <2>2, ListMoves
<1>2. ASSUME NEW ev \in Event, events' = events \/ events' = events \o <<ev>> \/ events' = << >>,
             \/ /\ ev.type \notin {"started", "completed"}
                /\ ev.type = "systemError" => "system" \in Faults
             \/ ev.type # "systemError" /\ \E o \in Endings : Ended(ev.turn, o)
             \/ ServerAccepts /\ ev = [type |-> "started", turn |-> Len(turns) + 1]
      PROVE  \A k \in 1..Len(events') : Made(k)
  BY <1>0, <1>2, ListMoves
<1>3. CASE UserStep
  <2>1. ASSUME NEW t, StartConfigured(t) \/ StartNewConfigured(t) \/ QueueMessage(t)
        PROVE  events' = events \/ events' = << >>
    BY <2>1 DEF StartConfigured, StartNewConfigured, QueueMessage, Becomes
  <2>2. CASE Configure \/ SaveAgain \/ Resume \/ ClearQueued
    BY <1>1, <2>2 DEF Configure, SaveAgain, Resume, ClearQueued, Becomes
  <2>3. CASE PauseTask \/ Stop \/ Reset \/ Shutdown
    BY <1>1, <2>3 DEF PauseTask, Stop, Reset, Shutdown, Becomes
  <2> QED BY <1>1, <1>3, <2>1, <2>2, <2>3 DEF UserStep
<1>4. CASE InterruptReply
  <2> DEFINE t  == w.interrupting
             ev == [type |-> "completed", turn |-> t]
  <2>1. w.pc \in {"pausing", "stopping", "replacing", "resetting", "expiring"}
    BY <1>4 DEF InterruptReply
  <2>2. \/ events' = events \/ events' = << >>
        \/ /\ t \in RunningTurns /\ turns' = [turns EXCEPT ![t].outcome = "interrupted"]
           /\ events' = Append(events, ev)
    BY <1>4, <2>1 DEF InterruptReply, Becomes
  <2>3. CASE /\ t \in RunningTurns /\ turns' = [turns EXCEPT ![t].outcome = "interrupted"]
             /\ events' = Append(events, ev)
    <3>1. ev \in Event BY <1>0, <2>3 DEF Event, EventTypes, RunningTurns
    <3>2. ev.turn = t /\ ev.type # "systemError" OBVIOUS
    <3>3. "interrupted" \in Endings /\ Ended(t, "interrupted") BY <2>3 DEF Ended, Endings
    <3> HIDE DEF ev
    <3>4. events' = events \o <<ev>> BY <1>0, <2>3, <3>1
    <3> HIDE DEF Made
    <3> QED BY <1>2, <3>1, <3>2, <3>3, <3>4
  <2> QED BY <1>1, <2>2, <2>3
<1>5. CASE WorkerStep /\ ~InterruptReply
  <2>1. CASE \/ ConnectReply \/ CreateReply \/ ResumeReply \/ ResumeFails \/ Handover
             \/ HandleDeadline
    BY <1>1, <2>1 DEF ConnectReply, CreateReply, ResumeReply, ResumeFails, Handover,
                      HandleDeadline, Becomes
  <2>2. CASE Mark \/ SubmitReply \/ SubmitFails \/ Restart
    BY <1>1, <2>2 DEF Mark, SubmitReply, SubmitFails, Restart, Becomes
  <2>3. CASE OnTurnStarted \/ OnError \/ OnTurnCompleted \/ OnSystemError \/ OnDisconnected
    <3>1. events # << >> /\ (events' = Tail(events) \/ events' = << >>)
      BY <2>3 DEF OnTurnStarted, OnError, OnTurnCompleted, OnSystemError, OnDisconnected,
                  Hears, Handles, Ignores, Becomes
    <3> QED BY <1>1, <3>1
  <2> QED BY <1>5, <2>1, <2>2, <2>3 DEF WorkerStep
<1>6. CASE ServerAccepts
  <2> DEFINE ev == [type |-> "started", turn |-> Len(turns) + 1]
  <2>1. ev \in Event BY <1>0 DEF Event, EventTypes
  <2>2. events' = events \/ events' = events \o <<ev>>
    BY <1>6 DEF ServerAccepts, Announce
  <2>3. ServerAccepts /\ ev = [type |-> "started", turn |-> Len(turns) + 1]
    BY <1>6
  <2> HIDE DEF ev, Made
  <2> QED BY <1>2, <2>1, <2>2, <2>3
<1>7. CASE TurnEnds
  <2>1. PICK t \in RunningTurns, ending \in Endings :
          /\ turns' = [turns EXCEPT ![t].outcome = ending]
          /\ \/ Announce(IF turns[t].kind = "foreign" THEN << >>
                         ELSE <<[type |-> "completed", turn |-> t]>>)
             \/ UNCHANGED events
    BY <1>7 DEF TurnEnds
  <2> DEFINE ev == [type |-> "completed", turn |-> t]
  <2>2. ev \in Event BY <1>0 DEF Event, EventTypes, RunningTurns
  <2>3. ev.turn = t /\ ev.type # "systemError" OBVIOUS
  <2>4. Ended(t, ending) BY <2>1 DEF Ended
  <2>5. events' = events \/ events' = events \o <<ev>>
    <3>1. events' \in {events, events \o << >>, events \o <<ev>>}
      BY <2>1 DEF Announce
    <3> QED BY <1>0, <3>1
  <2> HIDE DEF ev, Made
  <2> QED BY <1>2, <2>2, <2>3, <2>4, <2>5
<1>8. ASSUME NEW t \in RunningTurns \cup {0}, NEW type \in EventTypes \ {"started", "completed"},
             type = "systemError" => "system" \in Faults,
             Announce(<<[type |-> type, turn |-> t]>>)
      PROVE  \A k \in 1..Len(events') : Made(k)
  <2> DEFINE ev == [type |-> type, turn |-> t]
  <2>1. ev \in Event BY <1>0 DEF Event, EventTypes, RunningTurns
  <2>2. /\ ev.type \notin {"started", "completed"}
        /\ ev.type = "systemError" => "system" \in Faults
    BY <1>8
  <2>3. events' = events \/ events' = events \o <<ev>> BY <1>8 DEF Announce
  <2> HIDE DEF ev, Made
  <2> QED BY <1>2, <2>1, <2>2, <2>3
<1>9. CASE Notices
  BY <1>8, <1>9 DEF Notices, OwnRunning, EventTypes
<1>10. CASE ThreadBreaks
  BY <1>8, <1>10 DEF ThreadBreaks, Fault, OwnRunning, EventTypes
<1>11. CASE Disconnects
  BY <1>8, <1>11 DEF Disconnects, EventTypes
<1>12. CASE ForeignTurn \/ DiskFails \/ DiskRecovers \/ Crash
  BY <1>1, <1>12 DEF ForeignTurn, DiskFails, DiskRecovers, Crash
<1> QED BY <1>3, <1>4, <1>5, <1>6, <1>7, <1>9, <1>10, <1>11, <1>12
        DEF Next, WorkerStep, CodexStep, MachineStep

\* A step that adds no turn of the worker's leaves those that run alone in their threads.
LEMMA OnlyKept ==
  ASSUME TypeOK, Next, ~ServerAccepts
  PROVE  /\ OwnRunning' \subseteq OwnRunning
         /\ \A i \in OwnRunning' : turns'[i].thread = turns[i].thread
         /\ \A thread, t : Only(thread, t) => Only(thread, t)'
<1>0. \A i \in OwnRunning : i \in 1..Len(turns) BY DEF OwnRunning, RunningTurns
<1>1. /\ OwnRunning' \subseteq OwnRunning
      /\ \A i \in OwnRunning' : turns'[i].thread = turns[i].thread
  <2>1. CASE turns' = turns
    BY <2>1 DEF OwnRunning, RunningTurns
  <2>2. CASE \E t \in RunningTurns, o \in Endings : Ended(t, o)
    <3>1. PICK t \in RunningTurns, o \in Endings : Ended(t, o) BY <2>2
    <3> QED BY <1>0, <3>1, EndedMoves
  <2>3. CASE ForeignTurn
    <3> DEFINE u == [thread |-> w.m.thread, client |-> 0, task |-> NoTask,
                     kind |-> "foreign", outcome |-> "running"]
    <3>1. u \in Turn
      BY DEF TypeOK, Memory, Machine, Turn, Outcomes, Prompts
    <3>2. turns' = Append(turns, u) BY <2>3 DEF ForeignTurn
    <3>3. u.outcome = "running" /\ u.kind = "foreign" OBVIOUS
    <3> HIDE DEF u
    <3> QED BY <1>0, <3>1, <3>2, <3>3, AddedMoves
  <2> QED BY <2>1, <2>2, <2>3, TurnMoves
<1> QED BY <1>1 DEF Only

\* The turn that a request becomes is alone in its thread when the request was.
LEMMA AcceptedMoves ==
  ASSUME TypeOK, ServerAccepts
  PROVE  LET n == Len(turns) + 1
         IN /\ Len(turns') = n /\ Len(turns) \in Nat
            /\ turns'[n].thread = wire.thread /\ turns'[n].client = wire.client
            /\ turns'[n].task = wire.task /\ turns'[n].kind = wire.kind
            /\ turns'[n].outcome = "running"
            /\ \A i \in 1..Len(turns) : turns'[i] = turns[i]
            /\ OwnRunning' = OwnRunning \cup {n}
            /\ wire'.thread = wire.thread /\ wire'.client = wire.client
            /\ wire'.task = wire.task /\ wire'.kind = wire.kind /\ wire'.turn = n
<1> DEFINE u == [thread |-> wire.thread, client |-> wire.client, task |-> wire.task,
                 kind |-> wire.kind, outcome |-> "running"]
<1>0. wire \in Request /\ Len(turns) \in Nat BY DEF TypeOK
<1>1. u \in Turn
  BY <1>0 DEF Request, Turn, Outcomes
<1>2. turns' = Append(turns, u) /\ wire' = [wire EXCEPT !.turn = Len(turns) + 1]
  BY DEF ServerAccepts
<1>3. /\ u.outcome = "running" /\ u.kind # "foreign" /\ u.thread = wire.thread
      /\ u.client = wire.client /\ u.task = wire.task /\ u.kind = wire.kind
  BY <1>0 DEF Request
<1> HIDE DEF u
<1>4. /\ wire'.thread = wire.thread /\ wire'.client = wire.client
      /\ wire'.task = wire.task /\ wire'.kind = wire.kind /\ wire'.turn = Len(turns) + 1
  BY <1>0, <1>2 DEF Request
<1> QED BY <1>1, <1>2, <1>3, <1>4, AddedMoves

\* A turn keeps its outcome once it has one, and its thread.
LEMMA TurnsKept ==
  ASSUME TypeOK, Next
  PROVE  /\ Len(turns') \in Nat /\ Len(turns) \in Nat /\ Len(turns') >= Len(turns)
         /\ \A i \in 1..Len(turns) :
              /\ turns'[i].thread = turns[i].thread /\ turns'[i].client = turns[i].client
              /\ turns'[i].task = turns[i].task /\ turns'[i].kind = turns[i].kind
              /\ turns[i].outcome # "running" => turns'[i].outcome = turns[i].outcome
         /\ \A i \in 1..Len(turns') : i \in 1..Len(turns) \/ i = Len(turns) + 1
<1>0. Len(turns) \in Nat BY DEF TypeOK
<1>1. CASE turns' = turns
  BY <1>0, <1>1
<1>2. CASE \E t \in RunningTurns, o \in Endings : Ended(t, o)
  <2>1. PICK t \in RunningTurns, o \in Endings : Ended(t, o) BY <1>2
  <2>2. turns[t].outcome = "running" BY DEF RunningTurns
  <2> QED BY <1>0, <2>1, <2>2, EndedMoves
<1>3. CASE ServerAccepts
  BY <1>0, <1>3, AcceptedMoves
<1>4. CASE ForeignTurn
  <2> DEFINE u == [thread |-> w.m.thread, client |-> 0, task |-> NoTask,
                   kind |-> "foreign", outcome |-> "running"]
  <2>1. u \in Turn
    BY DEF TypeOK, Memory, Machine, Turn, Outcomes, Prompts
  <2>2. turns' = Append(turns, u) BY <1>4 DEF ForeignTurn
  <2>3. u.outcome = "running" OBVIOUS
  <2> HIDE DEF u
  <2> QED BY <1>0, <2>1, <2>2, <2>3, AddedMoves
<1> QED BY <1>1, <1>2, <1>3, <1>4, TurnMoves

\* What an event says of a turn's end stays true.
LEMMA EndingsStep ==
  ASSUME TypeOK, Placed, EndingsTrue, Next
  PROVE  EndingsTrue'
<1>1. ASSUME NEW k \in 1..Len(events'), events'[k].type = "completed"
      PROVE  turns'[events'[k].turn].outcome # "running"
  <2>1. CASE \E j \in 1..Len(events) : events'[k] = events[j]
    <3>1. PICK j \in 1..Len(events) : events'[k] = events[j] BY <2>1
    <3>2. events[j].turn \in 1..Len(turns) BY <1>1, <3>1 DEF Placed
    <3>3. turns[events[j].turn].outcome # "running"
      BY <1>1, <3>1 DEF EndingsTrue
    <3> QED BY <3>1, <3>2, <3>3, TurnsKept
  <2>2. CASE \E o \in Endings : Ended(events'[k].turn, o)
    <3>1. PICK o \in Endings : Ended(events'[k].turn, o) BY <2>2
    <3>2. events'[k].turn \in RunningTurns BY <3>1 DEF Ended
    <3>3. turns'[events'[k].turn].outcome = o BY <3>1, <3>2, EndedMoves
    <3> QED BY <3>3 DEF Endings
  <2> QED BY <1>1, <2>1, <2>2, EventsMade
<1> QED BY <1>1 DEF EndingsTrue

\* Ids and threads are only ever added.
LEMMA Counters ==
  ASSUME Next
  PROVE  threads' \in {threads, threads + 1} /\ minted' \in {minted, minted + 1}
<1>1. CASE UserStep
  BY <1>1 DEF UserStep, StartConfigured, StartNewConfigured, QueueMessage, Configure,
              SaveAgain, Resume, ClearQueued, PauseTask, Stop, Reset, Shutdown, server
<1>2. CASE WorkerStep
  BY <1>2 DEF WorkerStep, InterruptReply, ConnectReply, CreateReply, ResumeReply,
              ResumeFails, Mark, SubmitReply, SubmitFails, Handover, OnTurnStarted,
              OnError, OnTurnCompleted, OnSystemError, OnDisconnected, HandleDeadline,
              Restart, server
<1>3. CASE CodexStep \/ MachineStep
  BY <1>3 DEF CodexStep, ServerAccepts, TurnEnds, Notices, ThreadBreaks, ForeignTurn,
              MachineStep, Disconnects, DiskFails, DiskRecovers, Crash, server
<1> QED BY <1>1, <1>2, <1>3 DEF Next

\* What becomes of the request on the wire.
LEMMA WireMoves ==
  ASSUME TypeOK, ReadyInv, Next, ~ServerAccepts
  PROVE  /\ Mark \/ wire' = NoRequest \/ wire' = wire
         /\ ~Mark => (w'.pc = "submit" => wire' = wire /\ w' = w)
<1>1. Mark \/ wire' = NoRequest \/ wire' = wire
  <2>1. CASE UserStep
    BY <2>1 DEF UserStep, StartConfigured, StartNewConfigured, QueueMessage, Configure,
                SaveAgain, Resume, ClearQueued, PauseTask, Stop, Reset, Shutdown, server
  <2>2. CASE WorkerStep
    BY <2>2 DEF WorkerStep, InterruptReply, ConnectReply, CreateReply, ResumeReply,
                ResumeFails, SubmitReply, SubmitFails, Handover, OnTurnStarted,
                OnError, OnTurnCompleted, OnSystemError, OnDisconnected,
                HandleDeadline, Restart, server
  <2>3. CASE CodexStep \/ MachineStep
    BY <2>3 DEF CodexStep, TurnEnds, Notices, ThreadBreaks, ForeignTurn,
                MachineStep, Disconnects, DiskFails, DiskRecovers, Crash, server
  <2> QED BY <2>1, <2>2, <2>3 DEF Next
<1>2. CodexStep \/ MachineStep => wire' = wire
  BY DEF CodexStep, TurnEnds, Notices, ThreadBreaks, ForeignTurn, MachineStep,
         Disconnects, DiskFails, DiskRecovers, Crash, server
<1>3. Shutdown \/ Crash => w'.pc # "submit"
  BY CommandMoves, DownEffect DEF Crash, Looks
<1> QED BY <1>1, <1>2, <1>3, PlacesOnly

LEMMA SingleStep ==
  ASSUME "unread" \notin Faults, TypeOK, ReadyInv, WriteAheadInv, SingleInv, Next
  PROVE  SingleInv'
<1>0. /\ w.m.thread \in Nat /\ threads \in Nat /\ Sure(w, threads) /\ w.m.thread <= threads
      /\ LastRunning /\ EndingsTrue /\ Known /\ Placed /\ wire \in Request
      /\ wire.thread \in Nat /\ turns \in Seq(Turn) /\ Len(turns) \in Nat
  BY DEF TypeOK, Memory, Machine, SingleInv, Sure, ReadyInv, Request
<1>1. Sure(w', threads')
  BY SureUser, SureRequest, SureEvent, SureElse DEF Next, WorkerStep
<1>2. threads' \in {threads, threads + 1} BY Counters
<1>3. EndingsTrue'
  BY <1>0, EndingsStep
<1>4. \A i \in 1..Len(turns') : turns'[i].thread <= threads'
  <2>1. ASSUME NEW i \in 1..Len(turns') PROVE turns'[i].thread <= threads
    <3>1. CASE i \in 1..Len(turns)
      BY <1>0, <3>1, TurnsKept DEF Known
    <3>2. CASE i \notin 1..Len(turns)
      <4>1. i = Len(turns) + 1 /\ turns' # turns BY <3>2, TurnsKept
      <4>2. ~\E t \in RunningTurns, o \in Endings : Ended(t, o)
        BY <3>2, EndedMoves
      <4>3. CASE ServerAccepts
        BY <1>0, <4>1, <4>3, AcceptedMoves DEF Known
      <4>4. CASE ForeignTurn
        BY <1>0, <4>1, <4>4 DEF ForeignTurn
      <4> QED BY <4>1, <4>2, <4>3, <4>4, TurnMoves
    <3> QED BY <3>1, <3>2
  <2>2. ASSUME NEW i \in 1..Len(turns') PROVE turns'[i].thread \in Nat
    <3>1. turns'[i] \in Turn BY TypeStep, TurnsKept DEF TypeOK
    <3> QED BY <3>1 DEF Turn
  <2> QED BY <1>0, <1>2, <2>1, <2>2
<1>5. CASE ServerAccepts
  <2> DEFINE n == Len(turns) + 1
  <2>1. Only(wire.thread, 0) /\ w.pc \in {"submit", "down"}
    BY <1>5, <1>0 DEF Known, ServerAccepts, WriteAheadInv
  <2>2. \A i \in OwnRunning : i \in 1..Len(turns) /\ turns[i].thread # wire.thread
    BY <1>0, <2>1 DEF Only, OwnRunning, RunningTurns
  <2>3. w' = w /\ threads' = threads /\ disk' = disk
    BY <1>5 DEF ServerAccepts
  <2>4. /\ Len(turns') = n /\ turns'[n].thread = wire.thread
        /\ \A i \in 1..Len(turns) : turns'[i] = turns[i]
        /\ OwnRunning' = OwnRunning \cup {n}
        /\ wire'.thread = wire.thread /\ wire'.turn = n
    BY <1>5, AcceptedMoves
  <2>5. Sure(w, threads)'
    BY <1>0, <2>1, <2>3 DEF Sure
  <2>6. LastRunning'
    <3>1. ASSUME NEW i \in OwnRunning', NEW j \in 1..Len(turns'), j > i
          PROVE  turns'[j].thread # turns'[i].thread
      <4>1. i \in OwnRunning /\ turns'[i] = turns[i] /\ i \in 1..Len(turns)
        BY <1>0, <2>2, <2>4, <3>1
      <4>2. CASE j = n BY <2>2, <2>4, <4>1, <4>2
      <4>3. CASE j # n
        <5>1. j \in 1..Len(turns) /\ turns'[j] = turns[j] BY <1>0, <2>4, <4>3
        <5> QED BY <1>0, <3>1, <4>1, <5>1 DEF LastRunning
      <4> QED BY <4>2, <4>3
    <3> QED BY <3>1 DEF LastRunning
  <2>7. Only(wire.thread, wire.turn)'
    <3>1. \A i \in OwnRunning' : i = n \/ turns'[i].thread # wire.thread
      BY <2>2, <2>4
    <3> QED BY <2>4, <3>1 DEF Only
  <2>8. Known'
    BY <1>0, <1>4, <2>3, <2>4, <2>7 DEF Known
  <2> QED BY <1>3, <2>5, <2>6, <2>8 DEF SingleInv
<1>6. CASE ~ServerAccepts
  <2>1. /\ OwnRunning' \subseteq OwnRunning
        /\ \A i \in OwnRunning' : turns'[i].thread = turns[i].thread
        /\ \A thread, t : Only(thread, t) => Only(thread, t)'
    BY <1>6, OnlyKept
  <2>2. Sure(w, threads)'
    BY <1>1, <2>1 DEF Sure
  <2>3. LastRunning'
    <3>1. ASSUME NEW i \in OwnRunning', NEW j \in 1..Len(turns'), j > i
          PROVE  turns'[j].thread # turns'[i].thread
      <4>1. i \in OwnRunning /\ turns'[i].thread = turns[i].thread BY <2>1
      <4>2. CASE j \in 1..Len(turns)
        <5>1. turns[j].thread # turns[i].thread BY <1>0, <3>1, <4>1, <4>2 DEF LastRunning
        <5> QED BY <4>1, <4>2, <5>1, TurnsKept
      <4>3. CASE j \notin 1..Len(turns)
        <5>1. turns' # turns BY <4>3
        <5>2. ~\E t \in RunningTurns, o \in Endings : Ended(t, o)
          BY <4>3, EndedMoves
        <5>3. ForeignTurn BY <1>6, <5>1, <5>2, TurnMoves
        <5>4. turns[i].thread # w.m.thread
          BY <4>1, <5>3 DEF ForeignTurn, OwnRunning
        <5>5. turns'[j].thread = w.m.thread
          <6>1. j = Len(turns) + 1 BY <4>3, TurnsKept
          <6> QED BY <1>0, <5>3, <6>1 DEF ForeignTurn
        <5> QED BY <4>1, <5>4, <5>5
      <4> QED BY <4>2, <4>3
    <3> QED BY <3>1 DEF LastRunning
  <2>4. disk'.state.thread <= threads'
    <3>1. disk'.state \in {disk.state, w'.m} BY DiskMoves
    <3>2. disk.state.thread <= threads' BY <1>0, <1>2 DEF Known, TypeOK, Disk, Machine
    <3> QED BY <1>1, <3>1, <3>2 DEF Sure
  <2>5. /\ wire'.thread <= threads' /\ (w'.pc = "submit" => wire'.thread = w'.m.thread)
        /\ Only(wire.thread, wire.turn)'
    <3>1. CASE Mark
      <4>1. Only(w.m.thread, 0) /\ threads' = threads
        BY <1>0, <3>1 DEF Mark, Sure
      <4>2. CASE /\ wire'.thread = w.m.thread /\ wire'.turn = 0
                 /\ w'.m.thread = w.m.thread
        BY <1>0, <2>1, <4>1, <4>2
      <4>3. CASE wire' = wire /\ w'.pc = "loop"
        BY <1>0, <2>1, <4>1, <4>3 DEF Known
      <4> QED BY <3>1, <4>2, <4>3, SubmissionMoves DEF Has
    <3>2. ASSUME ~Mark PROVE w'.pc = "submit" => wire' = wire /\ w' = w
      BY <1>0, <1>6, <3>2, WireMoves
    <3>3. CASE wire' = NoRequest /\ ~Mark
      <4>1. wire'.thread = 0 /\ wire'.turn = 0 BY <3>3 DEF NoRequest
      <4>2. Only(0, 0)
        BY <1>0 DEF Placed, Only, OwnRunning, RunningTurns
      <4>3. w'.pc = "submit" => wire'.thread = w'.m.thread
        BY <1>0, <3>2, <3>3 DEF Known
      <4> QED BY <1>0, <1>2, <2>1, <4>1, <4>2, <4>3
    <3>4. CASE wire' = wire /\ ~Mark
      <4>1. w'.pc = "submit" => wire'.thread = w'.m.thread
        BY <1>0, <3>2, <3>4 DEF Known
      <4> QED BY <1>0, <1>2, <2>1, <3>4, <4>1 DEF Known
    <3>5. Mark \/ wire' = NoRequest \/ wire' = wire BY <1>6, WireMoves
    <3> QED BY <3>1, <3>3, <3>4, <3>5
  <2>6. Known'
    BY <1>4, <2>4, <2>5 DEF Known
  <2> QED BY <1>3, <2>2, <2>3, <2>6 DEF SingleInv
<1> QED BY <1>5, <1>6

LEMMA InitSingle == Init => SingleInv
<1>1. Init => OwnRunning = {}
  BY DEF Init, OwnRunning, RunningTurns
<1>2. Has(Fresh, "Idle", 0, 0, FALSE, 0, FALSE, NoTask) BY FreshEffect
<1> QED BY <1>1, <1>2 DEF Init, SingleInv, Sure, LastRunning, EndingsTrue, Known, Only,
                          Offline, NoRequest, Has

\* Codex never works on two of the worker's turns in one conversation, for every set of
\* tasks, every command and every fault but an unreadable history: send_attempt comes
\* after a restored session whose latest turn has ended, a new thread, or the end of the
\* active turn.
THEOREM AtMostOneCorrect ==
  ASSUME "unread" \notin Faults
  PROVE  Spec => []AtMostOneInFlight
<1>1. TypeOK /\ SingleInv => AtMostOneInFlight
  <2> SUFFICES ASSUME TypeOK, SingleInv, NEW i \in OwnRunning, NEW j \in OwnRunning,
                      turns[i].thread = turns[j].thread
               PROVE  i = j
    BY DEF AtMostOneInFlight
  <2>1. i \in 1..Len(turns) /\ j \in 1..Len(turns) /\ Len(turns) \in Nat
    BY DEF OwnRunning, RunningTurns, TypeOK
  <2>2. ~(j > i) /\ ~(i > j) BY <2>1 DEF SingleInv, LastRunning
  <2> QED BY <2>1, <2>2
<1>2. TypeOK /\ ReadyInv /\ WriteAheadInv /\ SingleInv /\ [Next]_vars => SingleInv'
  <2> SUFFICES ASSUME TypeOK, ReadyInv, WriteAheadInv, SingleInv, UNCHANGED vars
               PROVE  SingleInv'
    BY SingleStep
  <2> QED BY DEF vars, SingleInv, Sure, LastRunning, EndingsTrue, Known, Only, OwnRunning,
                 RunningTurns
<1>3. Init => WriteAheadInv
  BY DEF Init, WriteAheadInv, WriteAhead, NoRequest
<1> QED BY <1>1, <1>2, <1>3, InitSingle, InitReady, ReadyStep, WriteAheadStep, TypeCorrect,
           PTL DEF Spec

-----------------------------------------------------------------------------
\* An answer is reported for the task it was asked for.

\* Turn i is the latest of its thread.
LatestIn(thread, i) == i \in 1..Len(turns) /\ IsLatestTurn(i, thread)

\* The latest turn of the thread, if there is one, has ended.
Quiet(thread) ==
  \A i \in 1..Len(turns) : LatestIn(thread, i) => turns[i].outcome # "running"

\* What the worker knows of its thread belongs to task p: the active turn, the turn
\* Codex is working on, and the turns that carry the id of its last submission.
Serves(p, thread, turn, client) ==
  /\ turn # 0 => LatestIn(thread, turn) /\ turns[turn].task = p
  /\ \A i \in 1..Len(turns) :
       LatestIn(thread, i) /\ turns[i].outcome = "running" => turns[i].task = p
  /\ client # 0 =>
       \A i \in 1..Len(turns) : turns[i].client = client => turns[i].task = p

\* The awaits that only a started task reaches.
Underway == Opening \cup {"mark", "markQueued", "submit", "handover", "expiring"}

\* Where the worker may be: a submission that is owed an outcome has an id to tell its
\* turn by, and a worker that takes a new text has an idle thread and no such id.
Stage(s) ==
  /\ /\ s.pc \notin {"mark", "markQueued"} /\ s.m.turn = 0
     /\ s.m.uncertain \/ s.m.phase \in {"Sending", "Waiting"}
     => s.m.client # 0
  /\ s.pc = "loop" /\ ~s.started /\ s.m.phase \notin {"Paused", "FatalError"} =>
       Quiet(s.m.thread) /\ (s.m.phase # "Success" => s.m.client = 0)
  /\ /\ s.pc = "loop" /\ s.started /\ s.connected
     /\ s.m.phase \in {"Sending", "Waiting"}
     => s.m.turn # 0
  /\ s.pc \in Underway => s.started
  /\ s.pc \in Opening => s.m.phase \notin {"Sending", "Waiting"}
  /\ s.pc = "create" => s.m.thread = 0
  /\ s.pc = "handover" => Quiet(s.m.thread)
  /\ s.pc = "pausing" => s.m.phase = "Paused"
  /\ s.pc # "stopping"

\* Memory s, when k ids were generated and Codex has created n threads.
Own(s, k, n) ==
  /\ s.m.client <= k /\ s.m.thread <= n
  /\ Serves(s.prompt, s.m.thread, s.m.turn, s.m.client)
  /\ Stage(s)

\* The request on the wire is the worker's, and so is the turn it became.
Wired ==
  /\ wire.client # 0 => w.pc = "submit"
  /\ w.pc = "submit" => /\ wire.client = w.m.client /\ wire.task = w.prompt
                        /\ wire.thread = w.m.thread
  /\ wire.turn # 0 => /\ wire.client # 0 /\ LatestIn(wire.thread, wire.turn)
                      /\ turns[wire.turn].task = wire.task

Counted ==
  /\ \A i \in 1..Len(turns) : turns[i].thread <= threads /\ turns[i].client <= minted
  /\ diskOk /\ (w.pc = "down" => disk.state = Fresh)

ReportedTrue ==
  \A r \in reported : r.turn \in 1..Len(turns) /\ turns[r.turn].task = r.task

AnswerInv == Own(w, minted, threads) /\ EndingsTrue /\ Wired /\ Counted /\ ReportedTrue

LEMMA ServesLess ==
  ASSUME NEW p, NEW thread
  PROVE  /\ \A turn, client : Serves(p, thread, turn, client) =>
              Serves(p, thread, 0, client) /\ Serves(p, thread, 0, 0)
         /\ Quiet(thread) => Serves(p, thread, 0, 0)
         /\ (\A i \in 1..Len(turns) : turns[i].thread # thread) =>
              /\ Quiet(thread) /\ Serves(p, thread, 0, 0)
              /\ \A other, client : Serves(p, other, 0, client) =>
                   Serves(p, thread, 0, client)
<1>1. ASSUME NEW i \in 1..Len(turns), LatestIn(thread, i) PROVE turns[i].thread = thread
  BY <1>1 DEF LatestIn, IsLatestTurn
<1>2. Quiet(thread) => Serves(p, thread, 0, 0)
  BY DEF Quiet, Serves
<1> QED BY <1>1, <1>2 DEF Quiet, Serves

\* A thread has one latest turn.
LEMMA LatestUnique ==
  ASSUME TypeOK, NEW thread, NEW i \in Nat, NEW j \in Nat, i # 0,
         LatestIn(thread, i), LatestIn(thread, j)
  PROVE  i = j
<1>1. Len(turns) \in Nat /\ i \in 1..Len(turns) /\ j \in 1..Len(turns)
  BY DEF TypeOK, LatestIn
<1>2. turns[i].thread = thread /\ turns[j].thread = thread
  BY <1>1 DEF LatestIn, IsLatestTurn
<1>3. ~(i < j) /\ ~(j < i)
  BY <1>1, <1>2 DEF LatestIn, IsLatestTurn
<1> QED BY <1>1, <1>3

\* The results of a pure step, for a task that is under way.
LEMMA OwnResults ==
  ASSUME TypeOK, NEW r, NEW k \in Nat, NEW n \in Nat, NEW thread \in Nat, thread <= n,
         Own(w, k, n), w.started, w.pc \notin {"mark", "markQueued"},
         Serves(w.prompt, thread, 0, w.m.client)
  PROVE  /\ \A again : Retries(w, thread, again, r) => Own(r, k, n)
         /\ \A again : Sends(w, thread, again, r) => Own(r, k, n)
         /\ Reconnects(w, r) => Own(r, k, n)
         /\ \A phase \in {"Paused", "FatalError"} : \A uncertain, followUp, queued :
              (uncertain => w.m.uncertain) /\
              Rests(w, phase, w.m.thread, w.m.turn, uncertain, followUp, queued, r)
              => Own(r, k, n)
         /\ \A t : /\ LatestIn(thread, t) /\ turns[t].task = w.prompt
                   /\ Watches(w, thread, t, r)
                   => Own(r, k, n)
<1>1. ASSUME NEW again, Retries(w, thread, again, r) PROVE Own(r, k, n)
  BY <1>1 DEF Retries, Looks, Has, Own, Stage, Underway, Opening
<1>2. ASSUME NEW again, Sends(w, thread, again, r) PROVE Own(r, k, n)
  BY <1>2 DEF Sends, Looks, Has, Own, Stage, Underway, Opening
<1>3. ASSUME Reconnects(w, r) PROVE Own(r, k, n)
  BY <1>3 DEF Reconnects, Looks, Has, Own, Stage, Underway, Opening
<1>4. ASSUME NEW phase \in {"Paused", "FatalError"}, NEW uncertain, NEW followUp, NEW queued,
             uncertain => w.m.uncertain,
             Rests(w, phase, w.m.thread, w.m.turn, uncertain, followUp, queued, r)
      PROVE  Own(r, k, n)
  BY <1>4 DEF Rests, Looks, Has, Own, Stage, Underway, Opening
<1>5. ASSUME NEW t, LatestIn(thread, t), turns[t].task = w.prompt, Watches(w, thread, t, r)
      PROVE  Own(r, k, n)
  <2>1. t # 0 BY <1>5 DEF LatestIn, TypeOK
  <2>2. Serves(w.prompt, thread, t, w.m.client) BY <1>5 DEF Serves
  <2> QED BY <1>5, <2>1, <2>2 DEF Watches, Looks, Has, Own, Stage, Underway, Opening
<1> QED BY <1>1, <1>2, <1>3, <1>4, <1>5

LEMMA OwnEnds ==
  ASSUME TypeOK, NEW r, NEW k \in Nat, NEW n \in Nat, Own(w, k, n), w.started,
         w.pc \notin {"mark", "markQueued"}
  PROVE  /\ \A kind : Fails(w, kind, r) => Own(r, k, n)
         /\ \A outcome : /\ outcome = "answer" => Quiet(w.m.thread)
                         /\ Concludes(w, w.m.thread, outcome, r)
                         => Own(r, k, n)
<1>0. /\ w.m.thread \in Nat /\ w.m.thread <= n
      /\ Serves(w.prompt, w.m.thread, 0, w.m.client)
  BY ServesLess DEF TypeOK, Memory, Machine, Own
<1>1. ASSUME NEW kind, Fails(w, kind, r) PROVE Own(r, k, n)
  BY <1>0, <1>1, OwnResults DEF Fails
<1>2. ASSUME NEW outcome, outcome = "answer" => Quiet(w.m.thread),
             Concludes(w, w.m.thread, outcome, r)
      PROVE  Own(r, k, n)
  <2>1. CASE /\ outcome = "answer"
             /\ Looks(r, "handover", TRUE, w.connected, w.m.queued)
             /\ Has(r.m, "Idle", w.m.thread, 0, FALSE, 0, FALSE, NoTask)
    <3>1. Quiet(w.m.thread) /\ Serves(w.m.queued, w.m.thread, 0, 0)
      BY <1>2, <2>1, ServesLess
    <3> QED BY <1>0, <2>1, <3>1 DEF Looks, Has, Own, Stage, Underway, Opening
  <2>2. CASE /\ outcome = "answer"
             /\ Rests(w, "Success", w.m.thread, 0, FALSE, FALSE, NoTask, r)
    <3>1. Quiet(w.m.thread) BY <1>2, <2>2
    <3> QED BY <1>0, <2>2, <3>1 DEF Rests, Looks, Has, Own, Stage, Underway, Opening
  <2>3. CASE Rests(w, "Paused", w.m.thread, w.m.turn, FALSE, w.m.followUp, w.m.queued, r)
    BY <1>0, <2>3, OwnResults
  <2>4. CASE Retries(w, w.m.thread, w.m.followUp \/ w.m.turn # 0, r)
    BY <1>0, <2>4, OwnResults
  <2> QED BY <1>2, <2>1, <2>2, <2>3, <2>4 DEF Concludes
<1> QED BY <1>1, <1>2


\* The user's commands, from the window.
LEMMA OwnUser ==
  ASSUME {"unoffered", "stop"} \cap Commands = {}, TypeOK, ReadyInv, AnswerInv, UserStep
  PROVE  Own(w', minted, threads)
<1>0. /\ w.m.thread \in Nat /\ threads \in Nat /\ minted \in Nat /\ w.m.client \in Nat
      /\ Own(w, minted, threads) /\ w.m.client <= minted /\ w.m.thread <= threads
      /\ w.pc = "loop"
  BY DEF TypeOK, Memory, Machine, AnswerInv, Own, UserStep, StartConfigured,
         StartNewConfigured, QueueMessage, Configure, SaveAgain, Resume, ClearQueued,
         PauseTask, Stop, Reset, Shutdown, Asks, Listening
<1>1. /\ Quiet(0) /\ \A p : Serves(p, 0, 0, 0)
      /\ \A p : Quiet(w.m.thread) => Serves(p, w.m.thread, 0, 0)
  <2>1. \A i \in 1..Len(turns) : turns[i].thread # 0 BY DEF ReadyInv, Placed
  <2> QED BY <2>1, ServesLess
<1>2. ASSUME NEW prompt, NEW thread \in {0, w.m.thread}, NEW turn, NEW uncertain,
             NEW client \in {0, w.m.client}, NEW followUp, NEW queued,
             Serves(prompt, thread, turn, client),
             turn = 0 /\ uncertain => client # 0,
             Opens(prompt, thread, turn, uncertain, client, followUp, queued)
      PROVE  Own(w', minted, threads)
  BY <1>0, <1>2 DEF Opens, Opening, Has, Own, Stage, Underway
<1>3. ASSUME NEW t \in Tasks, StartConfigured(t) PROVE Own(w', minted, threads)
  <2> DEFINE client == IF w.m.phase \in {"Success", "Paused", "FatalError"}
                       THEN 0 ELSE w.m.client
  <2>1. ~w.started /\ w.m.phase \notin {"Paused", "FatalError"}
    BY <1>3 DEF StartConfigured, TaskLocked, Offered
  <2>2. Quiet(w.m.thread) /\ client = 0 BY <1>0, <2>1 DEF Own, Stage
  <2>3. Serves(t, w.m.thread, 0, client) BY <1>1, <2>2
  <2>4. Opens(t, w.m.thread, 0, FALSE, client, FALSE, w.m.queued) BY <1>3, SubmitMoves
  <2>5. client \in {0, w.m.client} OBVIOUS
  <2> HIDE DEF client
  <2> QED BY <1>2, <2>3, <2>4, <2>5
<1>4. ASSUME NEW t \in Tasks, StartNewConfigured(t) PROVE Own(w', minted, threads)
  <2>1. CASE Opens(t, 0, 0, FALSE, 0, FALSE, NoTask)
    BY <1>1, <1>2, <2>1
  <2>2. CASE Looks(w', "replacing", FALSE, w.connected, w.prompt)
             /\ Has(w'.m, "Idle", w.m.thread, 0, FALSE, 0, FALSE, w.m.queued)
    <3>1. Serves(w.prompt, w.m.thread, 0, 0) BY <1>0, ServesLess DEF Own
    <3> QED BY <1>0, <2>2, <3>1 DEF Looks, Has, Own, Stage, Underway, Opening
  <2> QED BY <1>4, <2>1, <2>2, SubmitMoves
<1>5. ASSUME NEW queued, Looks(w', w.pc, w.started, w.connected, w.prompt),
             Has(w'.m, w.m.phase, w.m.thread, w.m.turn, w.m.uncertain, w.m.client,
                 w.m.followUp, queued)
      PROVE  Own(w', minted, threads)
  BY <1>0, <1>5 DEF Looks, Has, Own, Stage, Underway, Opening
<1>6. ASSUME NEW t \in Tasks, QueueMessage(t) PROVE Own(w', minted, threads)
  BY <1>5, <1>6, CommandMoves
<1>7. CASE Configure \/ SaveAgain
  BY <1>0, <1>7, CommandMoves
<1>8. CASE ClearQueued
  BY <1>5, <1>8, CommandMoves
<1>9. ASSUME ~w'.started, w'.pc \in {"loop", "pausing"}, w'.prompt = w.prompt,
             Has(w'.m, "Paused", w.m.thread, w.m.turn, w.m.uncertain, w.m.client,
                 w.m.followUp, w.m.queued)
      PROVE  Own(w', minted, threads)
  BY <1>0, <1>9 DEF Has, Own, Stage, Underway, Opening
<1>10. CASE Resume
  <2>1. CASE Looks(w', "loop", FALSE, w.connected, w.prompt)
             /\ Has(w'.m, "Paused", w.m.thread, w.m.turn, w.m.uncertain, w.m.client,
                    w.m.followUp, w.m.queued)
    BY <1>9, <2>1 DEF Looks
  <2>2. /\ Serves(w.prompt, w.m.thread, w.m.turn, w.m.client)
        /\ w.m.turn = 0 /\ w.m.uncertain => w.m.client # 0
    BY <1>0 DEF Own, Stage
  <2>3. CASE Opens(w.prompt, w.m.thread, w.m.turn, w.m.uncertain, w.m.client,
                   w.m.followUp, w.m.queued)
    BY <1>2, <2>2, <2>3
  <2>4. CASE Opens(w.prompt, w.m.thread, w.m.turn, w.m.uncertain, w.m.client,
                   w.m.followUp \/ w.m.turn # 0, w.m.queued)
    BY <1>2, <2>2, <2>4
  <2> QED BY <1>10, <2>1, <2>3, <2>4, CommandMoves
<1>11. CASE PauseTask
  BY <1>9, <1>11, CommandMoves
<1>12. ~Stop
  BY DEF Stop, Asks
<1>13. CASE Reset
  <2>1. CASE Looks(w', "resetting", FALSE, w.connected, w.prompt)
             /\ Has(w'.m, "Idle", w.m.thread, 0, FALSE, 0, FALSE, w.m.queued)
    <3>1. Serves(w.prompt, w.m.thread, 0, 0) BY <1>0, ServesLess DEF Own
    <3> QED BY <1>0, <2>1, <3>1 DEF Looks, Has, Own, Stage, Underway, Opening
  <2>2. CASE Looks(w', "loop", FALSE, FALSE, NoTask)
             /\ Has(w'.m, "Idle", 0, 0, FALSE, 0, FALSE, NoTask)
    BY <1>0, <1>1, <2>2 DEF Looks, Has, Own, Stage, Underway, Opening
  <2> QED BY <1>13, <2>1, <2>2, CommandMoves
<1>14. CASE Shutdown
  <2>1. Looks(w', "down", FALSE, FALSE, NoTask) /\ w'.m = Fresh
    BY <1>14, CommandMoves, DownEffect
  <2>2. Has(w'.m, "Idle", 0, 0, FALSE, 0, FALSE, NoTask) BY <2>1, FreshEffect
  <2> QED BY <1>0, <1>1, <2>1, <2>2 DEF Looks, Has, Own, Stage, Underway, Opening
<1> QED BY <1>3, <1>4, <1>6, <1>7, <1>8, <1>10, <1>11, <1>12, <1>13, <1>14 DEF UserStep

\* The latest turn of the resumed thread, where an outcome is owed and the turn carries
\* the last submission's id, was started for the task.
LEMMA OwedServes ==
  ASSUME TypeOK, NEW k \in Nat, NEW n \in Nat, Own(w, k, n),
         w.pc \notin {"mark", "markQueued"}, NEW latest \in 1..Len(turns),
         LatestIn(w.m.thread, latest), AwaitingOutcome(w.m), ~Stranger(w.m, latest, TRUE)
  PROVE  turns[latest].task = w.prompt
<1>0. w.m.turn \in Nat /\ latest \in Nat /\ w.m.client \in Nat
  BY DEF TypeOK, Memory, Machine
<1>1. CASE w.m.turn # 0
  <2>1. LatestIn(w.m.thread, w.m.turn) /\ turns[w.m.turn].task = w.prompt
    BY <1>1 DEF Own, Serves
  <2>2. latest = w.m.turn BY <1>0, <1>1, <2>1, LatestUnique
  <2> QED BY <2>1, <2>2
<1>2. CASE w.m.turn = 0
  <2>1. w.m.uncertain \/ w.m.phase \in {"Sending", "Waiting"}
    BY <1>2 DEF AwaitingOutcome
  <2>2. w.m.client # 0 BY <1>2, <2>1 DEF Own, Stage
  <2>3. turns[latest].client = w.m.client BY <2>2 DEF Stranger, NotOurs
  <2> QED BY <2>2, <2>3 DEF Own, Serves
<1> QED BY <1>1, <1>2


\* What is reported is the answer of the turn at hand.
Told(t) == reported' \subseteq reported \cup {[task |-> w.prompt, turn |-> t]}

LEMMA OwnResume ==
  ASSUME {"foreign", "oldServer"} \cap Faults = {}, TypeOK, ReadyInv, AnswerInv, ResumeReply
  PROVE  /\ Own(w', minted, threads)
         /\ \/ reported' = reported
            \/ \E t \in 1..Len(turns) : turns[t].task = w.prompt /\ Told(t)
<1> DEFINE thread == w.m.thread
<1>a. w.pc = "resume" BY DEF ResumeReply
<1>b. /\ w.m.thread \in Nat /\ threads \in Nat /\ minted \in Nat /\ Len(turns) \in Nat
      /\ w.m.thread <= threads /\ Own(w, minted, threads)
      /\ Serves(w.prompt, w.m.thread, w.m.turn, w.m.client)
  BY DEF TypeOK, Memory, Machine, AnswerInv, Own
<1>c. w.started BY <1>a, <1>b DEF Own, Stage, Underway, Opening
<1>d. Serves(w.prompt, w.m.thread, 0, w.m.client) BY <1>b, ServesLess
<1>0. /\ thread \in Nat /\ threads \in Nat /\ minted \in Nat /\ Len(turns) \in Nat
      /\ thread <= threads /\ Own(w, minted, threads) /\ w.pc = "resume" /\ w.started
      /\ Serves(w.prompt, thread, 0, w.m.client)
      /\ Serves(w.prompt, thread, w.m.turn, w.m.client)
  BY <1>a, <1>b, <1>c, <1>d
<1>1. PICK latest \in 0..Len(turns), reports \in BOOLEAN :
        /\ \/ /\ IsLatestTurn(latest, thread)
              /\ reports \/ "oldServer" \in Faults
           \/ latest = 0 /\ "unread" \in Faults
        /\ Session(w, thread, latest, reports, w') /\ Reports(w', latest)
  BY <1>0, SessionMoves
<1> DEFINE outcome == turns[latest].outcome
<1>2. latest # 0 => LatestIn(thread, latest) /\ latest \in 1..Len(turns) /\ reports
  BY <1>0, <1>1 DEF LatestIn
<1>3. latest # 0 /\ outcome = "running" => turns[latest].task = w.prompt
  BY <1>0, <1>2 DEF Serves
<1>4. latest # 0 /\ outcome # "running" => Quiet(thread)
  <2>1. ASSUME latest # 0, outcome # "running", NEW i \in 1..Len(turns), LatestIn(thread, i)
        PROVE  turns[i].outcome # "running"
    <3>1. i = latest BY <1>0, <1>2, <2>1, LatestUnique
    <3> QED BY <2>1, <3>1
  <2> QED BY <2>1 DEF Quiet
<1>5. \/ \E again : Retries(w, thread, again, w') \/ Sends(w, thread, again, w')
      \/ latest # 0 /\ outcome = "running" /\ Watches(w, thread, latest, w')
      \/ /\ latest # 0 /\ outcome # "running" /\ AwaitingOutcome(w.m)
         /\ ~Stranger(w.m, latest, reports) /\ Concludes(w, thread, outcome, w')
  <2> HIDE DEF thread
  <2>1. Session(w, thread, latest, reports, w') BY <1>1
  <2> QED BY <2>1 DEF Session
<1>6. CASE \E again : Retries(w, thread, again, w') \/ Sends(w, thread, again, w')
  <2>1. Own(w', minted, threads) BY <1>0, <1>6, OwnResults
  <2>2. w'.m.phase # "Success" /\ w'.pc # "handover"
    BY <1>0, <1>6 DEF Retries, Sends, Looks, Has
  <2> QED BY <1>1, <2>1, <2>2 DEF Reports
<1>7. CASE latest # 0 /\ outcome = "running" /\ Watches(w, thread, latest, w')
  <2>1. Own(w', minted, threads) BY <1>0, <1>2, <1>3, <1>7, OwnResults
  <2>2. w'.m.phase # "Success" /\ w'.pc # "handover"
    BY <1>7 DEF Watches, Looks, Has
  <2> QED BY <1>1, <2>1, <2>2 DEF Reports
<1>8. CASE /\ latest # 0 /\ outcome # "running" /\ AwaitingOutcome(w.m)
           /\ ~Stranger(w.m, latest, reports) /\ Concludes(w, thread, outcome, w')
  <2>1. Quiet(thread) BY <1>4, <1>8
  <2>2. Own(w', minted, threads) BY <1>0, <1>8, <2>1, OwnEnds
  <2>3. turns[latest].task = w.prompt
    <3>1. reports = TRUE BY <1>2, <1>8
    <3> QED BY <1>0, <1>2, <1>8, <3>1, OwedServes
  <2>4. Told(latest) BY <1>1 DEF Reports, Told
  <2> QED BY <1>2, <1>8, <2>2, <2>3, <2>4
<1> QED BY <1>5, <1>6, <1>7, <1>8

LEMMA OwnRequest ==
  ASSUME TypeOK, ReadyInv, AnswerInv,
         \/ InterruptReply \/ ConnectReply \/ CreateReply \/ ResumeFails
         \/ Mark \/ SubmitReply \/ SubmitFails \/ Handover
  PROVE  Own(w', minted', threads')
<1> DEFINE thread == w.m.thread
<1>0. /\ thread \in Nat /\ threads \in Nat /\ minted \in Nat /\ w.m.client \in Nat
      /\ thread <= threads /\ w.m.client <= minted /\ Own(w, minted, threads)
      /\ Serves(w.prompt, thread, 0, w.m.client)
      /\ Serves(w.prompt, thread, w.m.turn, w.m.client)
  BY ServesLess DEF TypeOK, Memory, Machine, AnswerInv, Own
<1>1. /\ Quiet(0) /\ \A p : Serves(p, 0, 0, 0)
      /\ Serves(w.prompt, 0, 0, w.m.client)
  <2>1. \A i \in 1..Len(turns) : turns[i].thread # 0 BY DEF ReadyInv, Placed
  <2> QED BY <1>0, <2>1, ServesLess
<1>f. ASSUME NEW kind, Fails(w, kind, w'), w.pc \in Underway, w.pc \notin {"mark", "markQueued"}
      PROVE  Own(w', minted, threads)
  <2>1. w.started BY <1>0, <1>f DEF Own, Stage
  <2> QED BY <1>0, <1>f, <2>1, OwnEnds
<1>2. CASE InterruptReply
  <2>0. threads' = threads /\ minted' = minted BY <1>2 DEF InterruptReply
  <2>1. CASE /\ w.pc \in {"pausing", "stopping"} /\ w'.m = w.m
              /\ Looks(w', "loop", FALSE, FALSE, w.prompt)
    <3>1. w.pc = "pausing" /\ w.m.phase = "Paused" BY <1>0, <2>1 DEF Own, Stage
    <3> QED BY <1>0, <2>0, <2>1, <3>1 DEF Looks, Own, Stage, Underway, Opening
  <2>2. CASE Opens(w.incoming, 0, 0, FALSE, 0, FALSE, NoTask)
    BY <1>0, <1>1, <2>0, <2>2 DEF Opens, Opening, Has, Own, Stage, Underway
  <2>3. CASE Looks(w', "loop", FALSE, FALSE, NoTask)
             /\ Has(w'.m, "Idle", 0, 0, FALSE, 0, FALSE, NoTask)
    BY <1>0, <1>1, <2>0, <2>3 DEF Looks, Has, Own, Stage, Underway, Opening
  <2>4. CASE w.pc = "expiring" /\ Retries(w, w.m.thread, TRUE, w')
    <3>1. w.started BY <1>0, <2>4 DEF Own, Stage, Underway
    <3> QED BY <1>0, <2>0, <2>4, <3>1, OwnResults
  <2> QED BY <1>2, <2>1, <2>2, <2>3, <2>4, InterruptMoves
<1>3. CASE ConnectReply
  <2>0. threads' = threads /\ minted' = minted /\ w.pc = "connect" /\ w.started
    BY <1>0, <1>3 DEF ConnectReply, server, Own, Stage, Underway, Opening
  <2>1. CASE w'.m = w.m /\ Looks(w', IF w.m.thread = 0 THEN "create" ELSE "resume",
                                 w.started, TRUE, w.prompt)
    BY <1>0, <2>0, <2>1 DEF Looks, Own, Stage, Underway, Opening
  <2> QED BY <1>3, <1>f, <2>0, <2>1, SessionMoves DEF Underway, Opening
<1>4. CASE CreateReply
  <2>0. minted' = minted /\ w.pc = "create" /\ w.started /\ w.m.thread = 0
    BY <1>0, <1>4 DEF CreateReply, Own, Stage, Underway, Opening
  <2>1. CASE threads' = threads /\ \E kind \in FailureKinds : Fails(w, kind, w')
    BY <1>f, <2>0, <2>1 DEF Underway, Opening
  <2>2. CASE threads' = threads + 1 /\ Session(w, threads + 1, 0, TRUE, w')
    <3> DEFINE n == threads + 1
    <3>1. n \in Nat /\ threads' = n /\ n <= n /\ Own(w, minted, n)
      BY <1>0, <2>2 DEF Own
    <3>2. \A i \in 1..Len(turns) : turns[i].thread # n
      <4>1. \A i \in 1..Len(turns) : turns[i].thread <= threads
        BY DEF AnswerInv, Counted
      <4> QED BY <1>0, <4>1
    <3>3. Session(w, n, 0, TRUE, w') BY <2>2
    <3> HIDE DEF n
    <3>4. \E again : Retries(w, n, again, w') \/ Sends(w, n, again, w')
      BY <3>3 DEF Session
    <3>5. Serves(w.prompt, n, 0, w.m.client) BY <1>0, <3>2, ServesLess
    <3>6. Own(w', minted, n) BY <1>0, <2>0, <3>1, <3>4, <3>5, OwnResults
    <3> QED BY <2>0, <3>1, <3>6
  <2> QED BY <1>4, <2>1, <2>2, SessionMoves
<1>5. CASE ResumeFails
  <2>0. threads' = threads /\ minted' = minted /\ w.pc = "resume" /\ w.started
    BY <1>0, <1>5 DEF ResumeFails, server, Own, Stage, Underway, Opening
  <2>1. CASE Looks(w', "create", w.started, w.connected, w.prompt)
             /\ Has(w'.m, w.m.phase, 0, 0, FALSE, w.m.client, FALSE, w.m.queued)
    BY <1>0, <1>1, <2>0, <2>1 DEF Looks, Has, Own, Stage, Underway, Opening
  <2> QED BY <1>5, <1>f, <2>0, <2>1, SessionMoves DEF Underway, Opening
<1>6. CASE Mark
  <2>0. threads' = threads /\ minted' = minted + 1 /\ diskOk /\ w.m.turn = 0 /\ w.started
    BY <1>0, <1>6 DEF Mark, AnswerInv, Counted, ReadyInv, Ready, Own, Stage, Underway
  <2>1. /\ Looks(w', "submit", w.started, w.connected, w.prompt)
        /\ Has(w'.m, w.m.phase, w.m.thread, w.m.turn, TRUE, minted + 1,
               w.m.followUp, w.m.queued)
    BY <1>6, <2>0, SubmissionMoves
  <2>2. Serves(w.prompt, thread, 0, minted + 1)
    <3>1. \A i \in 1..Len(turns) : turns[i].client <= minted /\ turns[i].client \in Nat
      <4>1. ASSUME NEW i \in 1..Len(turns) PROVE turns[i].client \in Nat
        <5>1. turns \in Seq(Turn) BY DEF TypeOK
        <5>2. turns[i] \in Turn BY <5>1
        <5> QED BY <5>2 DEF Turn
      <4> QED BY <4>1 DEF AnswerInv, Counted
    <3>2. \A i \in 1..Len(turns) : turns[i].client # minted + 1 BY <1>0, <3>1
    <3> QED BY <1>0, <3>2 DEF Serves
  <2> QED BY <1>0, <2>0, <2>1, <2>2 DEF Looks, Has, Own, Stage, Underway, Opening
<1>7. CASE SubmitReply
  <2>0. threads' = threads /\ minted' = minted /\ w.pc = "submit" /\ w.started
    BY <1>0, <1>7 DEF SubmitReply, Own, Stage, Underway
  <2>1. wire.turn # 0 /\ Watches(w, w.m.thread, wire.turn, w')
    BY <1>7, SubmissionMoves
  <2>2. LatestIn(w.m.thread, wire.turn) /\ turns[wire.turn].task = w.prompt
    BY <2>0, <2>1 DEF AnswerInv, Wired
  <2> QED BY <1>0, <2>0, <2>1, <2>2, OwnResults
<1>8. CASE SubmitFails
  <2>0. threads' = threads /\ minted' = minted /\ w.pc = "submit"
    BY <1>8 DEF SubmitFails
  <2> QED BY <1>8, <1>f, <2>0, SubmissionMoves DEF Underway
<1>9. CASE Handover
  <2>0. threads' = threads /\ minted' = minted /\ w.pc = "handover" /\ w.started
        /\ w.m.turn = 0
    BY <1>0, <1>9 DEF Handover, server, Own, Stage, Underway, ReadyInv, Ready
  <2>1. Looks(w', "markQueued", w.started, w.connected, w.prompt)
        /\ Has(w'.m, "Sending", w.m.thread, 0, FALSE, w.m.client, w.m.followUp, w.m.queued)
    BY <1>9, <2>0, SubmissionMoves
  <2> QED BY <1>0, <2>0, <2>1 DEF Looks, Has, Own, Stage, Underway, Opening
<1> QED BY <1>2, <1>3, <1>4, <1>5, <1>6, <1>7, <1>8, <1>9


LEMMA OwnEvent ==
  ASSUME TypeOK, ReadyInv, AnswerInv,
         OnTurnStarted \/ OnError \/ OnTurnCompleted \/ OnSystemError \/ OnDisconnected
  PROVE  /\ Own(w', minted, threads)
         /\ \/ reported' = reported
            \/ \E t \in 1..Len(turns) : turns[t].task = w.prompt /\ Told(t)
<1> DEFINE t == Head(events).turn
           again == w.m.followUp \/ w.m.turn # 0
<1>a. w.pc = "loop" /\ w.started /\ w.connected /\ events # << >>
  BY DEF OnTurnStarted, OnError, OnTurnCompleted, OnSystemError, OnDisconnected, Hears,
         Listening
<1>b. /\ w.m.thread \in Nat /\ threads \in Nat /\ minted \in Nat
      /\ w.m.thread <= threads /\ Own(w, minted, threads)
      /\ Serves(w.prompt, w.m.thread, w.m.turn, w.m.client)
  BY DEF TypeOK, Memory, Machine, AnswerInv, Own
<1>c. Serves(w.prompt, w.m.thread, 0, w.m.client) BY <1>b, ServesLess
<1>d. w.m.phase \in {"Sending", "Waiting"} => w.m.turn # 0
  BY <1>a, <1>b DEF Own, Stage
<1>e. w.m.turn # 0 => LatestIn(w.m.thread, w.m.turn) /\ turns[w.m.turn].task = w.prompt
  BY <1>b DEF Serves
<1>1. ASSUME w' = w PROVE Own(w', minted, threads)
  BY <1>b, <1>1
<1>2. CASE OnTurnStarted
  <2>1. ASSUME StartsOurTurn /\ Watches(w, w.m.thread, t, w')
        PROVE  Own(w', minted, threads)
    <3>1. w.m.turn = t /\ t # 0
      BY <1>d, <2>1 DEF StartsOurTurn
    <3>2. LatestIn(w.m.thread, t) /\ turns[t].task = w.prompt BY <1>e, <3>1
    <3> HIDE DEF t
    <3> QED BY <1>a, <1>b, <1>c, <2>1, <3>2, OwnResults
  <2>2. Own(w', minted, threads) BY <1>1, <1>2, <2>1, EventMoves
  <2> QED BY <1>2, <2>2 DEF OnTurnStarted, history
<1>3. CASE OnError
  <2>0. t \in 1..Len(turns)
    BY <1>a, <1>3, HeardEvent DEF OnError, Hears
  <2>1. ASSUME /\ MatchesActive
               /\ Looks(w', "loop", w.started, w.connected, w.prompt)
               /\ Has(w'.m, "Waiting", w.m.thread, w.m.turn, w.m.uncertain,
                      w.m.client, w.m.followUp, w.m.queued)
        PROVE  Own(w', minted, threads)
    <3>1. w.m.turn # 0 BY <2>0, <2>1 DEF MatchesActive, TypeOK
    <3> HIDE DEF t
    <3> QED BY <1>a, <1>b, <2>1, <3>1 DEF Looks, Has, Own, Stage, Underway, Opening
  <2>2. ASSUME Retries(w, w.m.thread, again, w')
        PROVE  Own(w', minted, threads)
    BY <1>a, <1>b, <1>c, <2>2, OwnResults
  <2>3. ASSUME Rests(w, "Paused", w.m.thread, w.m.turn, w.m.uncertain,
                     w.m.followUp, w.m.queued, w')
        PROVE  Own(w', minted, threads)
    BY <1>a, <1>b, <1>c, <2>3, OwnResults
  <2>4. Own(w', minted, threads) BY <1>1, <1>3, <2>1, <2>2, <2>3, EventMoves
  <2> QED BY <1>3, <2>4 DEF OnError, history
<1>4. CASE OnTurnCompleted
  <2>0. t \in 1..Len(turns) /\ Head(events) = events[1] /\ 1 \in 1..Len(events)
        /\ Head(events).type = "completed"
    BY <1>a, <1>4, HeardEvent DEF OnTurnCompleted, Hears
  <2>1. turns[t].outcome # "running"
    BY <2>0 DEF AnswerInv, EndingsTrue
  <2>2. CASE /\ MatchesActive /\ Reports(w', t)
             /\ \E outcome : Concludes(w, w.m.thread, outcome, w')
    <3>1. w.m.turn = t /\ t # 0 BY <2>0, <2>2 DEF MatchesActive, TypeOK
    <3>2. LatestIn(w.m.thread, t) /\ turns[t].task = w.prompt BY <1>e, <3>1
    <3>3. Quiet(w.m.thread)
      <4>1. ASSUME NEW i \in 1..Len(turns), LatestIn(w.m.thread, i)
            PROVE  turns[i].outcome # "running"
        <5>1. i \in Nat /\ t \in Nat /\ t # 0 BY <2>0, <3>1
        <5>2. i = t BY <3>2, <4>1, <5>1, LatestUnique
        <5> QED BY <2>1, <5>2
      <4> QED BY <4>1 DEF Quiet
    <3>4. Own(w', minted, threads) BY <1>a, <1>b, <2>2, <3>3, OwnEnds
    <3>5. Told(t) BY <2>2 DEF Reports, Told
    <3> QED BY <2>0, <3>2, <3>4, <3>5
  <2>3. CASE w' = w /\ reported' = reported
    BY <1>1, <2>3
  <2> QED BY <1>4, <2>2, <2>3, EventMoves
<1>5. CASE OnSystemError
  <2>1. ASSUME /\ Looks(w', "loop", w.started, FALSE, w.prompt)
               /\ Has(w'.m, "Backoff", w.m.thread, 0, FALSE, w.m.client,
                      w.m.followUp, w.m.queued)
        PROVE  Own(w', minted, threads)
    BY <1>a, <1>b, <1>c, <2>1 DEF Looks, Has, Own, Stage, Underway, Opening
  <2>2. Own(w', minted, threads) BY <1>1, <1>5, <2>1, EventMoves
  <2> QED BY <1>5, <2>2 DEF OnSystemError, history
<1>6. CASE OnDisconnected
  <2>1. ASSUME /\ w.m.phase = "Backoff" /\ w'.m = w.m
               /\ Looks(w', "loop", w.started, FALSE, w.prompt)
        PROVE  Own(w', minted, threads)
    BY <1>a, <1>b, <2>1 DEF Looks, Own, Stage, Underway, Opening
  <2>2. ASSUME Reconnects(w, w')
        PROVE  Own(w', minted, threads)
    BY <1>a, <1>b, <1>c, <2>2, OwnResults
  <2>3. Own(w', minted, threads) BY <1>6, <2>1, <2>2, EventMoves
  <2> QED BY <1>6, <2>3 DEF OnDisconnected, history
<1> QED BY <1>2, <1>3, <1>4, <1>5, <1>6

LEMMA OwnElse ==
  ASSUME {"foreign", "disk", "crash"} \cap Faults = {}, TypeOK, ReadyInv, AnswerInv,
         HandleDeadline \/ Restart \/ CodexStep \/ MachineStep
  PROVE  Own(w', minted, threads)
<1>b. /\ w.m.thread \in Nat /\ threads \in Nat /\ minted \in Nat
      /\ w.m.thread <= threads /\ Own(w, minted, threads)
      /\ Serves(w.prompt, w.m.thread, w.m.turn, w.m.client)
  BY DEF TypeOK, Memory, Machine, AnswerInv, Own
<1>1. CASE HandleDeadline
  <2>1. w.pc = "loop" /\ w.started BY <1>1, TimerMoves
  <2>2. CASE /\ w.m.phase \in {"Backoff", "Connecting"} \/ w.m.turn = 0
             /\ Ensures(w, w')
    <3>1. CASE w.connected
      <4>1. w.m.phase \notin {"Sending", "Waiting"}
        BY <1>b, <2>1, <2>2, <3>1 DEF Own, Stage
      <4>2. w'.m = w.m /\ Looks(w', IF w.m.thread = 0 THEN "create" ELSE "resume",
                                w.started, w.connected, w.prompt)
        BY <2>2, <3>1 DEF Ensures
      <4> QED BY <1>b, <2>1, <4>1, <4>2 DEF Looks, Own, Stage, Underway, Opening
    <3>2. CASE ~w.connected
      <4>1. /\ Looks(w', "connect", w.started, w.connected, w.prompt)
            /\ Has(w'.m, "Connecting", w.m.thread, w.m.turn, w.m.uncertain, w.m.client,
                   w.m.followUp, w.m.queued)
        BY <2>2, <3>2 DEF Ensures
      <4> QED BY <1>b, <2>1, <4>1 DEF Looks, Has, Own, Stage, Underway, Opening
    <3> QED BY <3>1, <3>2
  <2>3. CASE w'.m = w.m /\ Looks(w', "expiring", w.started, w.connected, w.prompt)
    BY <1>b, <2>1, <2>3 DEF Looks, Own, Stage, Underway, Opening
  <2> QED BY <1>1, <2>2, <2>3, TimerMoves
<1>2. CASE Restart
  <2>0. disk.state = Fresh BY <1>2 DEF Restart, AnswerInv, Counted
  <2>1. Fresh.phase = "Idle" /\ Fresh.turn = 0 /\ Fresh.uncertain = FALSE
        /\ Fresh.queued = NoTask
    BY DEF Fresh
  <2>2. ~RequiresRecovery(disk.state) /\ ~PickedUp(disk.state)
    BY <2>0, <2>1 DEF RequiresRecovery, PickedUp, Running
  <2>3. w'.m = Fresh /\ \E p : Looks(w', "loop", FALSE, FALSE, p)
    BY <1>2, <2>2 DEF Restart, Restored, Offline, Looks
  <2>4. Has(w'.m, "Idle", 0, 0, FALSE, 0, FALSE, NoTask) BY <2>3, FreshEffect
  <2>5. \A i \in 1..Len(turns) : turns[i].thread # 0 BY DEF ReadyInv, Placed
  <2>6. Quiet(0) /\ Serves(w'.prompt, 0, 0, 0) BY <2>5, ServesLess
  <2> QED BY <1>b, <2>3, <2>4, <2>6 DEF Looks, Has, Own, Stage, Underway, Opening
<1>3. CASE CodexStep \/ MachineStep
  <2>1. w' = w
    BY <1>3 DEF CodexStep, ServerAccepts, TurnEnds, Notices, ThreadBreaks, ForeignTurn,
                MachineStep, Disconnects, DiskFails, DiskRecovers, Crash, Fault
  <2> QED BY <1>b, <2>1
<1> QED BY <1>1, <1>2, <1>3


\* A step that adds no turn keeps what is known of the turns there are.
LEMMA ServesKept ==
  ASSUME TypeOK, Next, ~ServerAccepts, "foreign" \notin Faults
  PROVE  /\ Len(turns') = Len(turns)
         /\ \A thread, i : LatestIn(thread, i) <=> LatestIn(thread, i)'
         /\ \A i \in 1..Len(turns) :
              /\ turns'[i].thread = turns[i].thread /\ turns'[i].client = turns[i].client
              /\ turns'[i].task = turns[i].task
              /\ turns'[i].outcome = "running" => turns[i].outcome = "running"
         /\ \A thread : Quiet(thread) => Quiet(thread)'
         /\ \A p, thread, turn, client :
              Serves(p, thread, turn, client) => Serves(p, thread, turn, client)'
<1>0. Len(turns) \in Nat BY DEF TypeOK
<1>1. /\ Len(turns') = Len(turns)
      /\ \A i \in 1..Len(turns) :
           /\ turns'[i].thread = turns[i].thread /\ turns'[i].client = turns[i].client
           /\ turns'[i].task = turns[i].task
           /\ turns'[i].outcome = "running" => turns[i].outcome = "running"
  <2>1. ~ForeignTurn BY DEF ForeignTurn, Fault
  <2>2. CASE turns' = turns BY <2>2
  <2>3. CASE \E t \in RunningTurns, o \in Endings : Ended(t, o)
    <3>1. PICK t \in RunningTurns, o \in Endings : Ended(t, o) BY <2>3
    <3>2. o # "running" BY DEF Endings
    <3> QED BY <3>1, <3>2, EndedMoves
  <2> QED BY <2>1, <2>2, <2>3, TurnMoves
<1>2. \A thread, i : LatestIn(thread, i) <=> LatestIn(thread, i)'
  <2>1. ASSUME NEW thread, NEW i \in 1..Len(turns)
        PROVE  IsLatestTurn(i, thread) <=> IsLatestTurn(i, thread)'
    BY <1>0, <1>1, <2>1 DEF IsLatestTurn
  <2> QED BY <1>1, <2>1 DEF LatestIn
<1>3. \A thread : Quiet(thread) => Quiet(thread)'
  BY <1>1, <1>2 DEF Quiet
<1>4. ASSUME NEW p, NEW thread, NEW turn, NEW client, Serves(p, thread, turn, client)
      PROVE  Serves(p, thread, turn, client)'
  <2>1. turn # 0 => LatestIn(thread, turn)' /\ turns'[turn].task = p
    <3>1. LatestIn(thread, turn) => turn \in 1..Len(turns) BY DEF LatestIn
    <3> QED BY <1>1, <1>2, <1>4, <3>1 DEF Serves
  <2>2. \A i \in 1..Len(turns') :
          LatestIn(thread, i)' /\ turns'[i].outcome = "running" => turns'[i].task = p
    BY <1>1, <1>2, <1>4 DEF Serves
  <2>3. client # 0 =>
          \A i \in 1..Len(turns') : turns'[i].client = client => turns'[i].task = p
    BY <1>1, <1>4 DEF Serves
  <2> QED BY <2>1, <2>2, <2>3 DEF Serves
<1> QED BY <1>1, <1>2, <1>3, <1>4

\* The turn that a request becomes belongs to the task of the request.
LEMMA ServesAdded ==
  ASSUME TypeOK, ServerAccepts, NEW p, NEW client, NEW n, n = Len(turns) + 1,
         Serves(p, wire.thread, 0, client), wire.task = p
  PROVE  /\ LatestIn(wire.thread, n)'
         /\ Serves(p, wire.thread, 0, client)'
<1>1. /\ Len(turns') = n /\ Len(turns) \in Nat
      /\ turns'[n].thread = wire.thread /\ turns'[n].task = wire.task
      /\ \A i \in 1..Len(turns) : turns'[i] = turns[i]
      /\ wire'.thread = wire.thread
  BY AcceptedMoves
<1>2. n \in 1..Len(turns') /\ \A i \in (n + 1)..Len(turns') : FALSE
  BY <1>1
<1>3. IsLatestTurn(n, wire.thread)'
  BY <1>1, <1>2 DEF IsLatestTurn
<1>4. \A i \in 1..Len(turns') : turns'[i].task = p \/ i \in 1..Len(turns)
  BY <1>1
<1>5. \A i \in 1..Len(turns) : ~LatestIn(wire.thread, i)'
  BY <1>1 DEF LatestIn, IsLatestTurn
<1>6. client # 0 =>
        \A i \in 1..Len(turns') : turns'[i].client = client => turns'[i].task = p
  BY <1>1, <1>4 DEF Serves
<1> QED BY <1>1, <1>2, <1>3, <1>4, <1>5, <1>6 DEF Serves, LatestIn

\* Only its answer, or the end of Longwatch, ends the wait for turn/start.
LEMMA SubmitEnds ==
  ASSUME Next, w.pc = "submit"
  PROVE  SubmitReply \/ SubmitFails \/ Crash \/ w' = w
<1>1. ~UserStep
  BY DEF UserStep, StartConfigured, StartNewConfigured, QueueMessage, Configure,
         SaveAgain, Resume, ClearQueued, PauseTask, Stop, Reset, Shutdown, Asks, Listening
<1>2. CASE WorkerStep
  BY <1>2 DEF WorkerStep, InterruptReply, ConnectReply, CreateReply, ResumeReply,
              ResumeFails, Mark, Handover, OnTurnStarted, OnError, OnTurnCompleted,
              OnSystemError, OnDisconnected, Hears, HandleDeadline, Restart, Listening
<1>3. CASE CodexStep \/ MachineStep
  BY <1>3 DEF CodexStep, ServerAccepts, TurnEnds, Notices, ThreadBreaks, ForeignTurn,
              MachineStep, Disconnects, DiskFails, DiskRecovers
<1> QED BY <1>1, <1>2, <1>3 DEF Next


LEMMA AnswerStep ==
  ASSUME {"unoffered", "stop"} \cap Commands = {},
         {"foreign", "oldServer", "disk", "crash"} \cap Faults = {},
         TypeOK, ReadyInv, AnswerInv, Next
  PROVE  AnswerInv'
<1>0. /\ Len(turns) \in Nat /\ threads \in Nat /\ minted \in Nat /\ turns \in Seq(Turn)
      /\ Placed /\ Ready(w) /\ EndingsTrue /\ Wired /\ Counted /\ ReportedTrue
      /\ Own(w, minted, threads)
  BY DEF TypeOK, ReadyInv, AnswerInv
<1>1. Own(w', minted', threads')
  <2>1. CASE UserStep
    <3>1. minted' = minted /\ threads' = threads
      BY <2>1 DEF UserStep, StartConfigured, StartNewConfigured, QueueMessage, Configure,
                  SaveAgain, Resume, ClearQueued, PauseTask, Stop, Reset, Shutdown, server
    <3> QED BY <2>1, <3>1, OwnUser
  <2>2. CASE ResumeReply
    <3>1. minted' = minted /\ threads' = threads BY <2>2 DEF ResumeReply, server
    <3> QED BY <2>2, <3>1, OwnResume
  <2>3. CASE OnTurnStarted \/ OnError \/ OnTurnCompleted \/ OnSystemError \/ OnDisconnected
    <3>1. minted' = minted /\ threads' = threads
      BY <2>3 DEF OnTurnStarted, OnError, OnTurnCompleted, OnSystemError, OnDisconnected,
                  server
    <3> QED BY <2>3, <3>1, OwnEvent
  <2>4. CASE HandleDeadline \/ Restart \/ CodexStep \/ MachineStep
    <3>1. minted' = minted /\ threads' = threads
      BY <2>4 DEF HandleDeadline, Restart, CodexStep, ServerAccepts, TurnEnds, Notices,
                  ThreadBreaks, ForeignTurn, MachineStep, Disconnects, DiskFails,
                  DiskRecovers, Crash, server
    <3> QED BY <2>4, <3>1, OwnElse
  <2> QED BY <2>1, <2>2, <2>3, <2>4, OwnRequest DEF Next, WorkerStep
<1>2. \/ reported' = reported
      \/ \E t \in 1..Len(turns) : turns[t].task = w.prompt /\ Told(t)
  <2>1. CASE ResumeReply BY <2>1, OwnResume
  <2>2. CASE OnTurnCompleted BY <2>2, OwnEvent
  <2>3. CASE UserStep
    BY <2>3 DEF UserStep, StartConfigured, StartNewConfigured, QueueMessage, Configure,
                SaveAgain, Resume, ClearQueued, PauseTask, Stop, Reset, Shutdown, history
  <2>4. CASE WorkerStep /\ ~ResumeReply /\ ~OnTurnCompleted
    BY <2>4 DEF WorkerStep, InterruptReply, ConnectReply, CreateReply, ResumeFails, Mark,
                SubmitReply, SubmitFails, Handover, OnTurnStarted, OnError, OnSystemError,
                OnDisconnected, HandleDeadline, Restart, history
  <2>5. CASE CodexStep \/ MachineStep
    BY <2>5 DEF CodexStep, ServerAccepts, TurnEnds, Notices, ThreadBreaks, ForeignTurn,
                MachineStep, Disconnects, DiskFails, DiskRecovers, Crash, history
  <2> QED BY <2>1, <2>2, <2>3, <2>4, <2>5 DEF Next
<1>3. EndingsTrue' BY <1>0, EndingsStep
<1>4. ReportedTrue'
  <2>1. ASSUME NEW r \in reported', r \in reported
        PROVE  r.turn \in 1..Len(turns') /\ turns'[r.turn].task = r.task
    <3>1. r.turn \in 1..Len(turns) /\ turns[r.turn].task = r.task
      BY <1>0, <2>1 DEF ReportedTrue
    <3>2. turns'[r.turn].task = turns[r.turn].task BY <3>1, TurnsKept
    <3>3. Len(turns') \in Nat /\ Len(turns') >= Len(turns) BY TurnsKept
    <3> QED BY <1>0, <3>1, <3>2, <3>3
  <2>2. ASSUME NEW r \in reported', r \notin reported
        PROVE  r.turn \in 1..Len(turns') /\ turns'[r.turn].task = r.task
    <3>1. PICK t \in 1..Len(turns) : turns[t].task = w.prompt /\ Told(t) BY <1>2, <2>2
    <3>2. r.turn = t /\ r.task = w.prompt BY <2>2, <3>1 DEF Told
    <3>3. turns'[t].task = turns[t].task BY <3>1, TurnsKept
    <3>4. Len(turns') \in Nat /\ Len(turns') >= Len(turns) BY TurnsKept
    <3> QED BY <1>0, <3>1, <3>2, <3>3, <3>4
  <2> QED BY <2>1, <2>2 DEF ReportedTrue
<1>5. Counted'
  <2>1. ASSUME NEW i \in 1..Len(turns')
        PROVE  turns'[i].thread <= threads /\ turns'[i].client <= minted
    <3>1. CASE i \in 1..Len(turns)
      BY <1>0, <3>1, TurnsKept DEF Counted
    <3>2. CASE i \notin 1..Len(turns)
      <4>1. i = Len(turns) + 1 /\ turns' # turns BY <3>2, TurnsKept
      <4>2. ~\E t \in RunningTurns, o \in Endings : Ended(t, o)
        BY <3>2, EndedMoves
      <4>3. ~ForeignTurn BY DEF ForeignTurn, Fault
      <4>4. ServerAccepts BY <4>1, <4>2, <4>3, TurnMoves
      <4>5. turns'[i].thread = w.m.thread /\ turns'[i].client = w.m.client
        BY <1>0, <4>1, <4>4, AcceptedMoves DEF ServerAccepts, Wired
      <4> QED BY <1>0, <4>5 DEF Own
    <3> QED BY <3>1, <3>2
  <2>2. ASSUME NEW i \in 1..Len(turns')
        PROVE  turns'[i].thread \in Nat /\ turns'[i].client \in Nat
    <3>1. turns'[i] \in Turn BY TypeStep, TurnsKept DEF TypeOK
    <3> QED BY <3>1 DEF Turn
  <2>3. \A i \in 1..Len(turns') : turns'[i].thread <= threads' /\ turns'[i].client <= minted'
    BY <1>0, <2>1, <2>2, Counters
  <2>4. diskOk'
    <3>1. CASE UserStep
      BY <1>0, <3>1 DEF Counted, UserStep, StartConfigured, StartNewConfigured,
          QueueMessage, Configure, SaveAgain, Resume, ClearQueued, PauseTask, Stop, Reset,
          Shutdown, world
    <3>2. CASE WorkerStep
      BY <1>0, <3>2 DEF Counted, WorkerStep, InterruptReply, ConnectReply, CreateReply,
          ResumeReply, ResumeFails, Mark, SubmitReply, SubmitFails, Handover,
          OnTurnStarted, OnError, OnTurnCompleted, OnSystemError, OnDisconnected,
          HandleDeadline, Restart, world
    <3>3. CASE CodexStep \/ MachineStep
      BY <1>0, <3>3 DEF Counted, CodexStep, ServerAccepts, TurnEnds, Notices,
          ThreadBreaks, ForeignTurn, MachineStep, Disconnects, DiskFails, DiskRecovers,
          Crash, Fault, world
    <3> QED BY <3>1, <3>2, <3>3 DEF Next
  <2>5. w'.pc = "down" => disk'.state = Fresh
    <3>1. CASE Shutdown
      <4>1. disk' = [disk EXCEPT !.state = ClearSession(w.m), !.digest = w.prompt]
        BY <1>0, <3>1 DEF Shutdown, SaveState, Counted
      <4>2. disk'.state = ClearSession(w.m) BY <4>1 DEF TypeOK, Disk
      <4> QED BY <4>2 DEF ClearSession
    <3>2. CASE w' = w /\ (CodexStep \/ MachineStep)
      BY <1>0, <3>2 DEF Counted, CodexStep, ServerAccepts, TurnEnds, Notices,
          ThreadBreaks, ForeignTurn, MachineStep, Disconnects, DiskFails, DiskRecovers,
          Crash, Fault
    <3>3. CASE Mark
      <4>1. w'.pc \in {"submit", "loop"} BY <3>3, SubmissionMoves DEF Looks
      <4> QED BY <4>1
    <3>4. ~Crash BY DEF Crash, Fault
    <3> QED BY <3>1, <3>2, <3>3, <3>4, PlacesOnly
  <2> QED BY <2>3, <2>4, <2>5 DEF Counted
<1>6. CASE ~ServerAccepts
  <2>1. /\ Len(turns') = Len(turns)
        /\ \A thread, i : LatestIn(thread, i) <=> LatestIn(thread, i)'
        /\ \A i \in 1..Len(turns) : turns'[i].task = turns[i].task
        /\ \A thread : Quiet(thread) => Quiet(thread)'
        /\ \A p, thread, turn, client :
             Serves(p, thread, turn, client) => Serves(p, thread, turn, client)'
    BY <1>6, ServesKept
  <2>2. Own(w, minted, threads)'
    BY <1>1, <2>1 DEF Own, Stage
  <2>3. Wired'
    <3>1. CASE Mark
      <4>1. /\ Looks(w', "submit", w.started, w.connected, w.prompt)
            /\ Has(w'.m, w.m.phase, w.m.thread, w.m.turn, TRUE, minted + 1,
                   w.m.followUp, w.m.queued)
            /\ wire' = [client |-> minted + 1, thread |-> w.m.thread,
                        task |-> w.prompt, turn |-> 0,
                        kind |-> IF w.m.followUp THEN "continue" ELSE "original"]
        BY <1>0, <3>1, SubmissionMoves DEF Counted
      <4>2. /\ wire'.client = minted + 1 /\ wire'.thread = w.m.thread
            /\ wire'.task = w.prompt /\ wire'.turn = 0
        BY <4>1
      <4> QED BY <4>1, <4>2 DEF Looks, Has, Wired
    <3>2. CASE ~Mark
      <4>1. /\ wire' = NoRequest \/ wire' = wire
            /\ w'.pc = "submit" => wire' = wire /\ w' = w
        BY <1>6, <3>2, WireMoves
      <4>2. w'.pc = "submit" => /\ wire'.client = w'.m.client /\ wire'.task = w'.prompt
                                /\ wire'.thread = w'.m.thread
        BY <1>0, <4>1 DEF Wired
      <4>3. CASE wire' = NoRequest
        <5>1. wire'.client = 0 /\ wire'.turn = 0 BY <4>3 DEF NoRequest
        <5> QED BY <4>2, <5>1 DEF Wired
      <4>4. CASE wire' = wire
        <5>1. wire.client # 0 => w'.pc = "submit"
          <6>1. SUFFICES ASSUME wire.client # 0 PROVE w'.pc = "submit" OBVIOUS
          <6>2. w.pc = "submit" BY <1>0, <6>1 DEF Wired
          <6>3. ~Crash BY DEF Crash, Fault
          <6>4. ~SubmitReply /\ ~SubmitFails
            <7>1. wire' # NoRequest BY <4>4, <6>1 DEF NoRequest
            <7> QED BY <7>1 DEF SubmitReply, SubmitFails
          <6> QED BY <6>2, <6>3, <6>4, SubmitEnds
        <5>2. wire.turn # 0 =>
                /\ wire.client # 0 /\ LatestIn(wire.thread, wire.turn)'
                /\ turns'[wire.turn].task = wire.task
          <6>1. LatestIn(wire.thread, wire.turn) => wire.turn \in 1..Len(turns)
            BY DEF LatestIn
          <6> QED BY <1>0, <2>1, <4>4, <6>1 DEF Wired
        <5> QED BY <4>2, <4>4, <5>1, <5>2 DEF Wired
      <4> QED BY <4>1, <4>3, <4>4
    <3> QED BY <3>1, <3>2
  <2> QED BY <1>3, <1>4, <1>5, <2>2, <2>3 DEF AnswerInv
<1>7. CASE ServerAccepts
  <2>1. w' = w /\ threads' = threads /\ minted' = minted /\ wire.client # 0 /\ wire.turn = 0
    BY <1>7 DEF ServerAccepts
  <2>2. /\ w.pc = "submit" /\ wire.client = w.m.client /\ wire.task = w.prompt
        /\ wire.thread = w.m.thread /\ w.m.turn = 0
    BY <1>0, <2>1 DEF Wired, Ready
  <2>3. PICK n \in Nat : n = Len(turns) + 1 BY <1>0
  <2>4. Serves(w.prompt, wire.thread, 0, w.m.client)
    BY <1>0, <2>2 DEF Own
  <2>5. PICK p, client, thread : p = w.prompt /\ client = w.m.client /\ thread = wire.thread
    OBVIOUS
  <2>6. LatestIn(wire.thread, n)' /\ Serves(p, wire.thread, 0, client)'
    BY <1>7, <2>2, <2>3, <2>4, <2>5, ServesAdded
  <2>7. /\ turns'[n].task = wire.task /\ wire'.thread = wire.thread
        /\ wire'.client = wire.client /\ wire'.task = wire.task /\ wire'.turn = n
    BY <1>7, <2>3, AcceptedMoves
  <2>8. Serves(w.prompt, w.m.thread, w.m.turn, w.m.client)'
    BY <2>1, <2>2, <2>5, <2>6, <2>7
  <2>9. Own(w, minted, threads)'
    BY <1>0, <2>1, <2>2, <2>8 DEF Own, Stage, Underway, Opening
  <2>10. Wired'
    BY <2>1, <2>2, <2>6, <2>7 DEF Wired
  <2> QED BY <1>3, <1>4, <1>5, <2>9, <2>10 DEF AnswerInv
<1> QED BY <1>6, <1>7

LEMMA InitAnswer == Init => AnswerInv
<1>1. Has(Fresh, "Idle", 0, 0, FALSE, 0, FALSE, NoTask) BY FreshEffect
<1> QED BY <1>1 DEF Init, AnswerInv, Own, Serves, Stage, Quiet, Underway, Opening, EndingsTrue,
                    Wired, Counted, ReportedTrue, Offline, NoRequest, Has

\* What is reported as the answer to a task is the answer of a turn that was started for
\* it, for every set of tasks, through every lost or late answer, timeout, reconnection
\* and unreadable history.  Without any one of the exclusions it is false: a stop
\* without an answer, a crash or a failed save, a second client in the thread, a server
\* that names no submission, and a command that the window does not offer each let a
\* reply of an older task be taken for the new one's.
THEOREM AnswersCorrect ==
  ASSUME {"unoffered", "stop"} \cap Commands = {},
         {"foreign", "oldServer", "disk", "crash"} \cap Faults = {}
  PROVE  Spec => []AnswerBelongsToTask
<1>1. AnswerInv => AnswerBelongsToTask
  BY DEF AnswerInv, ReportedTrue, AnswerBelongsToTask
<1>2. TypeOK /\ ReadyInv /\ AnswerInv /\ [Next]_vars => AnswerInv'
  <2> SUFFICES ASSUME TypeOK, ReadyInv, AnswerInv, UNCHANGED vars
               PROVE  AnswerInv'
    BY AnswerStep
  <2> QED BY DEF vars, AnswerInv, Own, Serves, Stage, Quiet, EndingsTrue, LatestIn,
                 IsLatestTurn, Wired, Counted, ReportedTrue
<1> QED BY <1>1, <1>2, InitAnswer, InitReady, ReadyStep, TypeCorrect, PTL DEF Spec

-----------------------------------------------------------------------------
\* The text of a task goes to a conversation once.

\* Codex has the text of task p in this thread.
SentIn(p, thread) ==
  \E i \in 1..Len(turns) :
    turns[i].thread = thread /\ turns[i].task = p /\ turns[i].kind # "foreign"

\* A text that waits its turn, where the texts of f are not submitted yet.
Unsent(t, f) == t \in Tasks \ f /\ \A thread : ~SentIn(t, thread)

\* Why memory s will not repeat a text that Codex has, where the request on the wire
\* became turn t: the next attempt asks to go on, or there is a turn to wait for, or no
\* attempt follows.
GoesOn(s, t) ==
  \/ s.m.followUp
  \/ /\ s.m.turn # 0 /\ s.pc \in {"loop", "pausing", "expiring"}
     /\ s.m.phase \notin {"Backoff", "Connecting"}
  \/ s.pc = "submit" /\ t # 0
  \/ /\ ~s.started /\ s.pc \in {"loop", "stopping", "replacing", "resetting"}
     /\ s.m.phase \in {"Idle", "Success"}

\* Memory s, when the texts of f are not submitted yet and Codex has created n threads.
Carries(s, f, n, t) ==
  /\ s.m.thread <= n
  /\ s.started \/ s.m.thread # 0 => s.prompt \in Tasks
  /\ s.pc \in Underway => s.started
  /\ s.prompt \notin f
  /\ s.m.queued # NoTask => Unsent(s.m.queued, f) /\ s.m.queued # s.prompt
  /\ s.pc = "replacing" => Unsent(s.incoming, f)
  /\ SentIn(s.prompt, s.m.thread) => GoesOn(s, t)

\* The turns in the history: those of the worker belong to texts that were submitted.
Submitted ==
  /\ \A i \in 1..Len(turns) :
       /\ turns[i].thread <= threads
       /\ turns[i].kind = "foreign" => turns[i].task = NoTask
       /\ turns[i].kind # "foreign" => turns[i].task \in Tasks
  /\ \A t \in fresh : \A thread : ~SentIn(t, thread)

\* The request on the wire is the worker's, as its memory describes it.
Described ==
  /\ wire.client # 0 => w.pc = "submit"
  /\ w.pc = "submit" => /\ wire.task = w.prompt /\ wire.thread = w.m.thread
                        /\ wire.kind = "original" => ~w.m.followUp

NoSystemError == \A k \in 1..Len(events) : events[k].type # "systemError"

\* A worker that was shut down left nothing to restore.
LeftClean == ("disk" \notin Faults => diskOk) /\ (w.pc = "down" => disk.state = Fresh)

VerbatimInv ==
  /\ Carries(w, fresh, threads, wire.turn) /\ Submitted /\ Described
  /\ NoSystemError /\ LeftClean /\ NeverVerbatimTwice

\* A thread without turns has nothing.
LEMMA NothingSent ==
  ASSUME NEW thread, \A i \in 1..Len(turns) : turns[i].thread # thread
  PROVE  \A p : ~SentIn(p, thread)
BY DEF SentIn

\* What a task that is under way may become.
LEMMA CarriesResults ==
  ASSUME TypeOK, NEW r, NEW n \in Nat, NEW thread \in Nat, thread <= n, w.m.thread <= n,
         Carries(w, fresh, threads, wire.turn), w.started,
         SentIn(w.prompt, thread) => w.m.followUp \/ w.m.turn # 0
  PROVE  /\ \A again : /\ w.m.followUp \/ w.m.turn # 0 => again
                       /\ Retries(w, thread, again, r)
                       => Carries(r, fresh, n, 0)
         /\ \A again : /\ SentIn(w.prompt, thread) => again
                       /\ Sends(w, thread, again, r)
                       => Carries(r, fresh, n, 0)
         /\ thread = w.m.thread /\ Reconnects(w, r) => Carries(r, fresh, n, 0)
         /\ \A phase \in {"Paused", "FatalError"} : \A uncertain :
              /\ thread = w.m.thread
              /\ Rests(w, phase, thread, w.m.turn, uncertain, w.m.followUp, w.m.queued, r)
              => Carries(r, fresh, n, 0)
         /\ \A t : t # 0 /\ Watches(w, thread, t, r) => Carries(r, fresh, n, 0)
<1>1. ASSUME NEW again, w.m.followUp \/ w.m.turn # 0 => again, Retries(w, thread, again, r)
      PROVE  Carries(r, fresh, n, 0)
  BY <1>1 DEF Retries, Looks, Has, Carries, GoesOn, Underway, Opening
<1>2. ASSUME NEW again, SentIn(w.prompt, thread) => again, Sends(w, thread, again, r)
      PROVE  Carries(r, fresh, n, 0)
  BY <1>2 DEF Sends, Looks, Has, Carries, GoesOn, Underway, Opening
<1>3. ASSUME thread = w.m.thread, Reconnects(w, r) PROVE Carries(r, fresh, n, 0)
  BY <1>3 DEF Reconnects, Looks, Has, Carries, GoesOn, Underway, Opening
<1>4. ASSUME NEW phase \in {"Paused", "FatalError"}, NEW uncertain, thread = w.m.thread,
             Rests(w, phase, thread, w.m.turn, uncertain, w.m.followUp, w.m.queued, r)
      PROVE  Carries(r, fresh, n, 0)
  BY <1>4 DEF Rests, Looks, Has, Carries, GoesOn, Underway, Opening
<1>5. ASSUME NEW t, t # 0, Watches(w, thread, t, r) PROVE Carries(r, fresh, n, 0)
  BY <1>5 DEF Watches, Looks, Has, Carries, GoesOn, Underway, Opening
<1> QED BY <1>1, <1>2, <1>3, <1>4, <1>5

LEMMA CarriesEnds ==
  ASSUME TypeOK, NEW r, NEW n \in Nat, w.m.thread <= n,
         Carries(w, fresh, threads, wire.turn), w.started,
         SentIn(w.prompt, w.m.thread) => w.m.followUp \/ w.m.turn # 0
  PROVE  /\ \A kind : Fails(w, kind, r) => Carries(r, fresh, n, 0)
         /\ \A outcome : Concludes(w, w.m.thread, outcome, r) => Carries(r, fresh, n, 0)
<1>0. w.m.thread \in Nat BY DEF TypeOK, Memory, Machine
<1>1. ASSUME NEW kind, Fails(w, kind, r) PROVE Carries(r, fresh, n, 0)
  BY <1>0, <1>1, CarriesResults DEF Fails
<1>2. ASSUME NEW outcome, Concludes(w, w.m.thread, outcome, r)
      PROVE  Carries(r, fresh, n, 0)
  <2>1. CASE /\ w.m.queued # NoTask
             /\ Looks(r, "handover", TRUE, w.connected, w.m.queued)
             /\ Has(r.m, "Idle", w.m.thread, 0, FALSE, 0, FALSE, NoTask)
    BY <2>1 DEF Looks, Has, Carries, Unsent, GoesOn, Underway, Opening
  <2>2. CASE Rests(w, "Success", w.m.thread, 0, FALSE, FALSE, NoTask, r)
    BY <2>2 DEF Rests, Looks, Has, Carries, GoesOn, Underway, Opening
  <2>3. CASE Rests(w, "Paused", w.m.thread, w.m.turn, FALSE, w.m.followUp, w.m.queued, r)
    BY <1>0, <2>3, CarriesResults
  <2>4. CASE Retries(w, w.m.thread, w.m.followUp \/ w.m.turn # 0, r)
    BY <1>0, <2>4, CarriesResults
  <2> QED BY <1>2, <2>1, <2>2, <2>3, <2>4 DEF Concludes
<1> QED BY <1>1, <1>2

\* A task that opens with what it owes kept, or with nothing in its thread.
LEMMA CarriesOpening ==
  ASSUME NEW prompt \in Tasks, NEW thread, NEW turn, NEW uncertain, NEW client,
         NEW followUp, NEW queued, NEW f, NEW n, thread <= n, prompt \notin f,
         queued # NoTask => Unsent(queued, f) /\ queued # prompt,
         SentIn(prompt, thread) => followUp,
         Opens(prompt, thread, turn, uncertain, client, followUp, queued)
  PROVE  Carries(w', f, n, 0)
BY DEF Opens, Opening, Has, Carries, GoesOn, Underway

LEMMA CarriesAfresh ==
  ASSUME ReadyInv, NEW prompt \in Tasks, NEW f, NEW n \in Nat, prompt \notin f,
         Opens(prompt, 0, 0, FALSE, 0, FALSE, NoTask)
  PROVE  Carries(w', f, n, 0)
<1>1. ~SentIn(prompt, 0) BY NothingSent DEF ReadyInv, Placed
<1> QED BY <1>1 DEF Opens, Opening, Has, Carries, GoesOn, Underway

\* The user's commands, from the window.
LEMMA CarriesUser ==
  ASSUME "unoffered" \notin Commands, TypeOK, ReadyInv, VerbatimInv, UserStep
  PROVE  Carries(w', fresh', threads, 0)
<1>a. w.pc = "loop"
  BY DEF UserStep, StartConfigured, StartNewConfigured, QueueMessage, Configure, SaveAgain,
         Resume, ClearQueued, PauseTask, Stop, Reset, Shutdown, Asks, Listening
<1>b. /\ w.m.thread \in Nat /\ threads \in Nat /\ fresh \subseteq Tasks
      /\ NoTask \notin Tasks /\ w.prompt \in Prompts /\ w.m.queued \in Prompts
  BY MachineAssumption DEF TypeOK, Memory, Machine, Prompts
<1>0. /\ w.m.thread \in Nat /\ threads \in Nat /\ w.m.thread <= threads /\ w.pc = "loop"
      /\ Carries(w, fresh, threads, wire.turn) /\ fresh \subseteq Tasks /\ NoTask \notin Tasks
      /\ w.prompt \in Prompts /\ w.m.queued \in Prompts
      /\ \A t \in fresh : \A thread : ~SentIn(t, thread)
  BY <1>a, <1>b DEF VerbatimInv, Submitted, Carries
<1>1. \A p : ~SentIn(p, 0)
  BY NothingSent DEF ReadyInv, Placed
<1>2. ASSUME NEW t \in Tasks, fresh' = fresh \ {t}, t \in fresh
      PROVE  /\ Unsent(t, fresh') /\ t \notin fresh' /\ w.prompt \notin fresh'
             /\ w.prompt # t
             /\ w.m.queued # NoTask =>
                  /\ Unsent(w.m.queued, fresh') /\ w.m.queued # w.prompt
                  /\ w.m.queued # t
  BY <1>0, <1>2 DEF Unsent, Carries
<1>3. ASSUME NEW t \in Tasks, StartConfigured(t) PROVE Carries(w', fresh', threads, 0)
  <2>1. t \in fresh /\ fresh' = fresh \ {t} BY <1>3 DEF StartConfigured
  <2>2. PICK client : Opens(t, w.m.thread, 0, FALSE, client, FALSE, w.m.queued)
    BY <1>3, SubmitMoves
  <2>3. ~SentIn(t, w.m.thread) BY <1>0, <2>1
  <2> QED BY <1>0, <1>2, <2>1, <2>2, <2>3, CarriesOpening
<1>4. ASSUME NEW t \in Tasks, StartNewConfigured(t) PROVE Carries(w', fresh', threads, 0)
  <2>1. t \in fresh /\ fresh' = fresh \ {t} BY <1>4 DEF StartNewConfigured
  <2>2. CASE Opens(t, 0, 0, FALSE, 0, FALSE, NoTask)
    BY <1>0, <1>2, <2>1, <2>2, CarriesAfresh
  <2>3. CASE /\ Looks(w', "replacing", FALSE, w.connected, w.prompt)
             /\ Has(w'.m, "Idle", w.m.thread, 0, FALSE, 0, FALSE, w.m.queued)
             /\ w'.incoming = t
    BY <1>0, <1>2, <2>1, <2>3 DEF Looks, Has, Carries, GoesOn, Underway, Opening
  <2> QED BY <1>4, <2>2, <2>3, SubmitMoves
<1>5. ASSUME NEW queued, Looks(w', "loop", w.started, w.connected, w.prompt),
             Has(w'.m, w.m.phase, w.m.thread, w.m.turn, w.m.uncertain, w.m.client,
                 w.m.followUp, queued),
             w.prompt \notin fresh',
             queued # NoTask => Unsent(queued, fresh') /\ queued # w.prompt
      PROVE  Carries(w', fresh', threads, 0)
  BY <1>0, <1>5 DEF Looks, Has, Carries, GoesOn, Underway, Opening
<1>6. ASSUME NEW t \in Tasks, QueueMessage(t) PROVE Carries(w', fresh', threads, 0)
  <2>1. t \in fresh /\ fresh' = fresh \ {t} BY <1>6 DEF QueueMessage
  <2> QED BY <1>0, <1>2, <1>5, <1>6, <2>1, CommandMoves
<1>7. CASE Configure \/ SaveAgain
  <2>1. w' = w /\ fresh' = fresh
    BY <1>7, CommandMoves DEF Configure, SaveAgain
  <2> QED BY <1>0, <2>1 DEF Carries, GoesOn
<1>8. CASE ClearQueued
  <2>1. fresh' = fresh BY <1>8 DEF ClearQueued
  <2> QED BY <1>0, <1>5, <1>8, <2>1, CommandMoves DEF Carries
<1>9. CASE Resume
  <2>1. ~w.started /\ w.m.phase \in {"Paused", "FatalError"} /\ fresh' = fresh
    BY <1>9 DEF Resume, Offered
  <2>2. SentIn(w.prompt, w.m.thread) => w.m.followUp \/ w.m.turn # 0
    BY <1>0, <2>1 DEF Carries, GoesOn
  <2>3. /\ w.prompt \notin fresh
        /\ w.m.queued # NoTask => Unsent(w.m.queued, fresh) /\ w.m.queued # w.prompt
        /\ w.m.thread # 0 => w.prompt \in Tasks
    BY <1>0 DEF Carries
  <2>4. CASE /\ w.m.thread = 0
             /\ Looks(w', "loop", FALSE, w.connected, w.prompt)
             /\ Has(w'.m, "Paused", w.m.thread, w.m.turn, w.m.uncertain, w.m.client,
                    w.m.followUp, w.m.queued)
    BY <1>0, <1>1, <2>1, <2>3, <2>4 DEF Looks, Has, Carries, GoesOn, Underway, Opening
  <2>5. CASE /\ w.prompt # NoTask /\ w.m.thread = 0
             /\ Opens(w.prompt, w.m.thread, w.m.turn, w.m.uncertain, w.m.client,
                      w.m.followUp, w.m.queued)
    <3>1. w.prompt \in Tasks BY <1>0, <2>5 DEF Prompts
    <3>2. ~SentIn(w.prompt, w.m.thread) BY <1>1, <2>5
    <3> QED BY <1>0, <2>1, <2>3, <2>5, <3>1, <3>2, CarriesOpening
  <2>6. CASE /\ w.m.thread # 0
             /\ Opens(w.prompt, w.m.thread, w.m.turn, w.m.uncertain, w.m.client,
                      w.m.followUp \/ w.m.turn # 0, w.m.queued)
    BY <1>0, <2>1, <2>2, <2>3, <2>6, CarriesOpening
  <2> QED BY <1>9, <2>4, <2>5, <2>6, CommandMoves
<1>10. CASE PauseTask
  <2>1. w.started /\ fresh' = fresh BY <1>10 DEF PauseTask, Offered
  <2>2. /\ w'.pc \in {"loop", "pausing"} /\ ~w'.started /\ w'.prompt = w.prompt
        /\ Has(w'.m, "Paused", w.m.thread, w.m.turn, w.m.uncertain, w.m.client,
               w.m.followUp, w.m.queued)
    BY <1>10, CommandMoves
  <2> QED BY <1>0, <2>1, <2>2 DEF Has, Carries, GoesOn, Underway, Opening
<1>11. CASE Stop
  <2>1. fresh' = fresh BY <1>11 DEF Stop
  <2> QED BY <1>0, <1>11, <2>1, CommandMoves DEF Looks, Has, Carries, GoesOn, Underway, Opening
<1>12. CASE Reset
  <2>1. fresh' = fresh BY <1>12 DEF Reset
  <2>2. CASE Looks(w', "resetting", FALSE, w.connected, w.prompt)
             /\ Has(w'.m, "Idle", w.m.thread, 0, FALSE, 0, FALSE, w.m.queued)
    BY <1>0, <2>1, <2>2 DEF Looks, Has, Carries, GoesOn, Underway, Opening
  <2>3. CASE Looks(w', "loop", FALSE, FALSE, NoTask)
             /\ Has(w'.m, "Idle", 0, 0, FALSE, 0, FALSE, NoTask)
    BY <1>0, <1>1, <2>1, <2>3 DEF Looks, Has, Carries, GoesOn, Underway, Opening
  <2> QED BY <1>12, <2>2, <2>3, CommandMoves
<1>13. CASE Shutdown
  <2>1. Looks(w', "down", FALSE, FALSE, NoTask) /\ w'.m = Fresh /\ fresh' = fresh
    BY <1>13, CommandMoves, DownEffect DEF Shutdown
  <2>2. Has(w'.m, "Idle", 0, 0, FALSE, 0, FALSE, NoTask) BY <2>1, FreshEffect
  <2> QED BY <1>0, <1>1, <2>1, <2>2 DEF Looks, Has, Carries, GoesOn, Underway, Opening
<1> QED BY <1>3, <1>4, <1>6, <1>7, <1>8, <1>9, <1>10, <1>11, <1>12, <1>13 DEF UserStep

\* The requests and their answers, where none is lost.
LEMMA CarriesRequest ==
  ASSUME {"timeout", "garbled"} \cap Faults = {}, TypeOK, ReadyInv, VerbatimInv,
         \/ InterruptReply \/ ConnectReply \/ CreateReply \/ ResumeReply \/ ResumeFails
         \/ Mark \/ SubmitReply \/ SubmitFails \/ Handover
  PROVE  Carries(w', fresh, threads', 0)
<1> DEFINE thread == w.m.thread
<1>0. /\ thread \in Nat /\ threads \in Nat /\ thread <= threads
      /\ Carries(w, fresh, threads, wire.turn) /\ fresh \subseteq Tasks /\ NoTask \notin Tasks
  BY MachineAssumption DEF TypeOK, Memory, Machine, VerbatimInv, Carries
<1>1. \A p : ~SentIn(p, 0)
  BY NothingSent DEF ReadyInv, Placed
<1>2. w.pc \in Underway \ {"submit", "expiring"} =>
        w.started /\ (SentIn(w.prompt, thread) => w.m.followUp)
  BY <1>0 DEF Carries, GoesOn, Underway, Opening
<1>f. ASSUME NEW kind, Fails(w, kind, w'), w.pc \in Underway \ {"submit", "expiring"}
      PROVE  Carries(w', fresh, threads, 0)
  BY <1>0, <1>2, <1>f, CarriesEnds
<1>3. CASE InterruptReply
  <2>0. threads' = threads BY <1>3 DEF InterruptReply
  <2>1. CASE /\ w.pc \in {"pausing", "stopping"} /\ w'.m = w.m
              /\ Looks(w', "loop", FALSE, FALSE, w.prompt)
    BY <1>0, <2>0, <2>1 DEF Looks, Carries, GoesOn, Underway, Opening
  <2>2. CASE w.pc = "replacing" /\ Opens(w.incoming, 0, 0, FALSE, 0, FALSE, NoTask)
    <3>1. w.incoming \in Tasks /\ w.incoming \notin fresh
      BY <1>0, <2>2 DEF Carries, Unsent
    <3> QED BY <1>0, <2>0, <2>2, <3>1, CarriesAfresh
  <2>3. CASE Looks(w', "loop", FALSE, FALSE, NoTask)
             /\ Has(w'.m, "Idle", 0, 0, FALSE, 0, FALSE, NoTask)
    BY <1>0, <1>1, <2>0, <2>3 DEF Looks, Has, Carries, GoesOn, Underway, Opening
  <2>4. CASE w.pc = "expiring" /\ Retries(w, w.m.thread, TRUE, w')
    BY <1>0, <2>0, <2>4 DEF Retries, Looks, Has, Carries, GoesOn, Underway, Opening
  <2> QED BY <1>3, <2>1, <2>2, <2>3, <2>4, InterruptMoves
<1>4. CASE ConnectReply
  <2>0. threads' = threads /\ w.pc = "connect"
    BY <1>4 DEF ConnectReply, server
  <2>1. CASE w'.m = w.m /\ Looks(w', IF w.m.thread = 0 THEN "create" ELSE "resume",
                                 w.started, TRUE, w.prompt)
    BY <1>0, <2>0, <2>1 DEF Looks, Carries, GoesOn, Underway, Opening
  <2> QED BY <1>4, <1>f, <2>0, <2>1, SessionMoves DEF Underway, Opening
<1>5. CASE CreateReply
  <2>0. w.pc = "create" BY <1>5 DEF CreateReply
  <2>1. CASE threads' = threads /\ \E kind \in FailureKinds : Fails(w, kind, w')
    BY <1>f, <2>0, <2>1 DEF Underway, Opening
  <2>2. CASE threads' = threads + 1 /\ Session(w, threads + 1, 0, TRUE, w')
    <3> DEFINE n == threads + 1
    <3>1. n \in Nat /\ threads' = n /\ n <= n /\ thread <= n
      BY <1>0, <2>2
    <3>2. \A i \in 1..Len(turns) : turns[i].thread # n
      <4>1. \A i \in 1..Len(turns) : turns[i].thread <= threads
        BY DEF VerbatimInv, Submitted
      <4> QED BY <1>0, <4>1
    <3>3. Session(w, n, 0, TRUE, w') BY <2>2
    <3> HIDE DEF n
    <3>4. \/ Retries(w, n, w.m.followUp \/ w.m.turn # 0, w')
          \/ Sends(w, n, w.m.followUp, w')
      BY <3>3 DEF Session
    <3>5. ~SentIn(w.prompt, n) BY <3>2, NothingSent
    <3>6. w.started BY <1>2, <2>0 DEF Underway, Opening
    <3>7. Carries(w', fresh, n, 0) BY <1>0, <3>1, <3>4, <3>5, <3>6, CarriesResults
    <3> QED BY <3>1, <3>7
  <2> QED BY <1>5, <2>1, <2>2, SessionMoves
<1>6. CASE ResumeReply
  <2>0. threads' = threads /\ w.pc = "resume" BY <1>6 DEF ResumeReply, server
  <2>1. PICK latest \in 0..Len(turns), reports \in BOOLEAN :
          Session(w, thread, latest, reports, w')
    BY <1>6, SessionMoves
  <2>2. w.started /\ (SentIn(w.prompt, thread) => w.m.followUp)
    BY <1>2, <2>0 DEF Underway, Opening
  <2> HIDE DEF thread
  <2>3. \/ \E again : /\ w.m.followUp => again
                      /\ Sends(w, thread, again, w')
        \/ latest # 0 /\ Watches(w, thread, latest, w')
        \/ Retries(w, thread, w.m.followUp \/ w.m.turn # 0, w')
        \/ Retries(w, thread, w.m.followUp, w')
        \/ \E outcome : Concludes(w, thread, outcome, w')
    BY <2>1 DEF Session
  <2>4. CASE Retries(w, thread, w.m.followUp, w')
    BY <1>0, <2>0, <2>2, <2>4 DEF Retries, Looks, Has, Carries, GoesOn, Underway, Opening, thread
  <2>5. CASE \E outcome : Concludes(w, thread, outcome, w')
    BY <1>0, <2>0, <2>2, <2>5, CarriesEnds DEF thread
  <2> QED BY <1>0, <2>0, <2>2, <2>3, <2>4, <2>5, CarriesResults DEF thread
<1>7. CASE ResumeFails
  <2>0. threads' = threads /\ w.pc = "resume"
    BY <1>7 DEF ResumeFails, server
  <2>1. CASE Looks(w', "create", w.started, w.connected, w.prompt)
             /\ Has(w'.m, w.m.phase, 0, 0, FALSE, w.m.client, FALSE, w.m.queued)
    BY <1>0, <1>1, <2>0, <2>1 DEF Looks, Has, Carries, GoesOn, Underway, Opening
  <2> QED BY <1>7, <1>f, <2>0, <2>1, SessionMoves DEF Underway, Opening
<1>8. CASE Mark
  <2>0. threads' = threads /\ w.pc \in {"mark", "markQueued"} BY <1>8 DEF Mark
  <2>1. w.started /\ (SentIn(w.prompt, thread) => w.m.followUp)
    BY <1>2, <2>0 DEF Underway
  <2>2. CASE Looks(w', "submit", w.started, w.connected, w.prompt)
             /\ Has(w'.m, w.m.phase, w.m.thread, w.m.turn, TRUE, minted + 1,
                    w.m.followUp, w.m.queued)
    BY <1>0, <2>0, <2>1, <2>2 DEF Looks, Has, Carries, GoesOn, Underway, Opening
  <2>3. CASE /\ w'.pc = "loop" /\ ~w'.started /\ w'.prompt = w.prompt
             /\ Has(w'.m, "Paused", w.m.thread, w.m.turn, FALSE, minted + 1,
                    w.m.followUp, w.m.queued)
    BY <1>0, <2>0, <2>1, <2>3 DEF Has, Carries, GoesOn, Underway, Opening
  <2> QED BY <1>8, <2>2, <2>3, SubmissionMoves
<1>9. CASE SubmitReply
  <2>0. threads' = threads /\ w.pc = "submit" BY <1>9 DEF SubmitReply
  <2>1. wire.turn # 0 /\ Watches(w, w.m.thread, wire.turn, w')
    BY <1>9, SubmissionMoves
  <2> QED BY <1>0, <2>0, <2>1 DEF Watches, Looks, Has, Carries, GoesOn, Underway, Opening
<1>10. CASE SubmitFails
  <2>0. threads' = threads /\ w.pc = "submit" BY <1>10 DEF SubmitFails
  <2>1. PICK kind \in FailureKinds \ {"notFound"} :
          /\ Fails(w, kind, w')
          /\ kind = "process" => "timeout" \in Faults
          /\ kind = "protocol" => "garbled" \in Faults /\ wire.turn # 0
          /\ kind \in {"rpcPause", "rpcRetry"} => wire.turn = 0
    BY <1>10, SubmissionMoves
  <2>2. wire.turn = 0 BY <2>1 DEF FailureKinds
  <2>3. w.started /\ (SentIn(w.prompt, thread) => w.m.followUp)
    BY <1>0, <2>0, <2>2 DEF Carries, GoesOn, Underway
  <2> QED BY <1>0, <2>0, <2>1, <2>3, CarriesEnds
<1>11. CASE Handover
  <2>0. threads' = threads /\ w.pc = "handover"
    BY <1>11 DEF Handover, server
  <2>1. w.started /\ (SentIn(w.prompt, thread) => w.m.followUp)
    BY <1>2, <2>0 DEF Underway
  <2>2. Looks(w', "markQueued", w.started, w.connected, w.prompt)
        /\ Has(w'.m, "Sending", w.m.thread, 0, FALSE, w.m.client, w.m.followUp, w.m.queued)
    BY <1>11, <2>1, SubmissionMoves
  <2> QED BY <1>0, <2>0, <2>1, <2>2 DEF Looks, Has, Carries, GoesOn, Underway, Opening
<1> QED BY <1>3, <1>4, <1>5, <1>6, <1>7, <1>8, <1>9, <1>10, <1>11

\* What the connection says.
LEMMA CarriesEvent ==
  ASSUME TypeOK, ReadyInv, VerbatimInv,
         OnTurnStarted \/ OnError \/ OnTurnCompleted \/ OnSystemError \/ OnDisconnected
  PROVE  Carries(w', fresh, threads, 0)
<1> DEFINE t == Head(events).turn
           again == w.m.followUp \/ w.m.turn # 0
<1>1. w.pc = "loop" /\ w.started /\ w.connected /\ events # << >>
  BY DEF OnTurnStarted, OnError, OnTurnCompleted, OnSystemError, OnDisconnected, Hears,
         Listening
<1>2. /\ w.m.thread \in Nat /\ threads \in Nat /\ w.m.thread <= threads
      /\ Carries(w, fresh, threads, wire.turn)
  BY DEF TypeOK, Memory, Machine, VerbatimInv, Carries
<1>3. SentIn(w.prompt, w.m.thread) => w.m.followUp \/ w.m.turn # 0
  BY <1>1, <1>2 DEF Carries, GoesOn
<1>4. Head(events).type # "systemError"
  BY <1>1, HeardEvent DEF VerbatimInv, NoSystemError
<1>5. ASSUME w' = w PROVE Carries(w', fresh, threads, 0)
  BY <1>1, <1>2, <1>5 DEF Carries, GoesOn
<1>6. CASE OnTurnStarted
  <2>0. t \in 1..Len(turns) /\ t # 0
    BY <1>1, <1>6, HeardEvent DEF OnTurnStarted, Hears, TypeOK
  <2>1. ASSUME Watches(w, w.m.thread, t, w') PROVE Carries(w', fresh, threads, 0)
    <3> HIDE DEF t
    <3> QED BY <1>1, <1>2, <1>3, <2>0, <2>1, CarriesResults
  <2> QED BY <1>5, <1>6, <2>1, EventMoves
<1>7. CASE OnError
  <2>0. t \in 1..Len(turns) /\ t # 0
    BY <1>1, <1>7, HeardEvent DEF OnError, Hears, TypeOK
  <2>1. ASSUME /\ MatchesActive
               /\ Looks(w', "loop", w.started, w.connected, w.prompt)
               /\ Has(w'.m, "Waiting", w.m.thread, w.m.turn, w.m.uncertain,
                      w.m.client, w.m.followUp, w.m.queued)
        PROVE  Carries(w', fresh, threads, 0)
    <3>1. w.m.turn # 0 BY <2>0, <2>1 DEF MatchesActive
    <3> HIDE DEF t
    <3> QED BY <1>1, <1>2, <2>1, <3>1
            DEF Looks, Has, Carries, GoesOn, Underway, Opening
  <2>2. ASSUME Retries(w, w.m.thread, again, w')
        PROVE  Carries(w', fresh, threads, 0)
    BY <1>1, <1>2, <1>3, <2>2, CarriesResults
  <2>3. ASSUME Rests(w, "Paused", w.m.thread, w.m.turn, w.m.uncertain,
                     w.m.followUp, w.m.queued, w')
        PROVE  Carries(w', fresh, threads, 0)
    BY <1>1, <1>2, <1>3, <2>3, CarriesResults
  <2> QED BY <1>5, <1>7, <2>1, <2>2, <2>3, EventMoves
<1>8. CASE OnTurnCompleted
  <2>1. ASSUME NEW outcome, Concludes(w, w.m.thread, outcome, w')
        PROVE  Carries(w', fresh, threads, 0)
    BY <1>1, <1>2, <1>3, <2>1, CarriesEnds
  <2> QED BY <1>5, <1>8, <2>1, EventMoves
<1>9. ~OnSystemError
  BY <1>4 DEF OnSystemError, Hears
<1>10. CASE OnDisconnected
  <2>1. ASSUME /\ w.m.phase = "Backoff" /\ w'.m = w.m
               /\ Looks(w', "loop", w.started, FALSE, w.prompt)
        PROVE  Carries(w', fresh, threads, 0)
    BY <1>1, <1>2, <2>1 DEF Looks, Carries, GoesOn, Underway, Opening
  <2>2. ASSUME Reconnects(w, w')
        PROVE  Carries(w', fresh, threads, 0)
    BY <1>1, <1>2, <1>3, <2>2, CarriesResults
  <2> QED BY <1>10, <2>1, <2>2, EventMoves
<1> QED BY <1>6, <1>7, <1>8, <1>9, <1>10

\* The timer, and a start of Longwatch that finds nothing to restore.
LEMMA CarriesElse ==
  ASSUME TypeOK, ReadyInv, VerbatimInv, HandleDeadline \/ Restart
  PROVE  Carries(w', fresh, threads, 0)
<1>0. /\ w.m.thread \in Nat /\ threads \in Nat /\ w.m.thread <= threads
      /\ Carries(w, fresh, threads, wire.turn)
  BY DEF TypeOK, Memory, Machine, VerbatimInv, Carries
<1>1. CASE HandleDeadline
  <2>1. w.pc = "loop" /\ w.started BY <1>1, TimerMoves
  <2>2. CASE /\ w.m.phase \in {"Backoff", "Connecting"} \/ w.m.turn = 0
             /\ Ensures(w, w')
    <3>1. SentIn(w.prompt, w.m.thread) => w.m.followUp
      BY <1>0, <2>1, <2>2 DEF Carries, GoesOn
    <3> QED BY <1>0, <2>1, <2>2, <3>1
            DEF Ensures, Looks, Has, Carries, GoesOn, Underway, Opening
  <2>3. CASE w'.m = w.m /\ Looks(w', "expiring", w.started, w.connected, w.prompt)
    BY <1>0, <2>1, <2>3 DEF Looks, Carries, GoesOn, Underway, Opening
  <2> QED BY <1>1, <2>2, <2>3, TimerMoves
<1>2. CASE Restart
  <2>0. disk.state = Fresh BY <1>2 DEF Restart, VerbatimInv, LeftClean
  <2>1. Fresh.phase = "Idle" /\ Fresh.turn = 0 /\ Fresh.uncertain = FALSE
        /\ Fresh.queued = NoTask
    BY DEF Fresh
  <2>2. ~RequiresRecovery(disk.state) /\ ~PickedUp(disk.state)
    BY <2>0, <2>1 DEF RequiresRecovery, PickedUp, Running
  <2>3. w'.m = Fresh /\ Looks(w', "loop", FALSE, FALSE, NoTask)
    BY <1>2, <2>2 DEF Restart, Restored, Offline, Looks
  <2>4. Has(w'.m, "Idle", 0, 0, FALSE, 0, FALSE, NoTask) BY <2>3, FreshEffect
  <2>5. ~SentIn(NoTask, 0) BY NothingSent DEF ReadyInv, Placed
  <2>6. NoTask \notin fresh BY MachineAssumption DEF TypeOK
  <2> QED BY <1>0, <2>3, <2>4, <2>5, <2>6
          DEF Looks, Has, Carries, GoesOn, Underway, Opening
<1> QED BY <1>1, <1>2

\* What a step makes of the texts that Codex has.
LEMMA SentKept ==
  ASSUME TypeOK, Next, ~ServerAccepts
  PROVE  \A p, thread : SentIn(p, thread)' <=> SentIn(p, thread)
<1>1. ASSUME NEW p, NEW thread PROVE SentIn(p, thread)' <=> SentIn(p, thread)
  <2>1. CASE turns' = turns BY <2>1 DEF SentIn
  <2>2. CASE \E t \in RunningTurns, o \in Endings : Ended(t, o)
    <3>1. PICK t \in RunningTurns, o \in Endings : Ended(t, o) BY <2>2
    <3> QED BY <3>1, EndedMoves DEF SentIn
  <2>3. CASE ForeignTurn
    <3> DEFINE u == [thread |-> w.m.thread, client |-> 0, task |-> NoTask,
                     kind |-> "foreign", outcome |-> "running"]
    <3>1. u \in Turn
      BY DEF TypeOK, Memory, Machine, Turn, Outcomes, Prompts
    <3>2. turns' = Append(turns, u) BY <2>3 DEF ForeignTurn
    <3>3. u.outcome = "running" /\ u.kind = "foreign" OBVIOUS
    <3> HIDE DEF u
    <3>4. /\ Len(turns') = Len(turns) + 1 /\ Len(turns) \in Nat
          /\ turns'[Len(turns) + 1].kind = "foreign"
          /\ \A i \in 1..Len(turns) : turns'[i] = turns[i]
      BY <3>1, <3>2, <3>3, AddedMoves
    <3>5. \A i \in 1..Len(turns') : turns'[i].kind # "foreign" => i \in 1..Len(turns)
      BY <3>4
    <3> QED BY <3>4, <3>5 DEF SentIn
  <2> QED BY <2>1, <2>2, <2>3, TurnMoves
<1> QED BY <1>1

LEMMA SentAdded ==
  ASSUME TypeOK, ServerAccepts
  PROVE  \A p, thread :
           SentIn(p, thread)' => SentIn(p, thread) \/ (p = wire.task /\ thread = wire.thread)
<1>1. ASSUME NEW p, NEW thread, SentIn(p, thread)'
      PROVE  SentIn(p, thread) \/ (p = wire.task /\ thread = wire.thread)
  <2>1. PICK i \in 1..Len(turns') :
          turns'[i].thread = thread /\ turns'[i].task = p /\ turns'[i].kind # "foreign"
    BY <1>1 DEF SentIn
  <2>2. CASE i \in 1..Len(turns)
    BY <2>1, <2>2, AcceptedMoves DEF SentIn
  <2>3. CASE i \notin 1..Len(turns)
    <3>1. i = Len(turns) + 1 BY <2>1, <2>3, AcceptedMoves
    <3> QED BY <2>1, <3>1, AcceptedMoves
  <2> QED BY <2>2, <2>3
<1> QED BY <1>1

\* Texts are only ever taken from the user.
LEMMA FreshMoves ==
  ASSUME Next
  PROVE  fresh' \subseteq fresh /\ (~UserStep => fresh' = fresh)
<1>1. CASE UserStep
  <2>1. ASSUME NEW t, StartConfigured(t) \/ StartNewConfigured(t) \/ QueueMessage(t)
        PROVE  fresh' \subseteq fresh
    BY <2>1 DEF StartConfigured, StartNewConfigured, QueueMessage
  <2>2. CASE Configure \/ SaveAgain \/ Resume \/ ClearQueued \/ PauseTask \/ Stop \/ Reset
             \/ Shutdown
    BY <2>2 DEF Configure, SaveAgain, Resume, ClearQueued, PauseTask, Stop, Reset, Shutdown
  <2> QED BY <1>1, <2>1, <2>2 DEF UserStep
<1>2. CASE WorkerStep
  <2>1. fresh' = fresh
    BY <1>2 DEF WorkerStep, InterruptReply, ConnectReply, CreateReply, ResumeReply,
                ResumeFails, Mark, SubmitReply, SubmitFails, Handover, OnTurnStarted,
                OnError, OnTurnCompleted, OnSystemError, OnDisconnected, HandleDeadline,
                Restart
  <2> QED BY <2>1
<1>3. CASE CodexStep \/ MachineStep
  <2>1. fresh' = fresh
    BY <1>3 DEF CodexStep, ServerAccepts, TurnEnds, Notices, ThreadBreaks, ForeignTurn,
                MachineStep, Disconnects, DiskFails, DiskRecovers, Crash
  <2> QED BY <2>1
<1> QED BY <1>1, <1>2, <1>3 DEF Next

\* What every step leaves in memory.
LEMMA CarriesMoves ==
  ASSUME "unoffered" \notin Commands, {"timeout", "garbled", "crash"} \cap Faults = {},
         TypeOK, ReadyInv, VerbatimInv, Next
  PROVE  \/ Carries(w', fresh', threads', 0)
         \/ ~Mark /\ w' = w /\ fresh' = fresh /\ threads' = threads
<1>1. CASE UserStep
  <2>1. threads' = threads
    BY <1>1 DEF UserStep, StartConfigured, StartNewConfigured, QueueMessage, Configure,
                SaveAgain, Resume, ClearQueued, PauseTask, Stop, Reset, Shutdown, server
  <2> QED BY <1>1, <2>1, CarriesUser
<1>2. CASE \/ InterruptReply \/ ConnectReply \/ CreateReply \/ ResumeReply \/ ResumeFails
           \/ Mark \/ SubmitReply \/ SubmitFails \/ Handover
  <2>1. Carries(w', fresh, threads', 0) BY <1>2, CarriesRequest
  <2>2. fresh' = fresh
    BY <1>2 DEF InterruptReply, ConnectReply, CreateReply, ResumeReply, ResumeFails, Mark,
                SubmitReply, SubmitFails, Handover
  <2> QED BY <2>1, <2>2
<1>3. CASE OnTurnStarted \/ OnError \/ OnTurnCompleted \/ OnSystemError \/ OnDisconnected
  <2>1. Carries(w', fresh, threads, 0) BY <1>3, CarriesEvent
  <2>2. fresh' = fresh /\ threads' = threads
    BY <1>3 DEF OnTurnStarted, OnError, OnTurnCompleted, OnSystemError, OnDisconnected,
                server
  <2> QED BY <2>1, <2>2
<1>4. CASE HandleDeadline \/ Restart
  <2>1. Carries(w', fresh, threads, 0) BY <1>4, CarriesElse
  <2>2. fresh' = fresh /\ threads' = threads
    BY <1>4 DEF HandleDeadline, Restart, server
  <2> QED BY <2>1, <2>2
<1>5. CASE CodexStep \/ MachineStep
  <2>1. w' = w /\ fresh' = fresh /\ threads' = threads
    BY <1>5 DEF CodexStep, ServerAccepts, TurnEnds, Notices, ThreadBreaks, ForeignTurn,
                MachineStep, Disconnects, DiskFails, DiskRecovers, Crash, Fault, server
  <2>2. minted' = minted
    BY <1>5 DEF CodexStep, ServerAccepts, TurnEnds, Notices, ThreadBreaks, ForeignTurn,
                MachineStep, Disconnects, DiskFails, DiskRecovers, Crash, server
  <2>3. ~Mark BY <2>2 DEF Mark, TypeOK
  <2> QED BY <2>1, <2>3
<1> QED BY <1>1, <1>2, <1>3, <1>4, <1>5 DEF Next, WorkerStep

\* The memory after a step, among the turns after it.
LEMMA CarriesStep ==
  ASSUME TypeOK, ReadyInv, VerbatimInv, Next,
         \/ Carries(w', fresh', threads', 0)
         \/ ~Mark /\ w' = w /\ fresh' = fresh /\ threads' = threads
  PROVE  Carries(w, fresh, threads, wire.turn)'
<1>0. Carries(w, fresh, threads, wire.turn) BY DEF VerbatimInv
<1>1. CASE ServerAccepts
  <2>1. w' = w /\ threads' = threads /\ fresh' = fresh /\ wire.client # 0
    BY <1>1 DEF ServerAccepts
  <2>2. w.pc = "submit" /\ wire.task = w.prompt /\ wire.thread = w.m.thread
    BY <2>1 DEF VerbatimInv, Described
  <2>3. wire'.turn # 0 BY <1>1, AcceptedMoves
  <2>4. \A p, thread : SentIn(p, thread)' => SentIn(p, thread) \/ p = w.prompt
    BY <1>1, <2>2, SentAdded
  <2>5. w.m.queued # NoTask => Unsent(w.m.queued, fresh)' /\ w.m.queued # w.prompt
    BY <1>0, <2>1, <2>4 DEF Carries, Unsent
  <2> QED BY <1>0, <2>1, <2>2, <2>3, <2>5 DEF Carries, GoesOn
<1>2. CASE ~ServerAccepts
  <2>1. \A p, thread : SentIn(p, thread)' <=> SentIn(p, thread) BY <1>2, SentKept
  <2>2. \A t, f : Unsent(t, f)' <=> Unsent(t, f) BY <2>1 DEF Unsent
  <2>3. CASE Carries(w', fresh', threads', 0)
    BY <2>1, <2>2, <2>3 DEF Carries, GoesOn
  <2>4. CASE ~Mark /\ w' = w /\ fresh' = fresh /\ threads' = threads
    <3>1. w.pc = "submit" => wire' = wire BY <1>2, <2>4, WireMoves
    <3> QED BY <1>0, <2>1, <2>2, <2>4, <3>1 DEF Carries, GoesOn
  <2> QED BY <2>3, <2>4
<1> QED BY <1>1, <1>2

\* The history after a step.
LEMMA SubmittedStep ==
  ASSUME TypeOK, ReadyInv, VerbatimInv, Next
  PROVE  Submitted' /\ NeverVerbatimTwice'
<1>0. /\ Len(turns) \in Nat /\ threads \in Nat /\ w.m.thread \in Nat /\ Submitted
      /\ NeverVerbatimTwice /\ w.m.thread <= threads /\ NoTask \notin Tasks
      /\ Carries(w, fresh, threads, wire.turn)
  BY MachineAssumption DEF TypeOK, Memory, Machine, VerbatimInv, Carries
<1> DEFINE n == Len(turns) + 1
<1>1. threads' \in {threads, threads + 1} /\ fresh' \subseteq fresh
  BY Counters, FreshMoves
<1>2. /\ Len(turns') \in Nat
      /\ \A i \in 1..Len(turns) :
           /\ turns'[i].thread = turns[i].thread /\ turns'[i].task = turns[i].task
           /\ turns'[i].kind = turns[i].kind
      /\ \A i \in 1..Len(turns') : i \in 1..Len(turns) \/ i = n
  BY TurnsKept
<1>3. ASSUME NEW i \in 1..Len(turns), turns'[i].thread \in Nat
      PROVE  /\ turns'[i].thread <= threads'
             /\ turns'[i].kind = "foreign" => turns'[i].task = NoTask
             /\ turns'[i].kind # "foreign" => turns'[i].task \in Tasks
  BY <1>0, <1>1, <1>2, <1>3 DEF Submitted
<1>4. ASSUME NEW i \in 1..Len(turns'), NEW j \in 1..Len(turns), i < j,
             turns'[i].thread = turns'[j].thread, turns'[i].task = turns'[j].task,
             turns'[i].kind # "foreign"
      PROVE  turns'[j].kind = "continue"
  <2>1. i \in 1..Len(turns) BY <1>0, <1>2, <1>4
  <2> QED BY <1>0, <1>2, <1>4, <2>1 DEF NeverVerbatimTwice
<1>5. \A i \in 1..Len(turns') : turns'[i].thread \in Nat
  <2>1. ASSUME NEW i \in 1..Len(turns') PROVE turns'[i].thread \in Nat
    <3>1. turns'[i] \in Turn BY TypeStep DEF TypeOK
    <3> QED BY <3>1 DEF Turn
  <2> QED BY <2>1
<1>6. CASE ServerAccepts
  <2>1. threads' = threads /\ wire.client # 0 /\ wire.turn = 0 /\ fresh' = fresh
    BY <1>6 DEF ServerAccepts
  <2>2. /\ w.pc = "submit" /\ wire.task = w.prompt /\ wire.thread = w.m.thread
        /\ wire.kind = "original" => ~w.m.followUp
    BY <2>1 DEF VerbatimInv, Described
  <2>3. /\ Len(turns') = n /\ turns'[n].thread = w.m.thread /\ turns'[n].task = w.prompt
        /\ turns'[n].kind = wire.kind
    BY <1>6, <2>2, AcceptedMoves
  <2>4. wire.kind \in {"original", "continue"} BY DEF TypeOK, Request
  <2>5. w.prompt \in Tasks /\ w.prompt \notin fresh
    BY <1>0, <2>2 DEF Carries, Underway
  <2>6. \A i \in 1..Len(turns') :
          /\ turns'[i].thread <= threads'
          /\ turns'[i].kind = "foreign" => turns'[i].task = NoTask
          /\ turns'[i].kind # "foreign" => turns'[i].task \in Tasks
    BY <1>0, <1>2, <1>3, <1>5, <2>1, <2>3, <2>4, <2>5
  <2>7. \A t \in fresh' : \A thread : ~SentIn(t, thread)'
    BY <1>0, <1>6, <2>1, <2>2, <2>5, SentAdded DEF Submitted
  <2>8. ASSUME NEW i \in 1..Len(turns'), i < n, turns'[i].thread = turns'[n].thread,
               turns'[i].task = turns'[n].task, turns'[i].kind # "foreign"
        PROVE  turns'[n].kind = "continue"
    <3>1. i \in 1..Len(turns) BY <1>0, <1>2, <2>8
    <3>2. SentIn(w.prompt, w.m.thread) BY <1>2, <2>3, <2>8, <3>1 DEF SentIn
    <3>3. w.m.followUp BY <1>0, <2>1, <2>2, <3>2 DEF Carries, GoesOn, Underway
    <3> QED BY <2>2, <2>3, <2>4, <3>3
  <2> QED BY <1>2, <1>4, <2>6, <2>7, <2>8 DEF Submitted, NeverVerbatimTwice
<1>7. CASE ~ServerAccepts
  <2>1. \A t \in fresh' : \A thread : ~SentIn(t, thread)'
    BY <1>0, <1>1, <1>7, SentKept DEF Submitted
  <2>2. CASE ForeignTurn
    <3>1. turns' = Append(turns, [thread |-> w.m.thread, client |-> 0, task |-> NoTask,
                                  kind |-> "foreign", outcome |-> "running"])
          /\ threads' = threads
      BY <2>2 DEF ForeignTurn
    <3>2. /\ Len(turns') = n /\ turns'[n].thread = w.m.thread /\ turns'[n].task = NoTask
          /\ turns'[n].kind = "foreign"
      BY <1>0, <3>1 DEF TypeOK
    <3>3. \A i \in 1..Len(turns') :
            /\ turns'[i].thread <= threads'
            /\ turns'[i].kind = "foreign" => turns'[i].task = NoTask
            /\ turns'[i].kind # "foreign" => turns'[i].task \in Tasks
      BY <1>0, <1>2, <1>3, <1>5, <3>1, <3>2
    <3>4. \A i \in 1..Len(turns') :
            turns'[i].kind # "foreign" => turns'[i].task # turns'[n].task
      BY <1>0, <3>2, <3>3
    <3> QED BY <1>2, <1>4, <2>1, <3>3, <3>4 DEF Submitted, NeverVerbatimTwice
  <2>3. CASE Len(turns') = Len(turns)
    BY <1>3, <1>4, <1>5, <2>1, <2>3 DEF Submitted, NeverVerbatimTwice
  <2>4. turns' = turns \/ (\E t \in RunningTurns, o \in Endings : Ended(t, o))
          => Len(turns') = Len(turns)
    BY EndedMoves
  <2> QED BY <1>7, <2>2, <2>3, <2>4, TurnMoves
<1> QED BY <1>6, <1>7

LEMMA VerbatimStep ==
  ASSUME "unoffered" \notin Commands,
         {"timeout", "garbled", "system", "crash"} \cap Faults = {},
         "disk" \notin Faults \/ "shutdown" \notin Commands,
         TypeOK, ReadyInv, VerbatimInv, Next
  PROVE  VerbatimInv'
<1>1. Carries(w, fresh, threads, wire.turn)' BY CarriesMoves, CarriesStep
<1>2. Submitted' /\ NeverVerbatimTwice' BY SubmittedStep
<1>3. NoSystemError'
  <2>1. ASSUME NEW k \in 1..Len(events') PROVE events'[k].type # "systemError"
    <3>1. CASE \E j \in 1..Len(events) : events'[k] = events[j]
      BY <3>1 DEF VerbatimInv, NoSystemError
    <3> QED BY <3>1, EventsMade
  <2> QED BY <2>1 DEF NoSystemError
<1>4. LeftClean'
  <2>1. "disk" \notin Faults => diskOk'
    <3>1. CASE UserStep
      BY <3>1 DEF VerbatimInv, LeftClean, UserStep, StartConfigured, StartNewConfigured,
          QueueMessage, Configure, SaveAgain, Resume, ClearQueued, PauseTask, Stop, Reset,
          Shutdown, world
    <3>2. CASE WorkerStep
      BY <3>2 DEF VerbatimInv, LeftClean, WorkerStep, InterruptReply, ConnectReply,
          CreateReply, ResumeReply, ResumeFails, Mark, SubmitReply, SubmitFails, Handover,
          OnTurnStarted, OnError, OnTurnCompleted, OnSystemError, OnDisconnected,
          HandleDeadline, Restart, world
    <3>3. CASE CodexStep \/ MachineStep
      BY <3>3 DEF VerbatimInv, LeftClean, CodexStep, ServerAccepts, TurnEnds, Notices,
          ThreadBreaks, ForeignTurn, MachineStep, Disconnects, DiskFails, DiskRecovers,
          Crash, Fault, world
    <3> QED BY <3>1, <3>2, <3>3 DEF Next
  <2>2. w'.pc = "down" => disk'.state = Fresh
    <3>1. CASE Shutdown
      <4>1. diskOk
        <5>1. "shutdown" \in Commands BY <3>1 DEF Shutdown, Asks
        <5> QED BY <5>1 DEF VerbatimInv, LeftClean
      <4>2. disk' = [disk EXCEPT !.state = ClearSession(w.m), !.digest = w.prompt]
        <5> DEFINE s == [w EXCEPT !.m = ClearSession(@)]
        <5>1. SaveState(s) BY <3>1 DEF Shutdown
        <5>2. s.m = ClearSession(w.m) /\ s.prompt = w.prompt BY DEF TypeOK, Memory
        <5> HIDE DEF s
        <5> QED BY <4>1, <5>1, <5>2 DEF SaveState
      <4>3. disk'.state = ClearSession(w.m) BY <4>2 DEF TypeOK, Disk
      <4> QED BY <4>3 DEF ClearSession
    <3>2. CASE w' = w /\ (CodexStep \/ MachineStep)
      <4>1. disk' = disk
        BY <3>2 DEF CodexStep, ServerAccepts, TurnEnds, Notices, ThreadBreaks, ForeignTurn,
                    MachineStep, Disconnects, DiskFails, DiskRecovers, Crash, Fault
      <4> QED BY <3>2, <4>1 DEF VerbatimInv, LeftClean
    <3>3. CASE Mark
      <4>1. w'.pc \in {"submit", "loop"} BY <3>3, SubmissionMoves DEF Looks
      <4> QED BY <4>1
    <3>4. ~Crash BY DEF Crash, Fault
    <3> QED BY <3>1, <3>2, <3>3, <3>4, PlacesOnly
  <2> QED BY <2>1, <2>2 DEF LeftClean
<1>5. Described'
  <2>1. CASE ServerAccepts
    <3>1. w' = w BY <2>1 DEF ServerAccepts
    <3>2. /\ wire'.thread = wire.thread /\ wire'.client = wire.client
          /\ wire'.task = wire.task /\ wire'.kind = wire.kind
      BY <2>1, AcceptedMoves
    <3> QED BY <3>1, <3>2 DEF VerbatimInv, Described
  <2>2. CASE Mark
    <3>1. CASE /\ Looks(w', "submit", w.started, w.connected, w.prompt)
               /\ Has(w'.m, w.m.phase, w.m.thread, w.m.turn, TRUE, minted + 1,
                      w.m.followUp, w.m.queued)
               /\ wire' = [client |-> minted + 1, thread |-> w.m.thread,
                           task |-> w.prompt, turn |-> 0,
                           kind |-> IF w.m.followUp THEN "continue" ELSE "original"]
      <4>1. /\ wire'.thread = w.m.thread /\ wire'.task = w.prompt
            /\ wire'.kind = IF w.m.followUp THEN "continue" ELSE "original"
        BY <3>1
      <4> QED BY <3>1, <4>1 DEF Looks, Has, Described
    <3>2. CASE wire' = wire /\ w'.pc = "loop"
      <4>1. wire.client = 0
        BY <2>2 DEF Mark, VerbatimInv, Described
      <4> QED BY <3>2, <4>1 DEF Described
    <3> QED BY <2>2, <3>1, <3>2, SubmissionMoves
  <2>3. CASE ~ServerAccepts /\ ~Mark
    <3>1. /\ wire' = NoRequest \/ wire' = wire
          /\ w'.pc = "submit" => wire' = wire /\ w' = w
      BY <2>3, WireMoves
    <3>2. wire'.client # 0 => w'.pc = "submit"
      <4> SUFFICES ASSUME wire'.client # 0 PROVE w'.pc = "submit"
        OBVIOUS
      <4>1. wire' # NoRequest BY DEF NoRequest
      <4>2. w.pc = "submit" BY <3>1, <4>1 DEF VerbatimInv, Described
      <4>3. ~Crash /\ ~SubmitReply /\ ~SubmitFails
        BY <4>1 DEF Crash, Fault, SubmitReply, SubmitFails
      <4> QED BY <4>2, <4>3, SubmitEnds
    <3> QED BY <3>1, <3>2 DEF VerbatimInv, Described
  <2> QED BY <2>1, <2>2, <2>3
<1> QED BY <1>1, <1>2, <1>3, <1>4, <1>5 DEF VerbatimInv

LEMMA InitVerbatim == Init => VerbatimInv
<1>1. Has(Fresh, "Idle", 0, 0, FALSE, 0, FALSE, NoTask) BY FreshEffect
<1>2. Init => /\ w.m = Fresh /\ Looks(w, "loop", FALSE, FALSE, NoTask)
              /\ turns = << >> /\ events = << >> /\ wire = NoRequest /\ diskOk
              /\ fresh = Tasks /\ threads = 0
  BY DEF Init, Offline, Looks
<1>3. Init => Carries(w, fresh, threads, wire.turn)
  BY <1>1, <1>2, MachineAssumption DEF Looks, Has, Carries, SentIn, Underway, Opening
<1> QED BY <1>2, <1>3 DEF VerbatimInv, Submitted, SentIn, Described, NoSystemError,
                          LeftClean, NeverVerbatimTwice, NoRequest, Looks

\* The text of a task goes to a conversation once, for every set of tasks, every command
\* the window offers, and through every refused request, lost notification, reconnection,
\* unreadable history and second client: schedule_retry, handle_resume and handle_deadline
\* each make the next attempt a continuation (continuation_prompt) where a turn was
\* active, and no attempt follows where they do not.  Without any one of the exclusions it
\* is false: an answer to turn/start that does not arrive or carries no turn id, a
\* systemError, a crash, a shutdown whose files are not cleared, and a command that the
\* window does not offer each let a text be sent that Codex has.
THEOREM NeverVerbatimTwiceCorrect ==
  ASSUME "unoffered" \notin Commands,
         {"timeout", "garbled", "system", "crash"} \cap Faults = {},
         "disk" \notin Faults \/ "shutdown" \notin Commands
  PROVE  Spec => []NeverVerbatimTwice
<1>1. VerbatimInv => NeverVerbatimTwice
  BY DEF VerbatimInv
<1>2. TypeOK /\ ReadyInv /\ VerbatimInv /\ [Next]_vars => VerbatimInv'
  <2> SUFFICES ASSUME TypeOK, ReadyInv, VerbatimInv, UNCHANGED vars
               PROVE  VerbatimInv'
    BY VerbatimStep
  <2> QED BY DEF vars, VerbatimInv, Carries, Unsent, SentIn, GoesOn, Submitted, Described,
                 NoSystemError, LeftClean, NeverVerbatimTwice
<1> QED BY <1>1, <1>2, InitVerbatim, InitReady, ReadyStep, TypeCorrect, PTL DEF Spec
-----------------------------------------------------------------------------
\* A task that has its answer is not sent again.

\* Turn i has, or may still give, an answer to text p.
Alive(p, i) ==
  /\ i \in 1..Len(turns) /\ turns[i].task = p
  /\ turns[i].outcome \in {"answer", "running"}

Sent(p) == \E i : Alive(p, i)

\* Machine m asks what became of turn i before it sends anything: it is the latest of the
\* thread, it carries the id of the last submission, and an outcome is owed.
Owes(m, i) ==
  /\ LatestIn(m.thread, i) /\ turns[i].client = m.client
  /\ m.turn = i \/ (m.turn = 0 /\ m.uncertain)

\* Machine m keeps every turn for text p in mind, or will ask to go on.
Minds(m, p) == \A i : Alive(p, i) => m.followUp \/ Owes(m, i)

\* Nothing is under way, and the window offers nothing but a new text.
AtRest(s) ==
  /\ ~s.started /\ s.pc \in {"loop", "stopping", "replacing", "resetting", "down"}
  /\ s.m.phase \in {"Idle", "Success"} /\ s.m.turn = 0 /\ ~s.m.uncertain

\* Why memory s will not repeat a text that may be answered, where the request on the wire
\* became turn t.
Heeds(s, t) ==
  \/ AtRest(s)
  \/ /\ Minds(s.m, s.prompt)
     /\ s.pc \in {"mark", "markQueued", "handover"} /\ Sent(s.prompt) => s.m.followUp
     /\ s.pc = "submit" => \A i : Alive(s.prompt, i) => s.m.followUp \/ t = i

\* A text that waits its turn, where the texts of f are not submitted yet.
Novel(p, f) == p \in Tasks \ f /\ \A i \in 1..Len(turns) : turns[i].task # p

\* Memory s, when the texts of f are not submitted yet.
Bears(s, f, t) ==
  /\ s.pc \in Underway => s.started
  /\ s.prompt \notin f /\ (s.prompt = NoTask \/ s.pc = "down" => AtRest(s))
  /\ s.m.queued # NoTask => Novel(s.m.queued, f) /\ s.m.queued # s.prompt
  /\ s.pc = "replacing" => Novel(s.incoming, f)
  /\ s.pc = "create" => s.m.thread = 0
  /\ /\ s.pc = "loop" /\ s.started /\ s.connected
     /\ s.m.phase \in {"Sending", "Waiting"}
     => s.m.turn # 0
  /\ "crash" \in Faults => s.m.queued = NoTask /\ s.pc # "handover"
  /\ Heeds(s, t)

\* What a task that is under way may become.
LEMMA BearsResults ==
  ASSUME TypeOK, NEW r, NEW thread \in Nat, Bears(w, fresh, wire.turn), w.started,
         Minds(w.m, w.prompt)
  PROVE  /\ \A again : /\ Sent(w.prompt) => again
                       /\ Retries(w, thread, again, r) \/ Sends(w, thread, again, r)
                       => Bears(r, fresh, 0)
         /\ Reconnects(w, r) => Bears(r, fresh, 0)
         /\ \A phase \in {"Paused", "FatalError"} : \A uncertain :
              /\ Sent(w.prompt) => w.m.followUp \/ w.m.turn # 0 \/ uncertain
              /\ Rests(w, phase, w.m.thread, w.m.turn, uncertain, w.m.followUp, w.m.queued, r)
              => Bears(r, fresh, 0)
         /\ \A t : /\ t # 0 /\ Watches(w, thread, t, r)
                   /\ \A i : Alive(w.prompt, i) =>
                        \/ w.m.followUp
                        \/ i = t /\ LatestIn(thread, i) /\ turns[i].client = w.m.client
                   => Bears(r, fresh, 0)
<1>0. w.prompt # NoTask BY DEF Bears, AtRest
<1>1. ASSUME NEW again, Sent(w.prompt) => again,
             Retries(w, thread, again, r) \/ Sends(w, thread, again, r)
      PROVE  Bears(r, fresh, 0)
  <2>1. /\ r.prompt = w.prompt /\ r.m.queued = w.m.queued /\ (r.m.followUp <=> again)
        /\ r.pc \in {"loop", "mark"} /\ (r.pc = "mark" => r.started)
        /\ r.pc = "loop" => r.m.phase = "Backoff"
    BY <1>1 DEF Retries, Sends, Looks, Has
  <2>2. Heeds(r, 0) BY <1>1, <2>1 DEF Heeds, Minds, Sent
  <2> QED BY <1>0, <2>1, <2>2 DEF Bears, Underway, Opening
<1>2. ASSUME Reconnects(w, r) PROVE Bears(r, fresh, 0)
  <2>1. /\ r.prompt = w.prompt /\ r.m.queued = w.m.queued /\ (w.m.followUp => r.m.followUp)
        /\ r.pc = "loop" /\ r.m.phase = "Connecting"
        /\ r.m.thread = w.m.thread /\ r.m.turn = w.m.turn /\ r.m.client = w.m.client
        /\ r.m.uncertain <=> w.m.uncertain
    BY <1>2 DEF Reconnects, Looks, Has
  <2>2. \A i : Owes(w.m, i) => Owes(r.m, i) BY <2>1 DEF Owes
  <2>3. Heeds(r, 0) BY <2>1, <2>2 DEF Heeds, Minds
  <2> QED BY <1>0, <2>1, <2>3 DEF Bears, Underway, Opening
<1>3. ASSUME NEW phase \in {"Paused", "FatalError"}, NEW uncertain,
             Sent(w.prompt) => w.m.followUp \/ w.m.turn # 0 \/ uncertain,
             Rests(w, phase, w.m.thread, w.m.turn, uncertain, w.m.followUp, w.m.queued, r)
      PROVE  Bears(r, fresh, 0)
  <2>1. /\ r.prompt = w.prompt /\ r.m.queued = w.m.queued /\ (w.m.followUp <=> r.m.followUp)
        /\ r.pc = "loop" /\ ~r.started
        /\ r.m.thread = w.m.thread /\ r.m.turn = w.m.turn /\ r.m.client = w.m.client
        /\ r.m.uncertain <=> uncertain
    BY <1>3 DEF Rests, Looks, Has
  <2>2. ASSUME NEW i, Alive(w.prompt, i) PROVE r.m.followUp \/ Owes(r.m, i)
    <3>1. Sent(w.prompt) BY <2>2 DEF Sent
    <3>2. w.m.followUp \/ Owes(w.m, i) BY <2>2 DEF Minds
    <3> QED BY <1>3, <2>1, <3>1, <3>2 DEF Owes
  <2>3. Heeds(r, 0) BY <2>1, <2>2 DEF Heeds, Minds
  <2> QED BY <1>0, <2>1, <2>3 DEF Bears, Underway, Opening
<1>4. ASSUME NEW t, t # 0, Watches(w, thread, t, r),
             \A i : Alive(w.prompt, i) =>
               \/ w.m.followUp
               \/ i = t /\ LatestIn(thread, i) /\ turns[i].client = w.m.client
      PROVE  Bears(r, fresh, 0)
  <2>1. /\ r.prompt = w.prompt /\ r.m.queued = w.m.queued /\ (w.m.followUp <=> r.m.followUp)
        /\ r.pc = "loop"
        /\ r.m.thread = thread /\ r.m.turn = t /\ r.m.client = w.m.client
    BY <1>4 DEF Watches, Looks, Has
  <2>2. ASSUME NEW i, Alive(w.prompt, i) PROVE r.m.followUp \/ Owes(r.m, i)
    BY <1>4, <2>1, <2>2 DEF Owes
  <2>3. Heeds(r, 0) BY <2>1, <2>2 DEF Heeds, Minds
  <2> QED BY <1>0, <1>4, <2>1, <2>3 DEF Bears, Underway, Opening
<1> QED BY <1>1, <1>2, <1>3, <1>4

LEMMA BearsEnds ==
  ASSUME TypeOK, NEW r, Bears(w, fresh, wire.turn), w.started, Minds(w.m, w.prompt)
  PROVE  /\ \A kind : /\ kind = "rpcRetry" /\ Sent(w.prompt) => w.m.followUp \/ w.m.turn # 0
                      /\ Fails(w, kind, r)
                      => Bears(r, fresh, 0)
         /\ \A outcome : /\ outcome # "answer" /\ Sent(w.prompt) =>
                              w.m.followUp \/ w.m.turn # 0
                         /\ Concludes(w, w.m.thread, outcome, r)
                         => Bears(r, fresh, 0)
<1>0. w.m.thread \in Nat BY DEF TypeOK, Memory, Machine
<1>1. Sent(w.prompt) => w.m.followUp \/ w.m.turn # 0 \/ w.m.uncertain
  <2>1. ASSUME NEW i, Alive(w.prompt, i)
        PROVE  w.m.followUp \/ w.m.turn # 0 \/ w.m.uncertain
    <3>1. i # 0 BY <2>1 DEF Alive, TypeOK
    <3> QED BY <2>1, <3>1 DEF Minds, Owes
  <2> QED BY <2>1 DEF Sent
<1>2. ASSUME NEW phase \in {"Paused", "FatalError"},
             Rests(w, phase, w.m.thread, w.m.turn, w.m.uncertain, w.m.followUp, w.m.queued, r)
      PROVE  Bears(r, fresh, 0)
  BY <1>0, <1>1, <1>2, BearsResults
<1>3. ASSUME NEW again, Sent(w.prompt) => again, Retries(w, w.m.thread, again, r)
      PROVE  Bears(r, fresh, 0)
  BY <1>0, <1>3, BearsResults
<1>4. ASSUME Reconnects(w, r) PROVE Bears(r, fresh, 0)
  BY <1>0, <1>4, BearsResults
<1>5. ASSUME NEW kind, kind = "rpcRetry" /\ Sent(w.prompt) => w.m.followUp \/ w.m.turn # 0,
             Fails(w, kind, r)
      PROVE  Bears(r, fresh, 0)
  BY <1>2, <1>3, <1>4, <1>5 DEF Fails
<1>6. ASSUME NEW outcome,
             outcome # "answer" /\ Sent(w.prompt) => w.m.followUp \/ w.m.turn # 0,
             Concludes(w, w.m.thread, outcome, r)
      PROVE  Bears(r, fresh, 0)
  <2>1. CASE /\ w.m.queued # NoTask
             /\ Looks(r, "handover", TRUE, w.connected, w.m.queued)
             /\ Has(r.m, "Idle", w.m.thread, 0, FALSE, 0, FALSE, NoTask)
    <3>1. Novel(w.m.queued, fresh) /\ "crash" \notin Faults
      BY <2>1 DEF Bears
    <3>2. r.prompt = w.m.queued /\ r.pc = "handover" /\ r.started /\ r.m.queued = NoTask
      BY <2>1 DEF Looks, Has
    <3>3. \A i : ~Alive(r.prompt, i) BY <3>1, <3>2 DEF Novel, Alive
    <3>4. Heeds(r, 0) BY <3>2, <3>3 DEF Heeds, Minds, Sent
    <3> QED BY <2>1, <3>1, <3>2, <3>4 DEF Bears, Novel
  <2>2. CASE Rests(w, "Success", w.m.thread, 0, FALSE, FALSE, NoTask, r)
    <3>1. AtRest(r) BY <2>2 DEF Rests, Looks, Has, AtRest
    <3>2. r.prompt = w.prompt /\ r.pc = "loop" /\ ~r.started /\ r.m.queued = NoTask
      BY <2>2 DEF Rests, Looks, Has
    <3> QED BY <3>1, <3>2 DEF Bears, Heeds, Underway, Opening
  <2>3. CASE outcome # "answer" /\ Retries(w, w.m.thread, w.m.followUp \/ w.m.turn # 0, r)
    BY <1>3, <1>6, <2>3
  <2>4. CASE /\ outcome # "answer"
             /\ Rests(w, "Paused", w.m.thread, w.m.turn, FALSE, w.m.followUp, w.m.queued, r)
    BY <1>0, <1>6, <2>4, BearsResults
  <2> QED BY <1>6, <2>1, <2>2, <2>3, <2>4 DEF Concludes
<1> QED BY <1>5, <1>6

\* A memory that keeps the machine and the text keeps what it heeds.
LEMMA BearsSame ==
  ASSUME NEW s, NEW r, NEW f, NEW t, Bears(s, f, t),
         r.prompt = s.prompt, r.m.thread = s.m.thread, r.m.turn = s.m.turn,
         r.m.client = s.m.client, r.m.queued = s.m.queued,
         s.m.uncertain => r.m.uncertain, s.m.followUp => r.m.followUp, ~AtRest(s),
         r.pc \in {"loop", "pausing", "connect", "resume", "create", "expiring"},
         r.pc \in Underway => r.started, r.pc = "create" => r.m.thread = 0,
         r.pc = "loop" /\ r.started /\ r.connected =>
           r.m.turn # 0 \/ r.m.phase \notin {"Sending", "Waiting"}
  PROVE  Bears(r, f, 0)
<1>1. Minds(s.m, s.prompt) BY DEF Bears, Heeds
<1>2. \A i : Owes(s.m, i) => Owes(r.m, i) BY DEF Owes
<1>3. Minds(r.m, r.prompt) BY <1>1, <1>2 DEF Minds
<1> QED BY <1>3 DEF Bears, Heeds, Underway, Opening

\* A task that opens, and has nothing in the history or keeps what it heeds.
LEMMA BearsOpening ==
  ASSUME NEW prompt \in Tasks, NEW thread, NEW turn, NEW uncertain, NEW client,
         NEW followUp, NEW queued, NEW f, prompt \notin f, NoTask \notin Tasks,
         queued # NoTask => "crash" \notin Faults /\ Novel(queued, f) /\ queued # prompt,
         ~Sent(prompt),
         Opens(prompt, thread, turn, uncertain, client, followUp, queued)
  PROVE  Bears(w', f, 0)
<1>1. /\ w'.pc \in Opening /\ w'.started /\ w'.prompt = prompt
      /\ w'.pc = "create" => w'.m.thread = 0
      /\ w'.m.queued = queued
  BY DEF Opens, Has
<1>2. Minds(w'.m, w'.prompt) BY <1>1 DEF Minds, Sent
<1>3. prompt # NoTask OBVIOUS
<1>4. w'.pc \in {"connect", "create", "resume"} BY <1>1 DEF Opening
<1>5. Heeds(w', 0) BY <1>2, <1>4 DEF Heeds
<1> QED BY <1>1, <1>3, <1>4, <1>5 DEF Bears

\* The history: one id is given to one submission, a text is sent after the user gave it,
\* and not again as a new task where a turn for it may be answered.
Bygone ==
  /\ \A i \in 1..Len(turns) : turns[i].client <= minted /\ turns[i].task \notin fresh
  /\ \A i, j \in 1..Len(turns) :
       i < j /\ turns[i].task = turns[j].task /\ turns[j].kind = "original"
         => ~Alive(turns[i].task, i)

\* The user's commands, from the window.
LEMMA BearsUser ==
  ASSUME "unoffered" \notin Commands,
         "crash" \notin Faults \/ {"queue", "new"} \cap Commands = {},
         TypeOK, Bygone, Bears(w, fresh, wire.turn), UserStep
  PROVE  Bears(w', fresh', 0)
<1>a. w.pc = "loop"
  BY DEF UserStep, StartConfigured, StartNewConfigured, QueueMessage, Configure, SaveAgain,
         Resume, ClearQueued, PauseTask, Stop, Reset, Shutdown, Asks, Listening
<1>b. /\ fresh \subseteq Tasks /\ NoTask \notin Tasks
      /\ w.prompt \in Prompts /\ w.m.queued \in Prompts
  BY MachineAssumption DEF TypeOK, Memory, Machine, Prompts
<1>c. /\ w.prompt \notin fresh /\ (w.prompt = NoTask => AtRest(w))
      /\ w.m.queued # NoTask =>
           /\ Novel(w.m.queued, fresh) /\ w.m.queued # w.prompt
           /\ "crash" \notin Faults
      /\ AtRest(w) \/ Minds(w.m, w.prompt)
      /\ AtRest(w) => ~w.started /\ w.m.phase \in {"Idle", "Success"} /\ w.m.turn = 0
                      /\ ~w.m.uncertain
  BY DEF Bears, Heeds, AtRest
<1>1. ASSUME NEW t \in Tasks, fresh' = fresh \ {t}, t \in fresh
      PROVE  /\ Novel(t, fresh') /\ t \notin fresh' /\ ~Sent(t) /\ t # NoTask
             /\ w.prompt \notin fresh' /\ w.prompt # t
             /\ w.m.queued # NoTask =>
                  /\ Novel(w.m.queued, fresh') /\ w.m.queued # w.prompt
                  /\ w.m.queued # t
  <2>1. \A i \in 1..Len(turns) : turns[i].task # t BY <1>1 DEF Bygone
  <2> QED BY <1>b, <1>c, <1>1, <2>1 DEF Novel, Sent, Alive
<1>2. ASSUME NEW t \in Tasks, StartConfigured(t) PROVE Bears(w', fresh', 0)
  <2>1. t \in fresh /\ fresh' = fresh \ {t} BY <1>2 DEF StartConfigured
  <2>2. PICK client : Opens(t, w.m.thread, 0, FALSE, client, FALSE, w.m.queued)
    BY <1>2, SubmitMoves
  <2> QED BY <1>b, <1>c, <1>1, <2>1, <2>2, BearsOpening
<1>3. ASSUME NEW t \in Tasks, StartNewConfigured(t) PROVE Bears(w', fresh', 0)
  <2>1. t \in fresh /\ fresh' = fresh \ {t} BY <1>3 DEF StartNewConfigured
  <2>2. CASE Opens(t, 0, 0, FALSE, 0, FALSE, NoTask)
    BY <1>b, <1>1, <2>1, <2>2, BearsOpening
  <2>3. CASE /\ Looks(w', "replacing", FALSE, w.connected, w.prompt)
             /\ Has(w'.m, "Idle", w.m.thread, 0, FALSE, 0, FALSE, w.m.queued)
             /\ w'.incoming = t
    <3>1. AtRest(w') BY <2>3 DEF Looks, Has, AtRest
    <3> QED BY <1>b, <1>c, <1>1, <2>1, <2>3, <3>1 DEF Looks, Has, Bears, Heeds, Underway, Opening
  <2> QED BY <1>3, <2>2, <2>3, SubmitMoves
<1>4. ASSUME NEW queued, Looks(w', "loop", w.started, w.connected, w.prompt),
             Has(w'.m, w.m.phase, w.m.thread, w.m.turn, w.m.uncertain, w.m.client,
                 w.m.followUp, queued),
             w.prompt \notin fresh',
             queued # NoTask => "crash" \notin Faults /\ Novel(queued, fresh')
                                /\ queued # w.prompt
      PROVE  Bears(w', fresh', 0)
  <2>1. \A i : Owes(w.m, i) => Owes(w'.m, i) BY <1>4 DEF Has, Owes
  <2>2. Minds(w.m, w.prompt) => Minds(w'.m, w'.prompt)
    BY <1>4, <2>1 DEF Looks, Has, Minds
  <2>3. AtRest(w) => AtRest(w') BY <1>4 DEF Looks, Has, AtRest
  <2>4. Heeds(w', 0) BY <1>4, <1>c, <2>2, <2>3 DEF Looks, Heeds
  <2> QED BY <1>4, <1>a, <1>c, <2>3, <2>4 DEF Looks, Has, Bears, Underway, Opening
<1>5. ASSUME NEW t \in Tasks, QueueMessage(t) PROVE Bears(w', fresh', 0)
  <2>1. t \in fresh /\ fresh' = fresh \ {t} BY <1>5 DEF QueueMessage
  <2>2. "crash" \notin Faults BY <1>5 DEF QueueMessage, Asks
  <2> QED BY <1>a, <1>1, <1>4, <1>5, <2>1, <2>2, CommandMoves
<1>6. CASE Configure \/ SaveAgain
  <2>1. w' = w /\ fresh' = fresh
    BY <1>6, CommandMoves DEF Configure, SaveAgain
  <2> QED BY <1>a, <2>1 DEF Bears, Heeds, AtRest
<1>7. CASE ClearQueued
  <2>1. fresh' = fresh BY <1>7 DEF ClearQueued
  <2> QED BY <1>a, <1>c, <1>4, <1>7, <2>1, CommandMoves
<1>8. CASE Resume
  <2>1. ~w.started /\ w.m.phase \in {"Paused", "FatalError"} /\ fresh' = fresh
    BY <1>8 DEF Resume, Offered
  <2>2. ~AtRest(w) /\ w.prompt # NoTask BY <1>c, <2>1
  <2>3. PICK followUp :
          /\ w.m.followUp => followUp
          /\ Opens(w.prompt, w.m.thread, w.m.turn, w.m.uncertain, w.m.client, followUp,
                   w.m.queued)
    BY <1>8, <2>2, CommandMoves
  <2>4. /\ w'.pc \in {"loop", "pausing", "connect", "resume", "create", "expiring"}
        /\ w'.pc # "loop" /\ w'.started /\ w'.prompt = w.prompt
        /\ w'.pc = "create" => w'.m.thread = 0
        /\ w'.m.thread = w.m.thread /\ w'.m.turn = w.m.turn /\ w'.m.client = w.m.client
        /\ w'.m.queued = w.m.queued /\ (w.m.uncertain => w'.m.uncertain)
        /\ w.m.followUp => w'.m.followUp
    BY <2>3 DEF Opens, Opening, Has
  <2> QED BY <2>1, <2>2, <2>4, BearsSame
<1>9. CASE PauseTask
  <2>1. w.started /\ fresh' = fresh BY <1>9 DEF PauseTask, Offered
  <2>2. ~AtRest(w) BY <2>1 DEF AtRest
  <2>3. /\ w'.pc \in {"loop", "pausing"} /\ ~w'.started /\ w'.prompt = w.prompt
        /\ Has(w'.m, "Paused", w.m.thread, w.m.turn, w.m.uncertain, w.m.client,
               w.m.followUp, w.m.queued)
    BY <1>9, CommandMoves
  <2> QED BY <2>1, <2>2, <2>3, BearsSame DEF Has, Underway, Opening
<1>10. CASE Stop
  <2>1. fresh' = fresh BY <1>10 DEF Stop
  <2>2. /\ w'.pc \in {"loop", "stopping"} /\ ~w'.started /\ w'.prompt = w.prompt
        /\ Has(w'.m, "Idle", w.m.thread, 0, FALSE, 0, FALSE, w.m.queued)
    BY <1>10, CommandMoves
  <2>3. AtRest(w') BY <2>2 DEF Has, AtRest
  <2> QED BY <1>c, <2>1, <2>2, <2>3 DEF Has, Bears, Heeds, Underway, Opening
<1>11. CASE Reset
  <2>1. fresh' = fresh BY <1>11 DEF Reset
  <2>2. CASE Looks(w', "resetting", FALSE, w.connected, w.prompt)
             /\ Has(w'.m, "Idle", w.m.thread, 0, FALSE, 0, FALSE, w.m.queued)
    <3>1. AtRest(w') BY <2>2 DEF Looks, Has, AtRest
    <3> QED BY <1>c, <2>1, <2>2, <3>1 DEF Looks, Has, Bears, Heeds, Underway, Opening
  <2>3. CASE Looks(w', "loop", FALSE, FALSE, NoTask)
             /\ Has(w'.m, "Idle", 0, 0, FALSE, 0, FALSE, NoTask)
    <3>1. AtRest(w') BY <2>3 DEF Looks, Has, AtRest
    <3> QED BY <1>b, <2>1, <2>3, <3>1 DEF Looks, Has, Bears, Heeds, Underway, Opening
  <2> QED BY <1>11, <2>2, <2>3, CommandMoves
<1>12. CASE Shutdown
  <2>1. Looks(w', "down", FALSE, FALSE, NoTask) /\ w'.m = Fresh /\ fresh' = fresh
    BY <1>12, CommandMoves, DownEffect DEF Shutdown
  <2>2. Has(w'.m, "Idle", 0, 0, FALSE, 0, FALSE, NoTask) BY <2>1, FreshEffect
  <2>3. AtRest(w') BY <2>1, <2>2 DEF Looks, Has, AtRest
  <2> QED BY <1>b, <2>1, <2>2, <2>3 DEF Looks, Has, Bears, Heeds, Underway, Opening
<1> QED BY <1>2, <1>3, <1>5, <1>6, <1>7, <1>8, <1>9, <1>10, <1>11, <1>12 DEF UserStep

\* A pc of a task that is under way.
LEMMA BearsUnderway ==
  ASSUME NEW s, NEW f, NEW t, Bears(s, f, t), s.pc \in Underway \/ s.started
  PROVE  s.started /\ ~AtRest(s) /\ s.prompt # NoTask /\ Minds(s.m, s.prompt)
<1>1. s.started BY DEF Bears
<1>2. ~AtRest(s) BY <1>1 DEF AtRest
<1> QED BY <1>1, <1>2 DEF Bears, Heeds

\* A session that is resumed: its latest turn says what became of the text.
LEMMA BearsResume ==
  ASSUME "unread" \notin Faults, TypeOK, ReadyInv, Bears(w, fresh, wire.turn), ResumeReply
  PROVE  Bears(w', fresh, 0)
<1> DEFINE thread == w.m.thread
<1>0. w.pc = "resume" BY DEF ResumeReply
<1>1. w.started /\ ~AtRest(w) /\ Minds(w.m, w.prompt)
  BY <1>0, BearsUnderway DEF Underway, Opening
<1>2. PICK latest \in 0..Len(turns), reports \in BOOLEAN :
        IsLatestTurn(latest, thread) /\ Session(w, thread, latest, reports, w')
  BY SessionMoves
<1>3. thread \in Nat /\ latest \in Nat /\ Len(turns) \in Nat
  BY DEF TypeOK, Memory, Machine
<1>4. ASSUME NEW i, Alive(w.prompt, i), ~w.m.followUp
      PROVE  /\ i = latest /\ latest # 0 /\ LatestIn(thread, latest)
             /\ turns[latest].client = w.m.client
             /\ turns[latest].outcome \in {"answer", "running"}
             /\ AwaitingOutcome(w.m)
  <2>1. i \in 1..Len(turns) /\ turns[i].outcome \in {"answer", "running"}
    BY <1>4 DEF Alive
  <2>2. Owes(w.m, i) BY <1>1, <1>4 DEF Minds
  <2>3. LatestIn(thread, i) /\ turns[i].client = w.m.client
    BY <2>2 DEF Owes
  <2>4. turns[i].thread = thread BY <2>3 DEF LatestIn, IsLatestTurn
  <2>5. latest # 0
    <3>1. latest = 0 => i \in (latest + 1)..Len(turns) BY <2>1
    <3> QED BY <1>2, <2>4, <3>1 DEF IsLatestTurn
  <2>6. LatestIn(thread, latest)
    BY <1>2, <1>3, <2>5 DEF LatestIn
  <2>7. i = latest BY <1>3, <2>1, <2>3, <2>6, LatestUnique
  <2>8. w.m.turn # 0 \/ w.m.uncertain BY <1>3, <2>1, <2>2 DEF Owes
  <2> QED BY <2>1, <2>3, <2>5, <2>6, <2>7, <2>8 DEF AwaitingOutcome
<1>5. Sent(w.prompt) /\ ~w.m.followUp =>
        /\ latest # 0 /\ AwaitingOutcome(w.m) /\ ~Stranger(w.m, latest, reports)
        /\ turns[latest].outcome \in {"answer", "running"}
  BY <1>4 DEF Sent, Stranger, NotOurs
<1> HIDE DEF thread
<1>6. ASSUME NEW again, Sent(w.prompt) => again,
             Retries(w, thread, again, w') \/ Sends(w, thread, again, w')
      PROVE  Bears(w', fresh, 0)
  BY <1>1, <1>3, <1>6, BearsResults
<1>7. ASSUME latest # 0, Watches(w, thread, latest, w') PROVE Bears(w', fresh, 0)
  <2>1. \A i : Alive(w.prompt, i) =>
          \/ w.m.followUp
          \/ i = latest /\ LatestIn(thread, i) /\ turns[i].client = w.m.client
    BY <1>4
  <2> QED BY <1>1, <1>3, <1>7, <2>1, BearsResults
<1>8. ASSUME turns[latest].outcome # "running",
             Concludes(w, thread, turns[latest].outcome, w')
      PROVE  Bears(w', fresh, 0)
  BY <1>1, <1>5, <1>8, BearsEnds DEF thread
<1>9. ASSUME Sent(w.prompt) => w.m.followUp,
             \/ Retries(w, thread, w.m.followUp \/ w.m.turn # 0, w')
             \/ Retries(w, thread, w.m.followUp, w')
             \/ Sends(w, thread, w.m.followUp, w')
      PROVE  Bears(w', fresh, 0)
  BY <1>6, <1>9
<1>10. ASSUME Sends(w, thread, TRUE, w') PROVE Bears(w', fresh, 0)
  BY <1>6, <1>10
<1> QED BY <1>2, <1>5, <1>7, <1>8, <1>9, <1>10 DEF Session

\* The requests and their answers.
LEMMA BearsRequest ==
  ASSUME {"busy", "unread", "deleted"} \cap Faults = {}, diskOk, TypeOK, ReadyInv,
         Bears(w, fresh, wire.turn),
         \/ InterruptReply \/ ConnectReply \/ CreateReply \/ ResumeFails
         \/ Mark \/ SubmitReply \/ SubmitFails \/ Handover
  PROVE  Bears(w', fresh, 0)
<1>0. /\ w.m.thread \in Nat /\ threads \in Nat /\ Len(turns) \in Nat
      /\ fresh \subseteq Tasks /\ NoTask \notin Tasks /\ wire.turn \in Nat
  BY MachineAssumption DEF TypeOK, Memory, Machine, Request
<1>1. w.pc \in Underway => w.started /\ ~AtRest(w) /\ Minds(w.m, w.prompt)
  BY BearsUnderway
<1>f. ASSUME NEW kind, Possible(kind), Fails(w, kind, w'), w.pc \in Underway
      PROVE  Bears(w', fresh, 0)
  BY <1>1, <1>f, BearsEnds DEF Possible
<1>2. CASE InterruptReply
  <2>1. CASE /\ w.pc \in {"pausing", "stopping"} /\ w'.m = w.m
             /\ Looks(w', "loop", FALSE, FALSE, w.prompt)
    <3>1. CASE AtRest(w)
      <4>1. AtRest(w') BY <2>1, <3>1 DEF Looks, AtRest
      <4> QED BY <2>1, <3>1, <4>1 DEF Looks, Bears, Heeds, Underway, Opening
    <3>2. CASE ~AtRest(w)
      BY <2>1, <3>2, BearsSame DEF Looks, Underway, Opening
    <3> QED BY <3>1, <3>2
  <2>2. CASE w.pc = "replacing" /\ Opens(w.incoming, 0, 0, FALSE, 0, FALSE, NoTask)
    <3>1. Novel(w.incoming, fresh) BY <2>2 DEF Bears
    <3>2. w.incoming \in Tasks /\ w.incoming \notin fresh /\ ~Sent(w.incoming)
      BY <3>1 DEF Novel, Sent, Alive
    <3> QED BY <1>0, <2>2, <3>2, BearsOpening
  <2>3. CASE Looks(w', "loop", FALSE, FALSE, NoTask)
             /\ Has(w'.m, "Idle", 0, 0, FALSE, 0, FALSE, NoTask)
    <3>1. AtRest(w') BY <2>3 DEF Looks, Has, AtRest
    <3> QED BY <1>0, <2>3, <3>1 DEF Looks, Has, Bears, Heeds, Underway, Opening
  <2>4. CASE w.pc = "expiring" /\ Retries(w, w.m.thread, TRUE, w')
    BY <1>0, <1>1, <2>4, BearsResults DEF Underway
  <2> QED BY <1>2, <2>1, <2>2, <2>3, <2>4, InterruptMoves
<1>3. CASE ConnectReply
  <2>0. w.pc = "connect" BY <1>3 DEF ConnectReply
  <2>1. CASE w'.m = w.m /\ Looks(w', IF w.m.thread = 0 THEN "create" ELSE "resume",
                                 w.started, TRUE, w.prompt)
    <3>1. w'.pc \in {"create", "resume"} /\ (w'.pc = "create" => w'.m.thread = 0)
          /\ w'.started /\ w'.prompt = w.prompt
      BY <1>1, <2>0, <2>1 DEF Looks, Underway, Opening
    <3> QED BY <1>1, <2>0, <2>1, <3>1, BearsSame DEF Underway, Opening
  <2> QED BY <1>3, <1>f, <2>0, <2>1, SessionMoves DEF Underway, Opening
<1>4. CASE CreateReply
  <2>0. w.pc = "create" BY <1>4 DEF CreateReply
  <2>1. CASE \E kind \in FailureKinds : Possible(kind) /\ Fails(w, kind, w')
    BY <1>f, <2>0, <2>1 DEF Underway, Opening
  <2>2. CASE Session(w, threads + 1, 0, TRUE, w')
    <3> DEFINE n == threads + 1
    <3>1. n \in Nat BY <1>0
    <3>2. Session(w, n, 0, TRUE, w') BY <2>2
    <3> HIDE DEF n
    <3>3. w.m.thread = 0 BY <2>0 DEF Bears
    <3>4. \A i : ~Owes(w.m, i)
      BY <3>3 DEF Owes, LatestIn, IsLatestTurn, ReadyInv, Placed
    <3>5. Sent(w.prompt) => w.m.followUp
      BY <1>1, <2>0, <3>4 DEF Minds, Sent, Underway, Opening
    <3>6. \/ Retries(w, n, w.m.followUp \/ w.m.turn # 0, w')
          \/ Sends(w, n, w.m.followUp, w')
      BY <3>2 DEF Session
    <3> QED BY <1>1, <2>0, <3>1, <3>5, <3>6, BearsResults DEF Underway, Opening
  <2> QED BY <1>4, <2>1, <2>2, SessionMoves
<1>5. CASE ResumeFails
  <2>0. w.pc = "resume" BY <1>5 DEF ResumeFails
  <2> QED BY <1>5, <1>f, <2>0, SessionMoves DEF Underway, Opening
<1>6. CASE Mark
  <2>0. w.pc \in {"mark", "markQueued"} BY <1>6 DEF Mark
  <2>1. w.started /\ w.prompt # NoTask /\ (Sent(w.prompt) => w.m.followUp)
    <3>1. ~AtRest(w) /\ w.started BY <1>1, <2>0 DEF Underway
    <3> QED BY <2>0, <3>1 DEF Bears, Heeds
  <2>2. /\ w'.pc = "submit" /\ w'.started /\ w'.prompt = w.prompt
        /\ w'.m.queued = w.m.queued /\ (w'.m.followUp <=> w.m.followUp)
    BY <1>6, <2>1, SubmissionMoves DEF Looks, Has
  <2>3. Heeds(w', 0) BY <2>1, <2>2 DEF Heeds, Minds, Sent
  <2> QED BY <2>1, <2>2, <2>3 DEF Bears
<1>7. CASE SubmitReply
  <2>0. w.pc = "submit" BY <1>7 DEF SubmitReply
  <2>1. wire.turn # 0 /\ Watches(w, w.m.thread, wire.turn, w')
    BY <1>7, SubmissionMoves
  <2>2. ~AtRest(w) /\ w.started /\ Minds(w.m, w.prompt) BY <1>1, <2>0 DEF Underway
  <2>3. ASSUME NEW i, Alive(w.prompt, i), ~w.m.followUp
        PROVE  i = wire.turn /\ LatestIn(w.m.thread, i) /\ turns[i].client = w.m.client
    BY <2>0, <2>2, <2>3 DEF Bears, Heeds, Minds, Owes
  <2> QED BY <1>0, <2>1, <2>2, <2>3, BearsResults
<1>8. CASE SubmitFails
  <2>0. w.pc = "submit" BY <1>8 DEF SubmitFails
  <2>1. PICK kind \in FailureKinds \ {"notFound"} :
          /\ Fails(w, kind, w')
          /\ kind \in {"rpcPause", "rpcRetry"} => wire.turn = 0
    BY <1>8, SubmissionMoves
  <2>2. ~AtRest(w) /\ w.started /\ Minds(w.m, w.prompt) BY <1>1, <2>0 DEF Underway
  <2>3. wire.turn = 0 /\ Sent(w.prompt) => w.m.followUp
    <3>1. ASSUME NEW i, Alive(w.prompt, i), wire.turn = 0 PROVE w.m.followUp
      <4>1. i # 0 BY <3>1 DEF Alive, TypeOK
      <4> QED BY <2>0, <2>2, <3>1, <4>1 DEF Bears, Heeds
    <3> QED BY <3>1 DEF Sent
  <2> QED BY <2>1, <2>2, <2>3, BearsEnds
<1>9. CASE Handover
  <2>0. w.pc = "handover" BY <1>9 DEF Handover
  <2>1. /\ w.started /\ w.prompt # NoTask /\ (Sent(w.prompt) => w.m.followUp)
    <3>1. ~AtRest(w) /\ w.started BY <1>1, <2>0 DEF Underway
    <3> QED BY <2>0, <3>1 DEF Bears, Heeds
  <2>2. /\ w'.pc = "markQueued" /\ w'.started /\ w'.prompt = w.prompt
        /\ w'.m.queued = w.m.queued /\ (w'.m.followUp <=> w.m.followUp)
    BY <1>9, <2>1, SubmissionMoves DEF Looks, Has
  <2>3. Heeds(w', 0) BY <2>1, <2>2 DEF Heeds, Minds, Sent
  <2> QED BY <2>1, <2>2, <2>3 DEF Bears
<1> QED BY <1>2, <1>3, <1>4, <1>5, <1>6, <1>7, <1>8, <1>9

\* What the connection says.
LEMMA BearsEvent ==
  ASSUME TypeOK, ReadyInv, NoSystemError, Bears(w, fresh, wire.turn),
         OnTurnStarted \/ OnError \/ OnTurnCompleted \/ OnSystemError \/ OnDisconnected
  PROVE  Bears(w', fresh, 0)
<1> DEFINE t == Head(events).turn
           again == w.m.followUp \/ w.m.turn # 0
<1>1. w.pc = "loop" /\ w.started /\ w.connected /\ events # << >>
  BY DEF OnTurnStarted, OnError, OnTurnCompleted, OnSystemError, OnDisconnected, Hears,
         Listening
<1>2. w.m.thread \in Nat /\ w.m.turn \in Nat
  BY DEF TypeOK, Memory, Machine
<1>3. ~AtRest(w) /\ w.prompt # NoTask /\ Minds(w.m, w.prompt)
  BY <1>1, BearsUnderway
<1>4. Head(events).type # "systemError"
  BY <1>1, HeardEvent DEF NoSystemError
<1>5. ASSUME w' = w PROVE Bears(w', fresh, 0)
  BY <1>1, <1>3, <1>5 DEF Bears, Heeds
<1>6. CASE OnTurnStarted
  <2>0. t \in 1..Len(turns) /\ t # 0
    BY <1>1, <1>6, HeardEvent DEF OnTurnStarted, Hears, TypeOK
  <2>1. ASSUME StartsOurTurn, Watches(w, w.m.thread, t, w') PROVE Bears(w', fresh, 0)
    <3>1. w.m.turn = t
      <4>1. w.m.phase \in {"Sending", "Waiting"} /\ w.m.turn \in {0, t}
        BY <2>1 DEF StartsOurTurn
      <4>2. w.m.turn # 0 BY <1>1, <4>1 DEF Bears
      <4> QED BY <4>1, <4>2
    <3> HIDE DEF t
    <3>2. \A i : Alive(w.prompt, i) =>
            \/ w.m.followUp
            \/ i = t /\ LatestIn(w.m.thread, i) /\ turns[i].client = w.m.client
      BY <1>3, <2>0, <3>1 DEF Minds, Owes
    <3> QED BY <1>1, <1>2, <1>3, <2>0, <2>1, <3>2, BearsResults
  <2> QED BY <1>5, <1>6, <2>1, EventMoves
<1>7. CASE OnError
  <2>0. t \in 1..Len(turns) /\ t # 0
    BY <1>1, <1>7, HeardEvent DEF OnError, Hears, TypeOK
  <2>1. MatchesActive => w.m.turn # 0 BY <2>0 DEF MatchesActive
  <2>2. ASSUME /\ MatchesActive
               /\ Looks(w', "loop", w.started, w.connected, w.prompt)
               /\ Has(w'.m, "Waiting", w.m.thread, w.m.turn, w.m.uncertain,
                      w.m.client, w.m.followUp, w.m.queued)
        PROVE  Bears(w', fresh, 0)
    BY <1>3, <2>1, <2>2, BearsSame DEF Looks, Has, Underway, Opening
  <2>3. ASSUME MatchesActive, Retries(w, w.m.thread, again, w')
        PROVE  Bears(w', fresh, 0)
    BY <1>1, <1>2, <1>3, <2>1, <2>3, BearsResults
  <2>4. ASSUME Rests(w, "Paused", w.m.thread, w.m.turn, w.m.uncertain,
                     w.m.followUp, w.m.queued, w')
        PROVE  Bears(w', fresh, 0)
    <3>1. Fails(w, "rpcPause", w') BY <2>4 DEF Fails
    <3> QED BY <1>1, <1>3, <3>1, BearsEnds
  <2> QED BY <1>5, <1>7, <2>2, <2>3, <2>4, EventMoves
<1>8. CASE OnTurnCompleted
  <2>0. t \in 1..Len(turns) /\ t # 0
    BY <1>1, <1>8, HeardEvent DEF OnTurnCompleted, Hears, TypeOK
  <2>1. ASSUME NEW outcome, MatchesActive, Concludes(w, w.m.thread, outcome, w')
        PROVE  Bears(w', fresh, 0)
    <3>1. w.m.turn # 0 BY <2>0, <2>1 DEF MatchesActive
    <3> QED BY <1>1, <1>3, <2>1, <3>1, BearsEnds
  <2> QED BY <1>5, <1>8, <2>1, EventMoves
<1>9. ~OnSystemError
  BY <1>4 DEF OnSystemError, Hears
<1>10. CASE OnDisconnected
  <2>1. ASSUME /\ w.m.phase = "Backoff" /\ w'.m = w.m
               /\ Looks(w', "loop", w.started, FALSE, w.prompt)
        PROVE  Bears(w', fresh, 0)
    BY <1>3, <2>1, BearsSame DEF Looks, Underway, Opening
  <2>2. ASSUME Reconnects(w, w') PROVE Bears(w', fresh, 0)
    BY <1>1, <1>2, <1>3, <2>2, BearsResults
  <2> QED BY <1>10, <2>1, <2>2, EventMoves
<1> QED BY <1>6, <1>7, <1>8, <1>9, <1>10

\* The files, for a start of Longwatch that finds them: nothing, or after a crash what a
\* worker minds, which includes a request that may still be accepted.
Filed ==
  /\ diskOk
  /\ "crash" \notin Faults /\ w.pc = "down" => disk.state = Fresh
  /\ "crash" \in Faults =>
       /\ disk.prompt \notin fresh /\ disk.state.queued = NoTask
       /\ PickedUp(disk.state) => disk.digest = disk.prompt
       /\ RequiresRecovery(disk.state) =>
            disk.prompt # NoTask /\ Minds(disk.state, disk.prompt)
       /\ wire.client # 0 /\ wire.turn = 0 =>
            /\ disk.state.turn = 0 /\ disk.state.uncertain
            /\ disk.state.client = wire.client /\ disk.state.thread = wire.thread
            /\ disk.prompt = wire.task

\* The timer, and a start of Longwatch.
LEMMA BearsElse ==
  ASSUME TypeOK, ReadyInv, Filed, Bears(w, fresh, wire.turn), HandleDeadline \/ Restart
  PROVE  Bears(w', fresh, 0)
<1>1. CASE HandleDeadline
  <2>1. w.pc = "loop" /\ w.started BY <1>1, TimerMoves
  <2>2. ~AtRest(w) BY <2>1 DEF AtRest
  <2>3. CASE Ensures(w, w')
    <3>1. /\ w'.pc \in {"connect", "create", "resume"} /\ w'.started
          /\ w'.prompt = w.prompt /\ w'.m.thread = w.m.thread /\ w'.m.turn = w.m.turn
          /\ w'.m.client = w.m.client /\ w'.m.queued = w.m.queued
          /\ w.m.uncertain => w'.m.uncertain
          /\ w.m.followUp => w'.m.followUp
          /\ w'.pc = "create" => w'.m.thread = 0
      BY <2>1, <2>3 DEF Ensures, Looks, Has
    <3> QED BY <2>2, <3>1, BearsSame
  <2>4. CASE w'.m = w.m /\ Looks(w', "expiring", w.started, w.connected, w.prompt)
    BY <2>1, <2>2, <2>4, BearsSame DEF Looks
  <2> QED BY <1>1, <2>3, <2>4, TimerMoves
<1>2. CASE Restart
  <2>0. NoTask \notin fresh BY MachineAssumption DEF TypeOK
  <2>1. CASE ~RequiresRecovery(disk.state)
    <3>1. w'.m = Fresh /\ Looks(w', "loop", FALSE, FALSE, NoTask)
      BY <1>2, <2>1 DEF Restart, Restored, Offline, Looks
    <3>2. Has(w'.m, "Idle", 0, 0, FALSE, 0, FALSE, NoTask) BY <3>1, FreshEffect
    <3>3. AtRest(w') BY <3>1, <3>2 DEF Looks, Has, AtRest
    <3> QED BY <2>0, <3>1, <3>2, <3>3 DEF Looks, Has, Bears, Heeds, Underway, Opening
  <2>2. CASE RequiresRecovery(disk.state)
    <3>1. "crash" \in Faults
      <4>1. w.pc = "down" BY <1>2 DEF Restart
      <4>2. disk.state = Fresh => ~RequiresRecovery(disk.state)
        BY FreshEffect DEF RequiresRecovery, Has, Running
      <4> QED BY <2>2, <4>1, <4>2 DEF Filed
    <3>2. /\ disk.prompt \notin fresh /\ disk.prompt # NoTask /\ disk.state.queued = NoTask
          /\ PickedUp(disk.state) => disk.digest = disk.prompt
          /\ Minds(disk.state, disk.prompt)
      BY <2>2, <3>1 DEF Filed
    <3>3. PICK uncertain, phase :
            /\ disk.state.uncertain => uncertain
            /\ w'.pc \in {"loop", "connect"} /\ w'.prompt = disk.prompt /\ ~w'.connected
            /\ w'.pc = "connect" => w'.started
            /\ Has(w'.m, phase, disk.state.thread, disk.state.turn, uncertain,
                   disk.state.client, disk.state.followUp, disk.state.queued)
      <4>1. ~(PickedUp(disk.state) /\ disk.digest # disk.prompt) BY <3>2
      <4> QED BY <1>2, <2>2, <4>1, RestartMoves DEF Looks
    <3>4. \A i : Owes(disk.state, i) => Owes(w'.m, i) BY <3>3 DEF Has, Owes
    <3>5. Minds(w'.m, w'.prompt) BY <3>2, <3>3, <3>4 DEF Has, Minds
    <3>6. w'.m.queued = NoTask BY <3>2, <3>3 DEF Has
    <3> QED BY <3>2, <3>3, <3>5, <3>6 DEF Bears, Heeds, Underway, Opening
  <2> QED BY <2>1, <2>2
<1> QED BY <1>1, <1>2

\* What a step makes of the turns that are minded, and of the texts that wait.
LEMMA MindsKept ==
  ASSUME "foreign" \notin Faults, TypeOK, Next, ~ServerAccepts
  PROVE  /\ \A p, i : Alive(p, i)' => Alive(p, i)
         /\ \A m, p : Minds(m, p) => Minds(m, p)'
         /\ \A p, f : Novel(p, f) => Novel(p, f)'
         /\ \A i \in 1..Len(turns') :
              /\ i \in 1..Len(turns) /\ turns'[i].client = turns[i].client
              /\ turns'[i].task = turns[i].task /\ turns'[i].kind = turns[i].kind
<1>1. /\ Len(turns') = Len(turns) /\ Len(turns) \in Nat
      /\ \A i \in 1..Len(turns) :
           /\ turns'[i].thread = turns[i].thread /\ turns'[i].client = turns[i].client
           /\ turns'[i].task = turns[i].task /\ turns'[i].kind = turns[i].kind
           /\ turns'[i].outcome \in {"answer", "running"} =>
                turns[i].outcome \in {"answer", "running"}
  <2>0. Len(turns) \in Nat BY DEF TypeOK
  <2>1. CASE turns' = turns BY <2>0, <2>1
  <2>2. CASE \E t \in RunningTurns, o \in Endings : Ended(t, o)
    <3>1. PICK t \in RunningTurns, o \in Endings : Ended(t, o) BY <2>2
    <3>2. turns[t].outcome = "running" BY DEF RunningTurns
    <3> QED BY <3>1, <3>2, EndedMoves
  <2>3. ~ForeignTurn BY DEF ForeignTurn, Fault
  <2> QED BY <2>1, <2>2, <2>3, TurnMoves
<1>2. \A p, i : Alive(p, i)' => Alive(p, i) BY <1>1 DEF Alive
<1>3. \A m, i : Owes(m, i) => Owes(m, i)'
  <2>1. \A thread, i : LatestIn(thread, i) => LatestIn(thread, i)'
    BY <1>1 DEF LatestIn, IsLatestTurn
  <2>2. \A thread, i : LatestIn(thread, i) => i \in 1..Len(turns) BY DEF LatestIn
  <2> QED BY <1>1, <2>1, <2>2 DEF Owes
<1>4. \A m, p : Minds(m, p) => Minds(m, p)' BY <1>2, <1>3 DEF Minds
<1>5. \A p, f : Novel(p, f) => Novel(p, f)' BY <1>1 DEF Novel
<1> QED BY <1>1, <1>2, <1>4, <1>5

\* The turn that a request becomes is minded by a machine that waits for the request's
\* outcome.
LEMMA MindsAdded ==
  ASSUME TypeOK, ServerAccepts, NEW m, NEW p, NEW n, n = Len(turns) + 1,
         m.turn = 0, m.uncertain, m.client = wire.client, m.thread = wire.thread,
         \A i : Alive(p, i) => m.followUp
  PROVE  /\ Minds(m, p)'
         /\ \A i : Alive(p, i)' => m.followUp \/ i = n
<1>1. /\ Len(turns') = n /\ Len(turns) \in Nat
      /\ turns'[n].thread = wire.thread /\ turns'[n].client = wire.client
      /\ \A i \in 1..Len(turns) : turns'[i] = turns[i]
  BY AcceptedMoves
<1>2. \A i : Alive(p, i)' => m.followUp \/ i = n
  <2>1. ASSUME NEW i, Alive(p, i)', i # n PROVE m.followUp
    <3>1. i \in 1..Len(turns) BY <1>1, <2>1 DEF Alive
    <3> QED BY <1>1, <2>1, <3>1 DEF Alive
  <2> QED BY <2>1
<1>3. Owes(m, n)'
  <2>1. n \in 1..Len(turns') /\ \A i \in (n + 1)..Len(turns') : FALSE BY <1>1
  <2>2. LatestIn(m.thread, n)' BY <1>1, <2>1 DEF LatestIn, IsLatestTurn
  <2> QED BY <1>1, <2>2 DEF Owes
<1> QED BY <1>2, <1>3 DEF Minds

\* The request on the wire: that of the memory, or one that a crash left.
OnWire ==
  /\ wire.client # 0 =>
       /\ w.pc = "submit" \/ (w.pc = "down" /\ "crash" \in Faults)
       /\ wire.task \notin fresh /\ wire.client <= minted
  /\ w.pc = "submit" =>
       /\ wire.client = w.m.client /\ wire.task = w.prompt /\ wire.thread = w.m.thread
       /\ w.m.turn = 0 /\ w.m.uncertain
  /\ wire.client # 0 /\ wire.turn = 0 =>
       /\ \A i \in 1..Len(turns) : turns[i].client # wire.client
       /\ wire.kind = "original" => ~Sent(wire.task)

RepeatInv ==
  Bears(w, fresh, wire.turn) /\ Bygone /\ OnWire /\ Filed /\ NoSystemError

\* What every step leaves in memory.
LEMMA BearsMoves ==
  ASSUME "unoffered" \notin Commands, {"busy", "unread", "deleted"} \cap Faults = {},
         "crash" \notin Faults \/ {"queue", "new"} \cap Commands = {},
         TypeOK, ReadyInv, RepeatInv, Next
  PROVE  \/ Bears(w', fresh', 0)
         \/ ~Mark /\ w' = w /\ fresh' = fresh
<1>0. /\ Bygone /\ NoSystemError /\ Filed /\ diskOk /\ Bears(w, fresh, wire.turn)
      /\ "unread" \notin Faults
  BY DEF RepeatInv, Filed
<1>1. CASE UserStep
  BY <1>0, <1>1, BearsUser
<1>2. CASE ResumeReply
  <2>1. fresh' = fresh BY <1>2 DEF ResumeReply
  <2> QED BY <1>0, <1>2, <2>1, BearsResume
<1>3. CASE \/ InterruptReply \/ ConnectReply \/ CreateReply \/ ResumeFails
           \/ Mark \/ SubmitReply \/ SubmitFails \/ Handover
  <2>1. Bears(w', fresh, 0) BY <1>0, <1>3, BearsRequest
  <2>2. fresh' = fresh
    BY <1>3 DEF InterruptReply, ConnectReply, CreateReply, ResumeFails, Mark,
                SubmitReply, SubmitFails, Handover
  <2> QED BY <2>1, <2>2
<1>4. CASE OnTurnStarted \/ OnError \/ OnTurnCompleted \/ OnSystemError \/ OnDisconnected
  <2>1. Bears(w', fresh, 0) BY <1>0, <1>4, BearsEvent
  <2>2. fresh' = fresh
    BY <1>4 DEF OnTurnStarted, OnError, OnTurnCompleted, OnSystemError, OnDisconnected
  <2> QED BY <2>1, <2>2
<1>5. CASE HandleDeadline \/ Restart
  <2>1. Bears(w', fresh, 0) BY <1>0, <1>5, BearsElse
  <2>2. fresh' = fresh BY <1>5 DEF HandleDeadline, Restart
  <2> QED BY <2>1, <2>2
<1>6. CASE Crash
  <2>1. w' = Down /\ fresh' = fresh BY <1>6 DEF Crash
  <2>2. Looks(w', "down", FALSE, FALSE, NoTask) /\ w'.m = Fresh BY <2>1, DownEffect
  <2>3. Has(w'.m, "Idle", 0, 0, FALSE, 0, FALSE, NoTask) BY <2>2, FreshEffect
  <2>4. AtRest(w') BY <2>2, <2>3 DEF Looks, Has, AtRest
  <2>5. NoTask \notin fresh BY MachineAssumption DEF TypeOK
  <2> QED BY <2>1, <2>2, <2>3, <2>4, <2>5 DEF Looks, Has, Bears, Heeds, Underway, Opening
<1>7. CASE CodexStep \/ Disconnects \/ DiskFails \/ DiskRecovers
  <2>1. w' = w /\ fresh' = fresh
    BY <1>7 DEF CodexStep, ServerAccepts, TurnEnds, Notices, ThreadBreaks, ForeignTurn,
                Disconnects, DiskFails, DiskRecovers
  <2>2. minted' = minted
    BY <1>7 DEF CodexStep, ServerAccepts, TurnEnds, Notices, ThreadBreaks, ForeignTurn,
                Disconnects, DiskFails, DiskRecovers, server
  <2>3. ~Mark BY <2>2 DEF Mark, TypeOK
  <2> QED BY <2>1, <2>3
<1> QED BY <1>1, <1>2, <1>3, <1>4, <1>5, <1>6, <1>7 DEF Next, WorkerStep, MachineStep

\* The memory after a step, among the turns after it.
LEMMA BearsStep ==
  ASSUME "foreign" \notin Faults, TypeOK, ReadyInv, RepeatInv, Next,
         \/ Bears(w', fresh', 0)
         \/ ~Mark /\ w' = w /\ fresh' = fresh
  PROVE  Bears(w, fresh, wire.turn)'
<1>0. Bears(w, fresh, wire.turn) /\ OnWire BY DEF RepeatInv
<1>1. CASE ServerAccepts
  <2>1. w' = w /\ fresh' = fresh /\ wire.client # 0 /\ wire.turn = 0
    BY <1>1 DEF ServerAccepts
  <2>2. PICK n : n = Len(turns) + 1 OBVIOUS
  <2>3. wire'.turn = n /\ turns'[n].task = wire.task /\ Len(turns') = n
        /\ \A i \in 1..Len(turns) : turns'[i] = turns[i]
    BY <1>1, <2>2, AcceptedMoves
  <2>4. CASE w.pc = "submit"
    <3>1. /\ wire.client = w.m.client /\ wire.task = w.prompt /\ wire.thread = w.m.thread
          /\ w.m.turn = 0 /\ w.m.uncertain
      BY <1>0, <2>4 DEF OnWire
    <3>2. ~AtRest(w) BY <2>4 DEF AtRest
    <3>3. \A i : Alive(w.prompt, i) => w.m.followUp
      <4>1. ASSUME NEW i, Alive(w.prompt, i) PROVE w.m.followUp
        <5>1. i # 0 BY <4>1 DEF Alive, TypeOK
        <5> QED BY <1>0, <2>1, <2>4, <3>2, <4>1, <5>1 DEF Bears, Heeds
      <4> QED BY <4>1
    <3>4. PICK m, p : m = w.m /\ p = w.prompt OBVIOUS
    <3>5. /\ Minds(m, p)'
          /\ \A i : Alive(p, i)' => m.followUp \/ i = n
      BY <1>1, <2>2, <3>1, <3>3, <3>4, MindsAdded
    <3>6. Heeds(w, wire.turn)' BY <2>1, <2>3, <2>4, <3>4, <3>5 DEF Heeds
    <3>7. w.m.queued # NoTask => Novel(w.m.queued, fresh)'
      <4>1. \A i \in 1..Len(turns') : i \in 1..Len(turns) \/ i = n
        BY <2>2, <2>3 DEF TypeOK
      <4> QED BY <1>0, <2>1, <2>3, <3>1, <4>1 DEF Bears, Novel
    <3> QED BY <1>0, <2>1, <2>4, <3>2, <3>6, <3>7 DEF Bears
  <2>5. CASE w.pc = "down"
    <3>1. AtRest(w) /\ "crash" \in Faults BY <1>0, <2>1, <2>5 DEF Bears, OnWire
    <3>2. AtRest(w)' BY <2>1, <3>1 DEF AtRest
    <3>3. w.m.queued = NoTask BY <1>0, <3>1 DEF Bears
    <3> QED BY <1>0, <2>1, <2>5, <3>2, <3>3 DEF Bears, Heeds
  <2> QED BY <1>0, <2>1, <2>4, <2>5 DEF OnWire
<1>2. CASE ~ServerAccepts
  <2>1. /\ \A p, i : Alive(p, i)' => Alive(p, i)
        /\ \A m, p : Minds(m, p) => Minds(m, p)'
        /\ \A p, f : Novel(p, f) => Novel(p, f)'
    BY <1>2, MindsKept
  <2>3. \A p : Sent(p)' => Sent(p) BY <2>1 DEF Sent
  <2>4. CASE Bears(w', fresh', 0)
    <3>1. AtRest(w') <=> AtRest(w)' BY DEF AtRest
    <3>2. Heeds(w, wire.turn)'
      <4>1. CASE AtRest(w') BY <4>1 DEF Heeds, AtRest
      <4>2. CASE ~AtRest(w')
        <5>1. /\ Minds(w'.m, w'.prompt)
              /\ w'.pc \in {"mark", "markQueued", "handover"} /\ Sent(w'.prompt) =>
                   w'.m.followUp
              /\ w'.pc = "submit" => \A i : Alive(w'.prompt, i) => w'.m.followUp \/ i = 0
          BY <2>4, <4>2 DEF Bears, Heeds
        <5>2. Minds(w.m, w.prompt)' BY <2>1, <5>1
        <5>3. \A i : Alive(w.prompt, i)' => Alive(w'.prompt, i) /\ i # 0
          BY <2>1 DEF Alive, TypeOK
        <5>4. Sent(w.prompt)' => Sent(w'.prompt) BY <2>3
        <5> QED BY <5>1, <5>2, <5>3, <5>4 DEF Heeds
      <4> QED BY <4>1, <4>2
    <3> QED BY <2>1, <2>4, <3>1, <3>2 DEF Bears
  <2>5. CASE ~Mark /\ w' = w /\ fresh' = fresh
    <3>1. w.pc = "submit" => wire' = wire BY <1>2, <2>5, WireMoves
    <3>2. AtRest(w) => AtRest(w)' BY <2>5 DEF AtRest
    <3>3. Heeds(w, wire.turn)' BY <1>0, <2>1, <2>3, <2>5, <3>1, <3>2 DEF Bears, Heeds
    <3> QED BY <1>0, <2>1, <2>5, <3>2, <3>3 DEF Bears
  <2> QED BY <2>4, <2>5
<1> QED BY <1>1, <1>2

\* The history after a step.
LEMMA BygoneStep ==
  ASSUME "foreign" \notin Faults, TypeOK, RepeatInv, Next
  PROVE  Bygone'
<1>0. Bygone /\ OnWire /\ Len(turns) \in Nat /\ minted \in Nat BY DEF RepeatInv, TypeOK
<1>1. fresh' \subseteq fresh /\ minted' \in {minted, minted + 1}
  BY FreshMoves, Counters
<1>2. ASSUME NEW i \in 1..Len(turns') PROVE turns'[i].client \in Nat
  <2>1. turns'[i] \in Turn BY TypeStep DEF TypeOK
  <2> QED BY <2>1 DEF Turn
<1>3. CASE ServerAccepts
  <2> DEFINE n == Len(turns) + 1
  <2>1. wire.client # 0 /\ wire.turn = 0 BY <1>3 DEF ServerAccepts
  <2>2. /\ Len(turns') = n /\ turns'[n].client = wire.client /\ turns'[n].task = wire.task
        /\ turns'[n].kind = wire.kind
        /\ \A i \in 1..Len(turns) : turns'[i] = turns[i]
    BY <1>3, AcceptedMoves
  <2>3. \A i \in 1..Len(turns') : i \in 1..Len(turns) \/ i = n
    BY <1>0, <2>2
  <2>4. ASSUME NEW i \in 1..Len(turns')
        PROVE  turns'[i].client <= minted' /\ turns'[i].task \notin fresh'
    <3>1. turns'[i].client <= minted /\ turns'[i].task \notin fresh
      BY <1>0, <2>1, <2>2, <2>3 DEF Bygone, OnWire
    <3> QED BY <1>0, <1>1, <1>2, <3>1
  <2>5. ASSUME NEW i \in 1..Len(turns'), NEW j \in 1..Len(turns'), i < j,
               turns'[i].task = turns'[j].task, turns'[j].kind = "original",
               Alive(turns[i].task, i)'
        PROVE  FALSE
    <3>1. i \in 1..Len(turns) BY <1>0, <2>2, <2>3, <2>5
    <3>2. Alive(turns[i].task, i) BY <2>2, <2>5, <3>1 DEF Alive
    <3>3. CASE j = n
      <4>1. ~Sent(wire.task) BY <1>0, <2>1, <2>2, <2>5, <3>3 DEF OnWire
      <4>2. turns[i].task = wire.task BY <2>2, <2>5, <3>1, <3>3
      <4> QED BY <3>2, <4>1, <4>2 DEF Sent
    <3>4. CASE j \in 1..Len(turns)
      BY <1>0, <2>2, <2>5, <3>1, <3>2, <3>4 DEF Bygone
    <3> QED BY <2>3, <3>3, <3>4
  <2> QED BY <2>4, <2>5 DEF Bygone
<1>4. CASE ~ServerAccepts
  <2>1. /\ \A p, i : Alive(p, i)' => Alive(p, i)
        /\ \A i \in 1..Len(turns') :
             /\ i \in 1..Len(turns) /\ turns'[i].client = turns[i].client
             /\ turns'[i].task = turns[i].task /\ turns'[i].kind = turns[i].kind
    BY <1>4, MindsKept
  <2>2. ASSUME NEW i \in 1..Len(turns')
        PROVE  turns'[i].client <= minted' /\ turns'[i].task \notin fresh'
    <3>1. turns'[i].client <= minted /\ turns'[i].task \notin fresh
      BY <1>0, <2>1 DEF Bygone
    <3> QED BY <1>0, <1>1, <1>2, <3>1
  <2>3. ASSUME NEW i \in 1..Len(turns'), NEW j \in 1..Len(turns'), i < j,
               turns'[i].task = turns'[j].task, turns'[j].kind = "original",
               Alive(turns[i].task, i)'
        PROVE  FALSE
    <3>1. PICK p : p = turns'[i].task OBVIOUS
    <3>2. Alive(p, i)' BY <2>3, <3>1 DEF Alive
    <3>3. Alive(p, i) BY <2>1, <3>2
    <3>4. turns[i].task = p /\ turns[j].task = p /\ turns[j].kind = "original"
          /\ i \in 1..Len(turns) /\ j \in 1..Len(turns)
      BY <2>1, <2>3, <3>1
    <3> QED BY <1>0, <2>3, <3>3, <3>4 DEF Bygone
  <2> QED BY <2>2, <2>3 DEF Bygone
<1> QED BY <1>3, <1>4

\* Only a start of Longwatch ends its absence.
LEMMA DownEnds ==
  ASSUME Next, w.pc = "down"
  PROVE  Restart \/ w' = w
<1>1. ~UserStep
  BY DEF UserStep, StartConfigured, StartNewConfigured, QueueMessage, Configure,
         SaveAgain, Resume, ClearQueued, PauseTask, Stop, Reset, Shutdown, Asks, Listening
<1>2. CASE WorkerStep
  BY <1>2 DEF WorkerStep, InterruptReply, ConnectReply, CreateReply, ResumeReply,
              ResumeFails, Mark, SubmitReply, SubmitFails, Handover, OnTurnStarted, OnError,
              OnTurnCompleted, OnSystemError, OnDisconnected, Hears, HandleDeadline,
              Listening
<1>3. CASE CodexStep \/ MachineStep
  BY <1>3 DEF CodexStep, ServerAccepts, TurnEnds, Notices, ThreadBreaks, ForeignTurn,
              MachineStep, Disconnects, DiskFails, DiskRecovers, Crash
<1> QED BY <1>1, <1>2, <1>3 DEF Next

\* The request after a step.
LEMMA OnWireStep ==
  ASSUME "foreign" \notin Faults, TypeOK, ReadyInv, RepeatInv, Next
  PROVE  OnWire'
<1>0. /\ Bygone /\ OnWire /\ diskOk /\ Bears(w, fresh, wire.turn)
      /\ minted \in Nat /\ wire.client \in Nat
  BY DEF RepeatInv, Filed, TypeOK, Request
<1>1. fresh' \subseteq fresh /\ minted' \in {minted, minted + 1}
  BY FreshMoves, Counters
<1>2. CASE ServerAccepts
  <2>1. w' = w /\ fresh' = fresh /\ minted' = minted
    BY <1>2 DEF ServerAccepts
  <2>2. /\ wire'.thread = wire.thread /\ wire'.client = wire.client
        /\ wire'.task = wire.task /\ wire'.turn # 0
    BY <1>2, AcceptedMoves
  <2> QED BY <1>0, <2>1, <2>2 DEF OnWire
<1>3. CASE Mark
  <2>1. w.pc \in {"mark", "markQueued"} /\ minted' = minted + 1 /\ fresh' = fresh
        /\ turns' = turns
    BY <1>3 DEF Mark
  <2>2. ~AtRest(w) /\ (Sent(w.prompt) => w.m.followUp)
    <3>1. ~AtRest(w) BY <2>1 DEF AtRest
    <3> QED BY <1>0, <2>1, <3>1 DEF Bears, Heeds
  <2>3. /\ Looks(w', "submit", w.started, w.connected, w.prompt)
        /\ Has(w'.m, w.m.phase, w.m.thread, w.m.turn, TRUE, minted + 1,
               w.m.followUp, w.m.queued)
        /\ wire' = [client |-> minted + 1, thread |-> w.m.thread,
                    task |-> w.prompt, turn |-> 0,
                    kind |-> IF w.m.followUp THEN "continue" ELSE "original"]
    BY <1>0, <1>3, SubmissionMoves
  <2>4. /\ wire'.client = minted + 1 /\ wire'.thread = w.m.thread /\ wire'.task = w.prompt
        /\ wire'.turn = 0
        /\ wire'.kind = "original" => ~w.m.followUp
    BY <2>3
  <2>5. /\ w'.pc = "submit" /\ w'.prompt = w.prompt /\ w'.m.client = minted + 1
        /\ w'.m.thread = w.m.thread /\ w'.m.turn = w.m.turn /\ w'.m.uncertain
    BY <2>3 DEF Looks, Has
  <2>6. w.m.turn = 0 BY <2>1 DEF ReadyInv, Ready
  <2>7. \A i \in 1..Len(turns') : turns'[i].client # minted + 1
    <3>1. ASSUME NEW i \in 1..Len(turns) PROVE turns[i].client # minted + 1
      <4>1. turns[i].client \in Nat
        <5>1. turns[i] \in Turn BY DEF TypeOK
        <5> QED BY <5>1 DEF Turn
      <4> QED BY <1>0, <4>1 DEF Bygone
    <3> QED BY <2>1, <3>1
  <2>8. ~Sent(w.prompt) => ~Sent(wire.task)'
    BY <2>1, <2>4 DEF Sent, Alive
  <2>9. w.prompt \notin fresh' BY <1>0, <2>1 DEF Bears
  <2>10. wire'.client <= minted' BY <1>0, <2>1, <2>4
  <2> QED BY <2>2, <2>4, <2>5, <2>6, <2>7, <2>8, <2>9, <2>10 DEF OnWire
<1>4. CASE ~ServerAccepts /\ ~Mark
  <2>1. /\ wire' = NoRequest \/ wire' = wire
        /\ w'.pc = "submit" => wire' = wire /\ w' = w
    BY <1>4, WireMoves
  <2>2. ASSUME wire'.client # 0
        PROVE  /\ w'.pc = "submit" \/ (w'.pc = "down" /\ "crash" \in Faults)
               /\ wire'.task \notin fresh' /\ wire'.client <= minted'
    <3>0. wire' # NoRequest BY <2>2 DEF NoRequest
    <3>1. wire' = wire BY <2>1, <3>0
    <3>2. w.pc = "submit" \/ (w.pc = "down" /\ "crash" \in Faults)
      BY <1>0, <2>2, <3>1 DEF OnWire
    <3>3. ASSUME w.pc = "submit"
          PROVE  w'.pc = "submit" \/ (w'.pc = "down" /\ "crash" \in Faults)
      <4>1. ~SubmitReply /\ ~SubmitFails
        BY <3>0 DEF SubmitReply, SubmitFails
      <4>2. Crash => w'.pc = "down" /\ "crash" \in Faults
        BY DownEffect DEF Crash, Fault, Looks
      <4> QED BY <3>3, <4>1, <4>2, SubmitEnds
    <3>4. ASSUME w.pc = "down" PROVE w'.pc = "down"
      <4>1. ~Restart BY <3>0 DEF Restart
      <4> QED BY <3>4, <4>1, DownEnds
    <3>5. wire.task \notin fresh /\ wire.client <= minted
      BY <1>0, <2>2, <3>1 DEF OnWire
    <3>6. wire'.task \notin fresh' /\ wire'.client <= minted'
      BY <1>0, <1>1, <3>1, <3>5
    <3> QED BY <3>2, <3>3, <3>4, <3>6
  <2>3. w'.pc = "submit" =>
          /\ wire'.client = w'.m.client /\ wire'.task = w'.prompt
          /\ wire'.thread = w'.m.thread /\ w'.m.turn = 0 /\ w'.m.uncertain
    BY <1>0, <2>1 DEF OnWire
  <2>4. ASSUME wire'.client # 0, wire'.turn = 0
        PROVE  /\ \A i \in 1..Len(turns') : turns'[i].client # wire'.client
               /\ wire'.kind = "original" => ~Sent(wire.task)'
    <3>1. wire' = wire BY <2>1, <2>4 DEF NoRequest
    <3>2. /\ \A i \in 1..Len(turns) : turns[i].client # wire.client
          /\ wire.kind = "original" => ~Sent(wire.task)
      BY <1>0, <2>4, <3>1 DEF OnWire
    <3>3. /\ \A p, i : Alive(p, i)' => Alive(p, i)
          /\ \A i \in 1..Len(turns') :
               i \in 1..Len(turns) /\ turns'[i].client = turns[i].client
      BY <1>4, MindsKept
    <3>4. ~Sent(wire.task) => ~Sent(wire.task)'
      BY <3>1, <3>3 DEF Sent
    <3> QED BY <3>1, <3>2, <3>3, <3>4
  <2> QED BY <2>2, <2>3, <2>4 DEF OnWire
<1> QED BY <1>2, <1>3, <1>4

\* Every handler leaves the files as they were, or the state it left in memory with the
\* digest of the text in memory, or an empty state.
LEMMA FileMoves ==
  ASSUME TypeOK, Next, w.pc # "handover", w'.pc # "handover"
  PROVE  \/ disk' = disk
         \/ /\ disk'.state = w'.m /\ disk'.digest = w'.prompt
            /\ disk'.prompt \in {disk.prompt, w'.prompt}
         \/ disk'.state = Fresh /\ disk'.prompt \in {disk.prompt, w'.prompt}
<1> DEFINE Filing(m, p) ==
             \/ disk' = disk
             \/ /\ disk'.state = m /\ disk'.digest = p
                /\ disk'.prompt \in {disk.prompt, p}
<1>0. w \in Memory /\ w.m \in Machine /\ disk \in Disk
  BY DEF TypeOK, Memory
<1>1. ASSUME NEW s
      PROVE  /\ SaveState(s) => Filing(s.m, s.prompt)
             /\ SaveConfigAndState(s) => Filing(s.m, s.prompt)
             /\ SaveOutcome(s) /\ s.pc # "handover" => Filing(s.m, s.prompt)
  <2>1. ASSUME NEW a, NEW b
        PROVE  LET d == [disk EXCEPT !.state = a, !.digest = b]
               IN d.state = a /\ d.digest = b /\ d.prompt = disk.prompt
    BY <1>0 DEF Disk
  <2>2. SaveState(s) => Filing(s.m, s.prompt)
    BY <2>1 DEF SaveState
  <2>3. SaveConfigAndState(s) => Filing(s.m, s.prompt)
    BY DEF SaveConfigAndState
  <2> QED BY <2>2, <2>3 DEF SaveOutcome
<1>2. ASSUME NEW s, w' = s,
             SaveState(s) \/ SaveConfigAndState(s) \/ SaveOutcome(s) \/ disk' = disk
      PROVE  Filing(w'.m, w'.prompt)
  BY <1>1, <1>2
<1> HIDE DEF Filing
<1>3. ASSUME UserStep, ~Shutdown
      PROVE  Filing(w'.m, w'.prompt)
  <2>1. ASSUME NEW t \in Tasks, StartConfigured(t) \/ StartNewConfigured(t) \/ QueueMessage(t)
        PROVE  Filing(w'.m, w'.prompt)
    BY <1>2, <2>1 DEF StartConfigured, StartNewConfigured, QueueMessage, Becomes
  <2>2. CASE Configure \/ SaveAgain
    BY <1>2, <2>2 DEF Configure, SaveAgain
  <2>3. CASE Resume \/ ClearQueued
    BY <1>2, <2>3 DEF Resume, ClearQueued, Becomes
  <2>4. CASE PauseTask
    <3> DEFINE m == Pause(w.m)
               s == [w EXCEPT !.started = FALSE, !.turnDeadline = FALSE, !.m = m]
               t == s.m.turn
               p == [s EXCEPT !.pc = "pausing", !.interrupting = t]
    <3>1. \/ w' = p /\ SaveState(p)
          \/ w' = ShutdownTransport(s) /\ SaveState(s)
      BY <2>4 DEF PauseTask, Becomes
    <3>2. s \in Memory
      <4>1. m \in Machine BY <1>0, EndingTypes
      <4> HIDE DEF m
      <4> QED BY <1>0, <4>1 DEF Memory
    <3> HIDE DEF p, s
    <3>3. ShutdownTransport(s).m = s.m /\ ShutdownTransport(s).prompt = s.prompt
      BY <3>2 DEF ShutdownTransport, Memory
    <3> QED BY <1>1, <1>2, <3>1, <3>3
  <2>5. CASE Stop \/ Reset
    <3>1. Stop => \E s : w' = s /\ SaveState(s) BY DEF Stop, Becomes
    <3>2. Reset => \E s : w' = s /\ (SaveState(s) \/ SaveConfigAndState(s))
      BY DEF Reset, Becomes
    <3> QED BY <1>2, <2>5, <3>1, <3>2
  <2> QED BY <1>3, <2>1, <2>2, <2>3, <2>4, <2>5 DEF UserStep
<1>4. CASE Shutdown
  <2> DEFINE m == ClearSession(w.m)
             s == [w EXCEPT !.m = m]
  <2>1. SaveState(s) BY <1>4 DEF Shutdown
  <2>2. m = Fresh BY DEF ClearSession
  <2> HIDE DEF m
  <2>3. s.m = m BY <1>0 DEF Memory
  <2>4. diskOk => disk' = [disk EXCEPT !.state = s.m, !.digest = s.prompt]
    BY <2>1 DEF SaveState
  <2>5. ~diskOk => disk' = disk BY <2>1 DEF SaveState
  <2> HIDE DEF s
  <2>6. diskOk => disk'.state = s.m /\ disk'.prompt = disk.prompt
    BY <1>0, <2>4 DEF Disk
  <2> QED BY <2>2, <2>3, <2>5, <2>6
<1>5. ASSUME WorkerStep, ~Restart
      PROVE  Filing(w'.m, w'.prompt)
  <2>1. CASE InterruptReply
    <3> DEFINE Saves == \/ disk' = disk
                         \/ \E s : w' = s /\ (SaveState(s) \/ SaveConfigAndState(s))
    <3>1. w.pc = "pausing" => Saves BY <2>1 DEF InterruptReply, Becomes
    <3>2. w.pc = "stopping" => Saves BY <2>1 DEF InterruptReply, Becomes
    <3>3. w.pc = "replacing" => Saves BY <2>1 DEF InterruptReply, Becomes
    <3>4. w.pc = "resetting" => Saves BY <2>1 DEF InterruptReply, Becomes
    <3>5. w.pc = "expiring" => Saves BY <2>1 DEF InterruptReply, Becomes
    <3>6. Saves BY <2>1, <3>1, <3>2, <3>3, <3>4, <3>5 DEF InterruptReply
    <3> QED BY <1>2, <3>6
  <2>2. CASE ConnectReply \/ CreateReply \/ ResumeFails
    BY <1>2, <2>2 DEF ConnectReply, CreateReply, ResumeFails, Becomes
  <2>3. CASE ResumeReply
    <3>1. \E s : w' = s /\ SaveOutcome(s) BY <2>3 DEF ResumeReply, Becomes
    <3> QED BY <1>1, <3>1
  <2>4. CASE Mark
    <3>1. disk' = disk \/ \E s : w' = s /\ SaveState(s) BY <2>4 DEF Mark, Becomes
    <3> QED BY <1>2, <3>1
  <2>5. CASE SubmitReply \/ SubmitFails
    BY <1>2, <2>5 DEF SubmitReply, SubmitFails, Becomes
  <2>6. CASE OnTurnStarted \/ OnError \/ OnSystemError \/ OnDisconnected
    <3>1. disk' = disk \/ \E s : w' = s /\ SaveState(s)
      BY <2>6 DEF OnTurnStarted, OnError, OnSystemError, OnDisconnected, Handles, Ignores,
                  Becomes
    <3> QED BY <1>2, <3>1
  <2>7. CASE OnTurnCompleted
    <3>1. disk' = disk \/ \E s : w' = s /\ SaveOutcome(s)
      BY <2>7 DEF OnTurnCompleted, Ignores, Becomes
    <3> QED BY <1>2, <3>1
  <2>8. CASE HandleDeadline
    <3>1. disk' = disk \/ \E s : w' = s /\ SaveState(s)
      BY <2>8 DEF HandleDeadline, Becomes
    <3> QED BY <1>2, <3>1
  <2>9. ~Handover BY DEF Handover
  <2> QED BY <1>5, <2>1, <2>2, <2>3, <2>4, <2>5, <2>6, <2>7, <2>8, <2>9 DEF WorkerStep
<1>6. CASE Restart
  <2>1. CASE ~RequiresRecovery(disk.state)
    <3>1. disk' = [disk EXCEPT !.state = Fresh, !.digest = NoTask]
      BY <1>6, <2>1 DEF Restart
    <3>2. disk'.state = Fresh /\ disk'.prompt = disk.prompt BY <1>0, <3>1 DEF Disk
    <3> QED BY <3>2
  <2>2. CASE RequiresRecovery(disk.state)
    <3>1. disk' = disk \/ SaveState(w') BY <1>6, <2>2 DEF Restart
    <3> QED BY <1>2, <3>1 DEF Filing
  <2> QED BY <2>1, <2>2
<1>7. CASE CodexStep \/ MachineStep
  <2>1. disk' = disk
    BY <1>7 DEF CodexStep, ServerAccepts, TurnEnds, Notices, ThreadBreaks, ForeignTurn,
                MachineStep, Disconnects, DiskFails, DiskRecovers, Crash
  <2> QED BY <2>1
<1>8. Filing(w'.m, w'.prompt) =>
        \/ disk' = disk
        \/ /\ disk'.state = w'.m /\ disk'.digest = w'.prompt
           /\ disk'.prompt \in {disk.prompt, w'.prompt}
  BY DEF Filing
<1> QED BY <1>3, <1>5, <1>6, <1>7, <1>4, <1>8 DEF Next, WorkerStep

\* A memory at rest is not gone on with, nor is an empty one.
LEMMA RestIsDone ==
  /\ \A s : AtRest(s) /\ s.m.queued = NoTask =>
       ~RequiresRecovery(s.m) /\ ~PickedUp(s.m)
  /\ ~RequiresRecovery(Fresh) /\ ~PickedUp(Fresh) /\ Fresh.queued = NoTask
<1>1. Has(Fresh, "Idle", 0, 0, FALSE, 0, FALSE, NoTask) BY FreshEffect
<1> QED BY <1>1 DEF Has, AtRest, RequiresRecovery, PickedUp, Running

\* The files after a step, where a restart may find them as they are.
LEMMA SavedStep ==
  ASSUME {"foreign", "disk"} \cap Faults = {}, "crash" \in Faults,
         {"queue", "new"} \cap Commands = {},
         TypeOK, ReadyInv, RepeatInv, KeptInv, Next,
         Bears(w, fresh, wire.turn)', OnWire', KeptInv'
  PROVE  /\ disk'.prompt \notin fresh' /\ disk'.state.queued = NoTask
         /\ PickedUp(disk'.state) => disk'.digest = disk'.prompt
         /\ RequiresRecovery(disk'.state) =>
              disk'.prompt # NoTask /\ Minds(disk.state, disk.prompt)'
<1>0. /\ OnWire /\ fresh' \subseteq fresh /\ w.pc # "handover" /\ w'.pc # "handover"
      /\ w'.m.queued = NoTask /\ w'.prompt \notin fresh'
      /\ disk.prompt \notin fresh /\ disk.state.queued = NoTask
      /\ PickedUp(disk.state) => disk.digest = disk.prompt
      /\ RequiresRecovery(disk.state) =>
           disk.prompt # NoTask /\ Minds(disk.state, disk.prompt)
  BY FreshMoves DEF RepeatInv, Bears, Filed
<1>1. ASSUME disk' = disk PROVE Minds(disk.state, disk.prompt) => Minds(disk.state, disk.prompt)'
  <2>1. PICK m, p : m = disk.state /\ p = disk.prompt OBVIOUS
  <2>2. CASE ServerAccepts
    <3>1. wire.client # 0 /\ wire.turn = 0 BY <2>2 DEF ServerAccepts
    <3>2. /\ m.turn = 0 /\ m.uncertain /\ m.client = wire.client
          /\ m.thread = wire.thread
      BY <2>1, <3>1 DEF RepeatInv, Filed
    <3>3. ASSUME Minds(m, p) PROVE \A i : Alive(p, i) => m.followUp
      <4>1. ASSUME NEW i, Alive(p, i) PROVE m.followUp
        <5>1. i \in 1..Len(turns) /\ i # 0 BY <4>1 DEF Alive, TypeOK
        <5>2. turns[i].client # wire.client BY <1>0, <3>1, <5>1 DEF OnWire
        <5> QED BY <3>2, <3>3, <4>1, <5>2 DEF Minds, Owes
      <4> QED BY <4>1
    <3>4. PICK n : n = Len(turns) + 1 OBVIOUS
    <3>5. Minds(m, p) => Minds(m, p)' BY <2>2, <3>2, <3>3, <3>4, MindsAdded
    <3> QED BY <1>1, <2>1, <3>5 DEF Minds, Owes
  <2>3. CASE ~ServerAccepts
    <3>1. Minds(m, p) => Minds(m, p)' BY <2>3, MindsKept
    <3> QED BY <1>1, <2>1, <3>1
  <2> QED BY <2>2, <2>3
<1>2. CASE disk' = disk
  BY <1>0, <1>1, <1>2
<1>3. CASE /\ disk'.state = w'.m /\ disk'.digest = w'.prompt
           /\ disk'.prompt \in {disk.prompt, w'.prompt}
  <2>1. CASE AtRest(w')
    BY <1>0, <1>3, <2>1, RestIsDone
  <2>2. CASE ~AtRest(w')
    <3>1. w'.prompt # NoTask /\ w'.pc # "down" /\ Minds(w.m, w.prompt)'
      BY <2>2 DEF Bears, Heeds, AtRest
    <3>2. disk'.prompt = w'.prompt BY <3>1 DEF KeptInv, Empty
    <3>3. Minds(disk.state, disk.prompt)' BY <1>3, <3>1, <3>2
    <3> QED BY <1>0, <1>3, <3>1, <3>2, <3>3
  <2> QED BY <2>1, <2>2
<1>4. CASE disk'.state = Fresh /\ disk'.prompt \in {disk.prompt, w'.prompt}
  BY <1>0, <1>4, RestIsDone
<1> QED BY <1>0, <1>2, <1>3, <1>4, FileMoves

\* The files after a step, while a request has not become a turn.
LEMMA SavedRequest ==
  ASSUME "disk" \notin Faults, "crash" \in Faults,
         TypeOK, ReadyInv, RepeatInv, KeptInv, Next, OnWire',
         wire'.client # 0, wire'.turn = 0
  PROVE  /\ disk'.state.turn = 0 /\ disk'.state.uncertain
         /\ disk'.state.client = wire'.client /\ disk'.state.thread = wire'.thread
         /\ disk'.prompt = wire'.task
<1>1. CASE Mark
  <2>1. diskOk /\ w.pc \in {"mark", "markQueued"}
    BY <1>1 DEF RepeatInv, Filed, Mark
  <2>2. /\ Looks(w', "submit", w.started, w.connected, w.prompt)
        /\ Has(w'.m, w.m.phase, w.m.thread, w.m.turn, TRUE, minted + 1,
               w.m.followUp, w.m.queued)
        /\ wire' = [client |-> minted + 1, thread |-> w.m.thread,
                    task |-> w.prompt, turn |-> 0,
                    kind |-> IF w.m.followUp THEN "continue" ELSE "original"]
    BY <1>1, <2>1, SubmissionMoves
  <2>3. /\ wire'.client = minted + 1 /\ wire'.thread = w.m.thread /\ wire'.task = w.prompt
        /\ w'.prompt = w.prompt /\ w'.m.turn = w.m.turn /\ w'.m.uncertain
        /\ w'.m.client = minted + 1 /\ w'.m.thread = w.m.thread
    BY <2>2 DEF Looks, Has
  <2>4. w.m.turn = 0 /\ w.prompt = disk.prompt
    BY <2>1, UnderWay DEF ReadyInv, Ready
  <2>5. PICK s : w' = s /\ SaveState(s)
    BY <1>1, <2>1, <2>2 DEF Mark, Becomes, Looks
  <2>6. disk'.state = w'.m /\ disk'.prompt = disk.prompt
    BY <2>1, <2>5, SaveKept
  <2> QED BY <2>3, <2>4, <2>6
<1>2. CASE ~Mark
  <2>1. ~ServerAccepts BY AcceptedMoves, <1>2 DEF TypeOK
  <2>2. wire' # NoRequest BY DEF NoRequest
  <2>3. wire' = wire BY <1>2, <2>1, <2>2, WireMoves
  <2>4. w.pc \in {"submit", "down"} /\ w'.pc \in {"submit", "down"}
    BY <2>3 DEF RepeatInv, OnWire
  <2>5. ~Shutdown BY <2>4 DEF Shutdown, Asks, Listening
  <2>6. disk' = disk
    <3>1. CASE CodexStep \/ MachineStep
      BY <3>1 DEF CodexStep, ServerAccepts, TurnEnds, Notices, ThreadBreaks, ForeignTurn,
                  MachineStep, Disconnects, DiskFails, DiskRecovers, Crash
    <3>2. ~(CodexStep \/ MachineStep) => ~Crash BY DEF MachineStep
    <3> QED BY <1>2, <2>4, <2>5, <3>1, <3>2, PlacesOnly
  <2> QED BY <2>3, <2>6 DEF RepeatInv, Filed
<1> QED BY <1>1, <1>2

LEMMA FiledStep ==
  ASSUME {"foreign", "disk"} \cap Faults = {},
         "crash" \notin Faults \/ {"queue", "new"} \cap Commands = {},
         TypeOK, ReadyInv, RepeatInv, Next,
         "crash" \in Faults => KeptInv /\ KeptInv',
         Bears(w, fresh, wire.turn)', OnWire'
  PROVE  Filed'
<1>0. diskOk BY DEF RepeatInv, Filed
<1>1. diskOk'
  <2>1. CASE UserStep
    BY <1>0, <2>1 DEF UserStep, StartConfigured, StartNewConfigured, QueueMessage,
        Configure, SaveAgain, Resume, ClearQueued, PauseTask, Stop, Reset, Shutdown, world
  <2>2. CASE WorkerStep
    BY <1>0, <2>2 DEF WorkerStep, InterruptReply, ConnectReply, CreateReply, ResumeReply,
        ResumeFails, Mark, SubmitReply, SubmitFails, Handover, OnTurnStarted, OnError,
        OnTurnCompleted, OnSystemError, OnDisconnected, HandleDeadline, Restart, world
  <2>3. CASE CodexStep \/ MachineStep
    BY <1>0, <2>3 DEF CodexStep, ServerAccepts, TurnEnds, Notices, ThreadBreaks,
        ForeignTurn, MachineStep, Disconnects, DiskFails, DiskRecovers, Crash, Fault, world
  <2> QED BY <2>1, <2>2, <2>3 DEF Next
<1>2. ASSUME "crash" \notin Faults, w'.pc = "down" PROVE disk'.state = Fresh
  <2>1. CASE Shutdown
    <3> DEFINE s == [w EXCEPT !.m = ClearSession(@)]
    <3>1. SaveState(s) BY <2>1 DEF Shutdown
    <3>2. s.m = ClearSession(w.m) BY DEF TypeOK, Memory
    <3> HIDE DEF s
    <3>3. disk'.state = s.m BY <1>0, <3>1, SaveKept
    <3> QED BY <3>2, <3>3 DEF ClearSession
  <2>2. CASE w' = w /\ (CodexStep \/ MachineStep)
    <3>1. disk' = disk
      BY <2>2 DEF CodexStep, ServerAccepts, TurnEnds, Notices, ThreadBreaks, ForeignTurn,
                  MachineStep, Disconnects, DiskFails, DiskRecovers, Crash
    <3> QED BY <1>2, <2>2, <3>1 DEF RepeatInv, Filed
  <2>3. ~Mark
    <3>1. Mark => w'.pc \in {"submit", "loop"} BY SubmissionMoves DEF Looks
    <3> QED BY <1>2, <3>1
  <2>4. ~Crash BY <1>2 DEF Crash, Fault
  <2> QED BY <1>2, <2>1, <2>2, <2>3, <2>4, PlacesOnly
<1>3. ASSUME "crash" \in Faults
      PROVE  /\ disk'.prompt \notin fresh' /\ disk'.state.queued = NoTask
             /\ PickedUp(disk'.state) => disk'.digest = disk'.prompt
             /\ RequiresRecovery(disk'.state) =>
                  disk'.prompt # NoTask /\ Minds(disk.state, disk.prompt)'
             /\ wire'.client # 0 /\ wire'.turn = 0 =>
                  /\ disk'.state.turn = 0 /\ disk'.state.uncertain
                  /\ disk'.state.client = wire'.client
                  /\ disk'.state.thread = wire'.thread
                  /\ disk'.prompt = wire'.task
  BY <1>3, SavedStep, SavedRequest
<1> QED BY <1>1, <1>2, <1>3 DEF Filed, PickedUp, RequiresRecovery

LEMMA RepeatStep ==
  ASSUME "unoffered" \notin Commands,
         {"busy", "unread", "system", "foreign", "deleted", "disk"} \cap Faults = {},
         "crash" \notin Faults \/ {"queue", "new"} \cap Commands = {},
         TypeOK, ReadyInv, RepeatInv, Next,
         "crash" \in Faults => KeptInv /\ KeptInv'
  PROVE  RepeatInv'
<1>1. Bears(w, fresh, wire.turn)' BY BearsMoves, BearsStep
<1>2. Bygone' BY BygoneStep
<1>3. OnWire' BY OnWireStep
<1>4. Filed' BY <1>1, <1>3, FiledStep
<1>5. NoSystemError'
  <2>1. ASSUME NEW k \in 1..Len(events') PROVE events'[k].type # "systemError"
    <3>1. CASE \E j \in 1..Len(events) : events'[k] = events[j]
      BY <3>1 DEF RepeatInv, NoSystemError
    <3> QED BY <3>1, EventsMade
  <2> QED BY <2>1 DEF NoSystemError
<1> QED BY <1>1, <1>2, <1>3, <1>4, <1>5 DEF RepeatInv

LEMMA InitRepeat == Init => RepeatInv
<1>1. Has(Fresh, "Idle", 0, 0, FALSE, 0, FALSE, NoTask) BY FreshEffect
<1>2. Init => /\ w.m = Fresh /\ Looks(w, "loop", FALSE, FALSE, NoTask)
              /\ turns = << >> /\ events = << >> /\ wire = NoRequest /\ diskOk
              /\ fresh = Tasks /\ disk.state = Fresh /\ disk.prompt = NoTask
  BY DEF Init, Offline, Looks
<1>3. Init => AtRest(w) /\ w.m.queued = NoTask /\ w.prompt = NoTask /\ w.pc = "loop"
              /\ ~w.started
  BY <1>1, <1>2 DEF Looks, Has, AtRest
<1>4. Init => Bears(w, fresh, wire.turn)
  BY <1>2, <1>3, MachineAssumption DEF Bears, Heeds, Underway, Opening
<1>5. Init => Bygone /\ NoSystemError
  BY <1>2 DEF Bygone, NoSystemError
<1>6. Init => OnWire
  BY <1>2, <1>3 DEF OnWire, NoRequest
<1>7. Init => Filed
  BY <1>2, RestIsDone, MachineAssumption DEF Filed, NoRequest
<1> QED BY <1>4, <1>5, <1>6, <1>7 DEF RepeatInv

\* A text that Codex has answered, or is still working on, is not sent again as a new task,
\* for every set of tasks and every bound: through lost and garbled answers to turn/start,
\* timeouts, refused requests, lost notifications, reconnections and Continue, because the
\* write-ahead marker of submit_next_request makes the next handle_resume ask what became
\* of the request, and schedule_retry turns an attempt whose turn is known into a
\* continuation.  Crashes are covered for a window that neither types ahead nor uses Start
\* new: those two write the text and the state in two steps, and a crash between them
\* restores a state with another text.  Without any other exclusion it is false too: a
\* retryable refusal and a systemError take the memory of the request away, a history that
\* cannot be read or a second client hides its turn, a deleted conversation takes the turn
\* along, a disk that refuses keeps an older state, and a command the window does not
\* offer restarts a text.
THEOREM NoRepeatAfterAnswerCorrect ==
  ASSUME "unoffered" \notin Commands,
         {"busy", "unread", "system", "foreign", "deleted", "disk"} \cap Faults = {},
         "crash" \notin Faults \/ {"queue", "new"} \cap Commands = {}
  PROVE  Spec => []NoRepeatAfterAnswer
<1> DEFINE Saved == "crash" \in Faults => KeptInv
<1>1. RepeatInv => NoRepeatAfterAnswer
  BY DEF RepeatInv, Bygone, Alive, NoRepeatAfterAnswer
<1>2. Init => Saved BY DEF Init, Offline, KeptInv, Empty
<1>3. TypeOK /\ ReadyInv /\ Saved /\ [Next]_vars => Saved' BY KeptStep
<1>4. TypeOK /\ ReadyInv /\ RepeatInv /\ Saved /\ Saved' /\ [Next]_vars => RepeatInv'
  <2>1. ASSUME RepeatInv, UNCHANGED vars PROVE RepeatInv'
    BY <2>1 DEF vars, RepeatInv, Bears, Heeds, AtRest, Minds, Owes, Alive, Sent, Novel,
                Bygone, OnWire, Filed, NoSystemError, LatestIn, IsLatestTurn
  <2> QED BY <2>1, RepeatStep
<1> HIDE DEF Saved
<1> QED BY <1>1, <1>2, <1>3, <1>4, InitRepeat, InitReady, ReadyStep, TypeCorrect, PTL
        DEF Spec
=============================================================================
