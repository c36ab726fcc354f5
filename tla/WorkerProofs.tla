---------------------------- MODULE WorkerProofs ----------------------------
(***************************************************************************)
(* What holds of the worker for every set of tasks, commands and faults,   *)
(* and every bound on them.                                                *)
(***************************************************************************)
EXTENDS Worker, TLAPS

-----------------------------------------------------------------------------
\* Every operator of the queue machine keeps its type.

LEMMA PhaseNames ==
  /\ "Idle" \in Phases /\ "Connecting" \in Phases /\ "Sending" \in Phases
  /\ "Waiting" \in Phases /\ "Backoff" \in Phases /\ "Success" \in Phases
  /\ "Paused" \in Phases /\ "FatalError" \in Phases
BY DEF Phases

LEMMA FreshType == Fresh \in Machine
BY DEF Fresh, Machine, Phases

LEMMA FollowUpType ==
  ASSUME NEW m \in Machine
  PROVE  PrepareFollowUp(m) \in Machine /\ StopCurrentTurn(m) \in Machine
<1>1. PrepareFollowUp(m) \in Machine
  BY FreshType DEF PrepareFollowUp, Machine
<1> QED BY <1>1 DEF StopCurrentTurn

LEMMA ConnectingTypes ==
  ASSUME NEW m \in Machine
  PROVE  /\ BeginConnecting(m) \in Machine
         /\ Reactivate(m) \in Machine
         /\ ClearThread(m) \in Machine
         /\ ClearSession(m) \in Machine
<1>1. ClearSession(m) \in Machine
  BY FreshType DEF ClearSession
<1>2. BeginConnecting(m) \in Machine
  BY PhaseNames DEF BeginConnecting, Machine
<1>3. Reactivate(m) \in Machine
  BY PhaseNames DEF Reactivate, Machine
<1>4. ClearThread(m) \in Machine
  BY DEF ClearThread, Machine
<1> QED BY <1>1, <1>2, <1>3, <1>4

LEMMA ThreadType ==
  ASSUME NEW m \in Machine, NEW t \in Nat
  PROVE  SetThread(m, t) \in Machine
BY DEF SetThread, Machine

LEMMA SubmissionTypes ==
  ASSUME NEW m \in Machine, NEW t \in Nat
  PROVE  /\ BeginSending(m) \in Machine
         /\ MarkSubmission(m, t) \in Machine
         /\ SetActiveTurn(m, t) \in Machine
         /\ ForgetTurn(m) \in Machine
<1>1. BeginSending(m) \in Machine
  BY PhaseNames DEF BeginSending, Machine
<1>2. MarkSubmission(m, t) \in Machine
  BY DEF MarkSubmission, Machine
<1>3. SetActiveTurn(m, t) \in Machine
  BY PhaseNames DEF SetActiveTurn, Machine
<1>4. ForgetTurn(m) \in Machine
  BY DEF ForgetTurn, Machine
<1> QED BY <1>1, <1>2, <1>3, <1>4

LEMMA EndingTypes ==
  ASSUME NEW m \in Machine
  PROVE  /\ MarkEmptyReply(m) \in Machine
         /\ MarkRetryAsFollowUp(m) \in Machine
         /\ FollowUpIfActive(m) \in Machine
         /\ ScheduleRetry(m) \in Machine
         /\ Succeed(m) \in Machine
         /\ Pause(m) \in Machine
         /\ Fatal(m) \in Machine
<1>1. MarkEmptyReply(m) \in Machine
  BY DEF MarkEmptyReply, Machine
<1>2. MarkRetryAsFollowUp(m) \in Machine
  BY DEF MarkRetryAsFollowUp, Machine
<1>3. FollowUpIfActive(m) \in Machine
  BY DEF FollowUpIfActive, Machine
<1>4. ScheduleRetry(m) \in Machine
  BY PhaseNames DEF ScheduleRetry, Machine
<1>5. Succeed(m) \in Machine
  <2>1. ASSUME NEW k \in Machine
        PROVE  [k EXCEPT !.phase = "Success", !.turn = 0, !.uncertain = FALSE] \in Machine
    BY PhaseNames DEF Machine
  <2>2. ASSUME NEW k \in Machine, NEW e \in 0..255
        PROVE  [k EXCEPT !.next = FALSE, !.empties = e, !.followUp = FALSE] \in Machine
    BY DEF Machine
  <2> DEFINE k == [m EXCEPT !.phase = "Success", !.turn = 0, !.uncertain = FALSE]
  <2>3. k \in Machine
    BY <2>1
  <2> HIDE DEF k
  <2>. DEFINE zero == 0
  <2>z. zero \in 0..255
    OBVIOUS
  <2>. HIDE DEF zero
  <2>4. [k EXCEPT !.next = FALSE, !.empties = zero, !.followUp = FALSE] \in Machine
    BY <2>2, <2>3, <2>z
  <2>5. Succeed(m) = [k EXCEPT !.next = FALSE, !.empties = zero, !.followUp = FALSE]
    BY DEF Succeed, k, zero
  <2> QED BY <2>4, <2>5
<1>6. Pause(m) \in Machine
  BY PhaseNames DEF Pause, Machine
<1>7. Fatal(m) \in Machine
  BY PhaseNames DEF Fatal, Machine
<1> QED BY <1>1, <1>2, <1>3, <1>4, <1>5, <1>6, <1>7

LEMMA QueuedTypes ==
  ASSUME NEW m \in Machine
  PROVE  /\ ClearQueuedMessage(m) \in Machine
         /\ \A t \in Tasks : SetQueuedMessage(m, t) \in Machine
BY DEF SetQueuedMessage, ClearQueuedMessage, Machine

-----------------------------------------------------------------------------
\* Every pure step of the worker keeps its type.

LEMMA LoopTypes ==
  ASSUME NEW s \in Memory
  PROVE  /\ Loop(s) \in Memory
         /\ ShutdownTransport(s) \in Memory
         /\ \A m \in Machine : Halt(s, m) \in Memory
         /\ \A m \in Machine : [s EXCEPT !.m = m] \in Memory
BY DEF Halt, Loop, ShutdownTransport, Memory

LEMMA RetryTypes ==
  ASSUME NEW s \in Memory
  PROVE  ScheduleRetryW(s) \in Memory /\ ScheduleConnectionRetry(s) \in Memory
<1> DEFINE m1 == ScheduleRetry(FollowUpIfActive(s.m))
           m2 == BeginConnecting(FollowUpIfActive(s.m))
<1>0. s.m \in Machine BY DEF Memory
<1>1. m1 \in Machine BY <1>0, EndingTypes
<1>2. m2 \in Machine BY <1>0, EndingTypes, ConnectingTypes
<1>3. [m2 EXCEPT !.next = TRUE] \in Machine BY <1>2 DEF Machine
<1>4. ScheduleRetryW(s) = Loop([s EXCEPT !.turnDeadline = FALSE, !.m = m1])
  BY DEF ScheduleRetryW
<1>5. ScheduleConnectionRetry(s) = Loop([s EXCEPT !.m = [m2 EXCEPT !.next = TRUE]])
  BY DEF ScheduleConnectionRetry
<1> HIDE DEF m1, m2
<1>6. [s EXCEPT !.turnDeadline = FALSE, !.m = m1] \in Memory
  BY <1>1 DEF Memory
<1> QED BY <1>3, <1>4, <1>5, <1>6, LoopTypes

LEMMA FailureTypes ==
  ASSUME NEW s \in Memory, NEW kind \in FailureKinds
  PROVE  HandleTransportFailure(s, kind) \in Memory
<1>0. s.m \in Machine BY DEF Memory
<1>1. Halt(s, Pause(s.m)) \in Memory BY <1>0, EndingTypes, LoopTypes
<1>2. Halt(s, Fatal(s.m)) \in Memory BY <1>0, EndingTypes, LoopTypes
<1>3. ScheduleRetryW(s) \in Memory BY RetryTypes
<1>4. [s EXCEPT !.turnDeadline = FALSE] \in Memory BY DEF Memory
<1>5. ScheduleConnectionRetry(ShutdownTransport([s EXCEPT !.turnDeadline = FALSE]))
        \in Memory
  BY <1>4, LoopTypes, RetryTypes
<1> QED BY <1>1, <1>2, <1>3, <1>5 DEF HandleTransportFailure, FailureKinds

LEMMA AttemptTypes ==
  ASSUME NEW s \in Memory
  PROVE  /\ EnsureConnectionAndThread(s) \in Memory
         /\ SendAttempt(s) \in Memory
         /\ \A t \in Nat : SetActiveTurnW(s, t) \in Memory
<1>0. s.m \in Machine BY DEF Memory
<1>1. EnsureConnectionAndThread(s) \in Memory
  <2>1. BeginConnecting(s.m) \in Machine BY <1>0, ConnectingTypes
  <2> QED BY <2>1 DEF EnsureConnectionAndThread, Memory, Awaits
<1>2. SendAttempt(s) \in Memory
  <2>1. BeginSending(s.m) \in Machine BY <1>0, SubmissionTypes
  <2>2. [s EXCEPT !.pc = "mark", !.m = BeginSending(@)] \in Memory
    BY <2>1 DEF Memory, Awaits
  <2> QED BY <2>2, LoopTypes DEF SendAttempt
<1>3. ASSUME NEW t \in Nat PROVE SetActiveTurnW(s, t) \in Memory
  <2>1. SetActiveTurn(s.m, t) \in Machine BY <1>0, SubmissionTypes
  <2>2. [s EXCEPT !.m = SetActiveTurn(@, t), !.turnDeadline = TRUE] \in Memory
    BY <2>1 DEF Memory
  <2>3. [s EXCEPT !.pc = "dead"] \in Memory BY DEF Memory
  <2> QED BY <2>2, <2>3, LoopTypes DEF SetActiveTurnW
<1> QED BY <1>1, <1>2, <1>3

LEMMA CompletionTypes ==
  ASSUME NEW s \in Memory, NEW outcome
  PROVE  HandleCompletedTurn(s, outcome) \in Memory
<1> DEFINE settled == [s EXCEPT !.m.uncertain = FALSE, !.turnDeadline = FALSE]
           done    == [settled EXCEPT !.m = Succeed(@)]
           retried == [settled EXCEPT !.m = MarkEmptyReply(@)]
<1>1. settled \in Memory
  <2>1. [s.m EXCEPT !.uncertain = FALSE] \in Machine BY DEF Memory, Machine
  <2> QED BY <2>1 DEF Memory
<1>2. settled.m \in Machine BY <1>1 DEF Memory
<1> HIDE DEF settled
<1>3. done \in Memory /\ retried \in Memory
  <2>1. Succeed(settled.m) \in Machine /\ MarkEmptyReply(settled.m) \in Machine
    BY <1>2, EndingTypes
  <2> QED BY <1>1, <2>1 DEF Memory
<1> HIDE DEF done, retried
<1>4. s.m.queued # NoTask => StartQueuedMessage(done) \in Memory
  <2>1. done.m \in Machine BY <1>3 DEF Memory
  <2>2. PrepareFollowUp(ClearQueuedMessage(done.m)) \in Machine
    BY <2>1, QueuedTypes, FollowUpType
  <2>3. done.m.queued \in Prompts BY <2>1 DEF Machine, Prompts
  <2> QED BY <1>3, <2>2, <2>3 DEF StartQueuedMessage, Memory, Awaits
<1>5. Halt(settled, Succeed(settled.m)) \in Memory /\ Halt(settled, Pause(settled.m)) \in Memory
  BY <1>1, <1>2, EndingTypes, LoopTypes
<1>6. ScheduleRetryW(retried) \in Memory /\ ScheduleRetryW(settled) \in Memory
  BY <1>1, <1>3, RetryTypes
<1>7. [settled EXCEPT !.m = settled.m] = settled
  BY <1>1 DEF Memory
<1> DEFINE decision == ClassifyTurnCompletion(outcome, s.m.empties)
<1>8. HandleCompletedTurn(s, outcome) =
        CASE decision[1] = "success" /\ s.m.queued # NoTask -> StartQueuedMessage(done)
          [] decision[1] = "success" /\ s.m.queued = NoTask ->
               Halt(settled, Succeed(settled.m))
          [] decision[1] = "retry" ->
               ScheduleRetryW([settled EXCEPT !.m = IF decision[2]
                                                    THEN MarkEmptyReply(@) ELSE @])
          [] OTHER -> Halt(settled, Pause(settled.m))
  BY DEF HandleCompletedTurn, settled, done
<1>9. ScheduleRetryW([settled EXCEPT !.m = IF decision[2]
                                           THEN MarkEmptyReply(@) ELSE @]) \in Memory
  <2>1. CASE decision[2]
    BY <2>1, <1>6 DEF retried
  <2>2. CASE ~decision[2]
    BY <2>2, <1>6, <1>7
  <2> QED BY <2>1, <2>2
<1> HIDE DEF decision
<1> QED BY <1>4, <1>5, <1>8, <1>9

LEMMA SessionTypes ==
  ASSUME NEW s0 \in Memory, NEW thread \in Nat, NEW latest \in Nat,
         NEW reports \in BOOLEAN
  PROVE  ApplyThreadSession(s0, thread, latest, reports) \in Memory
<1> DEFINE s == [s0 EXCEPT !.m = SetThread(@, thread), !.resumeRequested = FALSE]
           clean == [s EXCEPT !.m = ForgetTurn(@)]
           again == [clean EXCEPT !.m = MarkRetryAsFollowUp(@)]
           outcome == turns[latest].outcome
           owed == AwaitingOutcome(s.m)
           foreign == owed /\ NotOurs(s.m, turns[latest], reports)
<1>1. s \in Memory
  <2>1. SetThread(s0.m, thread) \in Machine BY ThreadType DEF Memory
  <2> QED BY <2>1 DEF Memory
<1> HIDE DEF s
<1>2. s.m \in Machine /\ ForgetTurn(s.m) \in Machine
  BY <1>1, SubmissionTypes DEF Memory
<1>3. clean \in Memory
  BY <1>1, <1>2 DEF Memory
<1> HIDE DEF clean
<1>4. again \in Memory
  <2>1. MarkRetryAsFollowUp(clean.m) \in Machine BY <1>3, EndingTypes DEF Memory
  <2> QED BY <1>3, <2>1 DEF Memory
<1> HIDE DEF again
<1>5. AdoptTurn(s, latest) \in Memory
  <2> DEFINE a == [s EXCEPT !.m = IF @.turn = latest THEN @ ELSE ForgetTurn(@)]
  <2>1. a \in Memory BY <1>1, <1>2 DEF Memory
  <2>2. AdoptTurn(s, latest) = SetActiveTurnW(a, latest) BY DEF AdoptTurn
  <2> HIDE DEF a
  <2> QED BY <2>1, <2>2, AttemptTypes
<1>6. /\ ScheduleRetryW(s) \in Memory /\ ScheduleRetryW(clean) \in Memory
      /\ SendAttempt(s) \in Memory /\ SendAttempt(clean) \in Memory
      /\ SendAttempt(again) \in Memory
  BY <1>1, <1>3, <1>4, RetryTypes, AttemptTypes
<1>7. HandleCompletedTurn(s, outcome) \in Memory
  BY <1>1, CompletionTypes
<1>8. ApplyThreadSession(s0, thread, latest, reports) =
        CASE latest = 0 /\ owed -> ScheduleRetryW(s)
          [] latest = 0 /\ ~owed -> SendAttempt(s)
          [] latest # 0 /\ foreign ->
               IF outcome = "running" THEN ScheduleRetryW(clean) ELSE SendAttempt(clean)
          [] latest # 0 /\ ~foreign /\ outcome = "running" -> AdoptTurn(s, latest)
          [] latest # 0 /\ ~foreign /\ outcome # "running" ->
               IF ~owed THEN SendAttempt(s)
               ELSE IF outcome = "interrupted" /\ s0.resumeRequested
               THEN SendAttempt(again)
               ELSE HandleCompletedTurn(s, outcome)
  BY DEF ApplyThreadSession, s, clean, again
<1> HIDE DEF outcome, owed, foreign
<1> QED BY <1>5, <1>6, <1>7, <1>8

LEMMA CommandTypes ==
  ASSUME NEW s \in Memory
  PROVE  /\ StopTask(s) \in Memory
         /\ Pristine(s) \in Memory
         /\ \A t \in Tasks \cup {NoTask} : StartNewTask(s, t) \in Memory
<1>0. s.m \in Machine BY DEF Memory
<1>1. StopTask(s) \in Memory
  <2>1. StopCurrentTurn(s.m) \in Machine /\ s.m.turn \in Nat
    BY <1>0, FollowUpType DEF Machine
  <2> QED BY <2>1 DEF StopTask, Memory
<1>2. Pristine(s) \in Memory
  <2>1. Halt(s, ClearSession(s.m)) \in Memory BY <1>0, ConnectingTypes, LoopTypes
  <2>2. ASSUME NEW k \in Memory
        PROVE  [k EXCEPT !.resumeRequested = FALSE, !.prompt = NoTask,
                         !.interrupting = 0] \in Memory
    BY DEF Memory, Prompts
  <2> QED BY <2>1, <2>2, LoopTypes DEF Pristine
<1>3. ASSUME NEW t \in Tasks \cup {NoTask} PROVE StartNewTask(s, t) \in Memory
  <2> DEFINE m == Reactivate(ClearSession(s.m))
             k == [s EXCEPT !.m = m, !.started = TRUE, !.turnDeadline = FALSE,
                            !.prompt = t, !.incoming = NoTask, !.interrupting = 0]
  <2>1. m \in Machine BY <1>0, ConnectingTypes
  <2>2. StartNewTask(s, t) = EnsureConnectionAndThread(ShutdownTransport(k))
    BY DEF StartNewTask
  <2> HIDE DEF m
  <2>3. k \in Memory BY <2>1 DEF Memory, Prompts
  <2> HIDE DEF k
  <2> QED BY <2>2, <2>3, LoopTypes, AttemptTypes
<1> QED BY <1>1, <1>2, <1>3

LEMMA OfflineType ==
  ASSUME NEW m \in Machine, NEW p \in Prompts
  PROVE  Offline(m, p) \in Memory
BY DEF Offline, Memory, Prompts

LEMMA DownType == Down \in Memory
<1>1. Offline(Fresh, NoTask) \in Memory
  BY FreshType, OfflineType DEF Prompts
<1> QED BY <1>1 DEF Down, Memory

\* What a handler leaves behind is typed when its memory is.
LEMMA LeavesTypes ==
  ASSUME TypeOK, NEW s \in Memory, NEW rest \in Seq(Event)
  PROVE  /\ Becomes(s, rest) => w' \in Memory /\ events' \in Seq(Event)
         /\ SaveState(s) => disk' \in Disk
         /\ SaveConfig(s) => disk' \in Disk
         /\ SaveConfigAndState(s) => disk' \in Disk
         /\ SaveOutcome(s) => disk' \in Disk
         /\ UNCHANGED disk => disk' \in Disk
<1>1. s.m \in Machine /\ s.prompt \in Prompts /\ disk \in Disk
  BY DEF Memory, TypeOK
<1>2. Becomes(s, rest) => w' \in Memory /\ events' \in Seq(Event)
  BY DEF Becomes
<1>3. SaveState(s) => disk' \in Disk
  BY <1>1 DEF SaveState, Disk
<1>4. SaveConfig(s) => disk' \in Disk
  BY <1>1 DEF SaveConfig, Disk
<1>5. SaveConfigAndState(s) => disk' \in Disk
  BY <1>1 DEF SaveConfigAndState, Disk
<1> QED BY <1>1, <1>2, <1>3, <1>4, <1>5 DEF SaveOutcome

LEMMA BudgetType ==
  ASSUME TypeOK
  PROVE  /\ Spend => budget' \in 0..MaxFaults
         /\ \A f : Fault(f) => budget' \in 0..MaxFaults
         /\ UNCHANGED budget => budget' \in 0..MaxFaults
BY WorkerAssumption DEF TypeOK, Spend, Fault

LEMMA InitType == Init => TypeOK
<1> SUFFICES ASSUME Init PROVE TypeOK
  OBVIOUS
<1>1. w \in Memory
  BY FreshType, OfflineType DEF Init, Prompts
<1>2. disk \in Disk
  BY FreshType DEF Init, Disk, Prompts
<1>3. wire \in Request
  BY DEF Init, NoRequest, Request, Prompts
<1>4. events \in Seq(Event) /\ turns \in Seq(Turn)
  BY DEF Init
<1>5. budget \in 0..MaxFaults /\ threads \in Nat /\ minted \in Nat
  BY WorkerAssumption DEF Init
<1>6. fresh \subseteq Tasks /\ reported \subseteq [task : Prompts, turn : Nat]
  BY DEF Init
<1>7. diskOk \in BOOLEAN /\ userStopped \in BOOLEAN
  BY DEF Init
<1> QED BY <1>1, <1>2, <1>3, <1>4, <1>5, <1>6, <1>7 DEF TypeOK

-----------------------------------------------------------------------------
\* Every action keeps the type invariant, user actions first.

LEMMA UserTypes ==
  ASSUME TypeOK, UserStep
  PROVE  TypeOK'
<1>0. w \in Memory /\ w.m \in Machine /\ w.m.queued \in Prompts /\ w.m.turn \in Nat
  BY DEF TypeOK, Memory, Machine, Prompts
<1>1. ASSUME NEW t \in Tasks, StartConfigured(t) PROVE TypeOK'
  <2> DEFINE m1 == [w.m EXCEPT !.followUp = FALSE]
             m2 == IF m1.phase \in {"Success", "Paused", "FatalError"}
                   THEN PrepareFollowUp(m1) ELSE m1
             s  == [w EXCEPT !.prompt = t, !.started = TRUE, !.m = Reactivate(m2)]
             e  == EnsureConnectionAndThread(s)
  <2>1. m1 \in Machine BY <1>0 DEF Machine
  <2>2. m2 \in Machine BY <2>1, FollowUpType
  <2> HIDE DEF m2
  <2>3. s \in Memory BY <1>0, <2>2, ConnectingTypes DEF Memory, Prompts
  <2> HIDE DEF s
  <2>4. e \in Memory BY <2>3, AttemptTypes
  <2>5. Becomes(e, events) /\ SaveConfigAndState(e)
    BY <1>1 DEF StartConfigured, m2, s
  <2> HIDE DEF e
  <2>6. w' \in Memory /\ events' \in Seq(Event) /\ disk' \in Disk
    BY <2>4, <2>5, LeavesTypes DEF TypeOK
  <2>7. UNCHANGED <<server, minted, world, reported>> /\ fresh' \subseteq Tasks
        /\ userStopped' \in BOOLEAN
    BY <1>1 DEF StartConfigured, TypeOK
  <2> QED BY <2>6, <2>7 DEF TypeOK, server, world
<1>2. ASSUME NEW t \in Tasks, StartNewConfigured(t) PROVE TypeOK'
  <2> DEFINE s == IF MustInterrupt
                  THEN [StopTask(w) EXCEPT !.pc = "replacing", !.incoming = t]
                  ELSE StartNewTask(w, t)
  <2>1. s \in Memory
    <3>1. [StopTask(w) EXCEPT !.pc = "replacing", !.incoming = t] \in Memory
      BY <1>0, CommandTypes, ZenonT(40) DEF Memory, Awaits, Prompts
    <3> QED BY <1>0, <3>1, CommandTypes
  <2>2. Becomes(s, events) /\ SaveState(s)
    BY <1>2 DEF StartNewConfigured
  <2> HIDE DEF s
  <2>3. w' \in Memory /\ events' \in Seq(Event) /\ disk' \in Disk
    BY <2>1, <2>2, LeavesTypes DEF TypeOK
  <2>4. UNCHANGED <<server, minted, world, reported>> /\ fresh' \subseteq Tasks
        /\ userStopped' \in BOOLEAN
    BY <1>2 DEF StartNewConfigured, TypeOK
  <2> QED BY <2>3, <2>4 DEF TypeOK, server, world
<1>3. ASSUME NEW t \in Tasks, QueueMessage(t) PROVE TypeOK'
  <2> DEFINE s == [w EXCEPT !.m = SetQueuedMessage(@, t)]
  <2>1. s \in Memory BY <1>0, QueuedTypes DEF Memory
  <2>2. Becomes(s, events) /\ SaveState(s)
    BY <1>3 DEF QueueMessage
  <2> HIDE DEF s
  <2>3. w' \in Memory /\ events' \in Seq(Event) /\ disk' \in Disk
    BY <2>1, <2>2, LeavesTypes DEF TypeOK
  <2>4. UNCHANGED <<server, minted, world, history>> /\ fresh' \subseteq Tasks
    BY <1>3 DEF QueueMessage, TypeOK
  <2> QED BY <2>3, <2>4 DEF TypeOK, server, world, history
<1>4. CASE Configure \/ SaveAgain
  <2>1. disk' \in Disk
    BY <1>0, <1>4, LeavesTypes DEF Configure, SaveAgain, TypeOK
  <2>2. UNCHANGED <<w, events, server, minted, world, fresh, history>>
    BY <1>4 DEF Configure, SaveAgain
  <2> QED BY <2>1, <2>2 DEF TypeOK, server, world, history
<1>5. CASE Resume
  <2> DEFINE s1 == [w EXCEPT !.m = Pause(@)]
             k2 == [w EXCEPT !.started = TRUE, !.m = Reactivate(@)]
             k3 == [w EXCEPT !.started = TRUE, !.resumeRequested = TRUE,
                             !.m = Reactivate(FollowUpIfActive(@))]
  <2>1. s1 \in Memory BY <1>0, EndingTypes DEF Memory
  <2>2. k2 \in Memory BY <1>0, ConnectingTypes DEF Memory
  <2>3. k3 \in Memory BY <1>0, ConnectingTypes, EndingTypes DEF Memory
  <2>4. \E s \in {s1, EnsureConnectionAndThread(k2), EnsureConnectionAndThread(k3)} :
          Becomes(s, events) /\ SaveState(s)
    BY <1>5 DEF Resume
  <2> HIDE DEF s1, k2, k3
  <2>5. EnsureConnectionAndThread(k2) \in Memory /\ EnsureConnectionAndThread(k3) \in Memory
    BY <2>2, <2>3, AttemptTypes
  <2>6. w' \in Memory /\ events' \in Seq(Event) /\ disk' \in Disk
    BY <2>1, <2>4, <2>5, LeavesTypes DEF TypeOK
  <2>7. UNCHANGED <<server, minted, diskOk, fresh, reported>>
        /\ userStopped' \in BOOLEAN /\ budget' \in 0..MaxFaults
    BY <1>5, BudgetType DEF Resume
  <2> QED BY <2>6, <2>7 DEF TypeOK, server
<1>6. CASE ClearQueued
  <2> DEFINE s == [w EXCEPT !.m = ClearQueuedMessage(@)]
  <2>1. s \in Memory BY <1>0, QueuedTypes DEF Memory
  <2>2. Becomes(s, events) /\ SaveState(s)
    BY <1>6 DEF ClearQueued
  <2> HIDE DEF s
  <2>3. w' \in Memory /\ events' \in Seq(Event) /\ disk' \in Disk
    BY <2>1, <2>2, LeavesTypes DEF TypeOK
  <2>4. UNCHANGED <<server, minted, world, fresh, history>>
    BY <1>6 DEF ClearQueued
  <2> QED BY <2>3, <2>4 DEF TypeOK, server, world, history
<1>7. CASE PauseTask
  <2> DEFINE s == [w EXCEPT !.started = FALSE, !.turnDeadline = FALSE, !.m = Pause(@)]
             p == [s EXCEPT !.pc = "pausing", !.interrupting = s.m.turn]
  <2>1. s \in Memory /\ s.m.turn \in Nat
    <3>1. Pause(w.m) \in Machine BY <1>0, EndingTypes
    <3>2. s \in Memory BY <1>0, <3>1 DEF Memory
    <3> QED BY <3>2 DEF Memory, Machine
  <2>2. \/ Becomes(p, events) /\ SaveState(p)
        \/ Becomes(ShutdownTransport(s), events) /\ SaveState(s)
    BY <1>7 DEF PauseTask
  <2> HIDE DEF s
  <2>3. p \in Memory BY <2>1 DEF Memory, Awaits
  <2> HIDE DEF p
  <2>4. ShutdownTransport(s) \in Memory BY <2>1, LoopTypes
  <2>5. w' \in Memory /\ events' \in Seq(Event) /\ disk' \in Disk
    BY <2>1, <2>2, <2>3, <2>4, LeavesTypes DEF TypeOK
  <2>6. UNCHANGED <<server, minted, world, fresh, reported>> /\ userStopped' \in BOOLEAN
    BY <1>7 DEF PauseTask
  <2> QED BY <2>5, <2>6 DEF TypeOK, server, world
<1>8. CASE Stop
  <2> DEFINE s == IF MustInterrupt THEN [StopTask(w) EXCEPT !.pc = "stopping"]
                                   ELSE ShutdownTransport(StopTask(w))
  <2>1. s \in Memory
    <3>1. [StopTask(w) EXCEPT !.pc = "stopping"] \in Memory
      BY <1>0, CommandTypes DEF Memory, Awaits
    <3> QED BY <1>0, <3>1, CommandTypes, LoopTypes
  <2>2. Becomes(s, events) /\ SaveState(s)
    BY <1>8 DEF Stop
  <2> HIDE DEF s
  <2>3. w' \in Memory /\ events' \in Seq(Event) /\ disk' \in Disk
    BY <2>1, <2>2, LeavesTypes DEF TypeOK
  <2>4. UNCHANGED <<server, minted, world, fresh, reported>> /\ userStopped' \in BOOLEAN
    BY <1>8 DEF Stop
  <2> QED BY <2>3, <2>4 DEF TypeOK, server, world
<1>9. CASE Reset
  <2> DEFINE s == [StopTask(w) EXCEPT !.pc = "resetting"]
  <2>1. s \in Memory
    BY <1>0, CommandTypes DEF Memory, Awaits
  <2>2. \/ Becomes(s, events) /\ SaveState(s)
        \/ Becomes(Pristine(w), events) /\ SaveConfigAndState(Pristine(w))
    BY <1>9 DEF Reset
  <2> HIDE DEF s
  <2>3. Pristine(w) \in Memory BY <1>0, CommandTypes
  <2>4. w' \in Memory /\ events' \in Seq(Event) /\ disk' \in Disk
    BY <2>1, <2>2, <2>3, LeavesTypes DEF TypeOK
  <2>5. UNCHANGED <<server, minted, world, fresh, reported>> /\ userStopped' \in BOOLEAN
    BY <1>9 DEF Reset
  <2> QED BY <2>4, <2>5 DEF TypeOK, server, world
<1>10. CASE Shutdown
  <2> DEFINE s == [w EXCEPT !.m = ClearSession(@)]
  <2>1. s \in Memory BY <1>0, ConnectingTypes DEF Memory
  <2>2. Becomes(Down, << >>) /\ SaveState(s)
    BY <1>10 DEF Shutdown
  <2> HIDE DEF s
  <2>3. w' \in Memory /\ events' \in Seq(Event) /\ disk' \in Disk
    <3>1. << >> \in Seq(Event) OBVIOUS
    <3>2. Down \in Memory BY DownType
    <3>3. w' \in Memory /\ events' \in Seq(Event)
      BY <2>2, <3>1, <3>2, LeavesTypes
    <3>4. disk' \in Disk
      BY <2>1, <2>2, <3>1, LeavesTypes
    <3> QED BY <3>3, <3>4
  <2>4. UNCHANGED <<server, minted, diskOk, fresh, reported>>
        /\ userStopped' \in BOOLEAN /\ budget' \in 0..MaxFaults
    BY <1>10, BudgetType DEF Shutdown
  <2> QED BY <2>3, <2>4 DEF TypeOK, server
<1> QED BY <1>1, <1>2, <1>3, <1>4, <1>5, <1>6, <1>7, <1>8, <1>9, <1>10 DEF UserStep

LEMMA EndedTypes ==
  ASSUME turns \in Seq(Turn), NEW t \in RunningTurns, NEW o \in Outcomes
  PROVE  [turns EXCEPT ![t].outcome = o] \in Seq(Turn)
<1> DEFINE u == [turns[t] EXCEPT !.outcome = o]
<1>1. t \in 1..Len(turns) BY DEF RunningTurns
<1>2. turns[t] \in Turn BY <1>1
<1>3. u \in Turn BY <1>2 DEF Turn
<1>4. [turns EXCEPT ![t].outcome = o] = [turns EXCEPT ![t] = u]
  BY DEF u
<1> HIDE DEF u
<1> QED BY <1>1, <1>3, <1>4

LEMMA SessionStepTypes ==
  ASSUME TypeOK, InterruptReply \/ ConnectReply \/ CreateReply \/ ResumeReply \/ ResumeFails
  PROVE  TypeOK'
<1>0. w \in Memory /\ w.m \in Machine /\ w.m.thread \in Nat /\ w.incoming \in Prompts
  BY DEF TypeOK, Memory, Machine
<1>e. events \in Seq(Event)
  BY DEF TypeOK
<1>f. ASSUME NEW k \in FailureKinds
      PROVE  HandleTransportFailure(w, k) \in Memory
  BY <1>0, FailureTypes
<1>1. CASE InterruptReply
  <2> DEFINE t  == w.interrupting
             ev == [type |-> "completed", turn |-> t]
             idle  == Loop(ShutdownTransport([w EXCEPT !.interrupting = 0]))
             mark  == MarkRetryAsFollowUp(w.m)
             freed == [w EXCEPT !.interrupting = 0, !.m = ForgetTurn(mark)]
             next  == {idle, StartNewTask(w, w.incoming), Pristine(w), ScheduleRetryW(freed)}
  <2>1. next \subseteq Memory
    <3>1. [w EXCEPT !.interrupting = 0] \in Memory BY <1>0 DEF Memory
    <3>2. idle \in Memory BY <3>1, LoopTypes
    <3>3. mark \in Machine BY <1>0, EndingTypes
    <3>4. ForgetTurn(mark) \in Machine BY <3>3, SubmissionTypes
    <3>5. freed \in Memory BY <1>0, <3>4 DEF Memory
    <3>6. ScheduleRetryW(freed) \in Memory BY <3>5, RetryTypes
    <3>7. StartNewTask(w, w.incoming) \in Memory /\ Pristine(w) \in Memory
      BY <1>0, CommandTypes DEF Prompts
    <3> QED BY <3>2, <3>6, <3>7
  <2>2. \E heard \in {events, Append(events, ev)}, s \in next :
          /\ Becomes(s, heard)
          /\ SaveState(s) \/ SaveConfigAndState(s) \/ UNCHANGED disk
    <3>1. w.pc \in {"pausing", "stopping", "replacing", "resetting", "expiring"}
      BY <1>1 DEF InterruptReply
    <3> QED BY <1>1, <3>1 DEF InterruptReply
  <2>3. Append(events, ev) \in Seq(Event)
    <3>1. ev \in Event BY <1>0 DEF Memory, Event, EventTypes
    <3> HIDE DEF ev
    <3> QED BY <1>e, <3>1
  <2>4. w' \in Memory /\ events' \in Seq(Event) /\ disk' \in Disk
    <3> HIDE DEF next, ev
    <3> QED BY <1>e, <2>1, <2>2, <2>3, LeavesTypes
  <2>5. turns' \in Seq(Turn)
    <3>1. turns \in Seq(Turn) BY DEF TypeOK
    <3>2. \/ UNCHANGED turns
          \/ t \in RunningTurns /\ turns' = [turns EXCEPT ![t].outcome = "interrupted"]
      BY <1>1 DEF InterruptReply
    <3>3. "interrupted" \in Outcomes BY DEF Outcomes, Endings
    <3> QED BY <3>1, <3>2, <3>3, EndedTypes
  <2>6. UNCHANGED <<threads, wire, minted, diskOk, fresh, history>>
        /\ budget' \in 0..MaxFaults
    BY <1>1, BudgetType DEF InterruptReply
  <2> QED BY <2>4, <2>5, <2>6 DEF TypeOK, history
<1>2. CASE ConnectReply
  <2> DEFINE k == [w EXCEPT !.connected = TRUE]
  <2>1. k \in Memory BY <1>0 DEF Memory
  <2>2. \/ Becomes(EnsureConnectionAndThread(k), << >>)
           /\ SaveState(EnsureConnectionAndThread(k)) /\ UNCHANGED budget
        \/ \E kind \in FailureKinds :
             /\ FailsAs("connect", kind) /\ Becomes(HandleTransportFailure(w, kind), events)
             /\ SaveState(HandleTransportFailure(w, kind))
    BY <1>2 DEF ConnectReply
  <2> HIDE DEF k
  <2>3. EnsureConnectionAndThread(k) \in Memory BY <2>1, AttemptTypes
  <2>4. << >> \in Seq(Event) OBVIOUS
  <2>5. w' \in Memory /\ events' \in Seq(Event) /\ disk' \in Disk
    BY <1>e, <1>f, <2>2, <2>3, <2>4, LeavesTypes
  <2>6. UNCHANGED <<server, minted, diskOk, fresh, history>> /\ budget' \in 0..MaxFaults
    BY <1>2, <2>2, BudgetType DEF ConnectReply, FailsAs
  <2> QED BY <2>5, <2>6 DEF TypeOK, server, history
<1>3. CASE CreateReply
  <2> DEFINE a == ApplyThreadSession(w, threads + 1, 0, TRUE)
  <2>1. threads + 1 \in Nat BY DEF TypeOK
  <2>2. a \in Memory BY <1>0, <2>1, SessionTypes
  <2>3. \/ /\ Becomes(a, events) /\ SaveState(a) /\ UNCHANGED budget
           /\ threads' = threads + 1
        \/ \E kind \in FailureKinds :
             /\ FailsAs("session", kind) /\ Becomes(HandleTransportFailure(w, kind), events)
             /\ SaveState(HandleTransportFailure(w, kind)) /\ UNCHANGED threads
    BY <1>3 DEF CreateReply
  <2> HIDE DEF a
  <2>4. w' \in Memory /\ events' \in Seq(Event) /\ disk' \in Disk
    BY <1>e, <1>f, <2>2, <2>3, LeavesTypes
  <2>5. threads' \in Nat /\ budget' \in 0..MaxFaults
    BY <2>1, <2>3, BudgetType DEF TypeOK, FailsAs
  <2>6. UNCHANGED <<turns, wire, minted, diskOk, fresh, history>>
    BY <1>3 DEF CreateReply
  <2> QED BY <2>4, <2>5, <2>6 DEF TypeOK, history
<1>4. CASE ResumeReply
  <2>1. PICK latest \in 0..Len(turns), reports \in BOOLEAN :
          LET s == ApplyThreadSession(w, w.m.thread, latest, reports)
          IN /\ \/ /\ IsLatestTurn(latest, w.m.thread)
                   /\ IF reports THEN UNCHANGED budget ELSE Fault("oldServer")
                \/ latest = 0 /\ reports /\ Fault("unread")
             /\ Becomes(s, events) /\ SaveOutcome(s) /\ Reports(s, latest)
    BY <1>4 DEF ResumeReply
  <2> DEFINE s == ApplyThreadSession(w, w.m.thread, latest, reports)
  <2>2. latest \in Nat OBVIOUS
  <2>3. s \in Memory BY <1>0, <2>2, SessionTypes
  <2>4. Becomes(s, events) /\ SaveOutcome(s) /\ Reports(s, latest)
    BY <2>1
  <2>5. budget' \in 0..MaxFaults BY <2>1, BudgetType
  <2> HIDE DEF s
  <2>6. w' \in Memory /\ events' \in Seq(Event) /\ disk' \in Disk
    BY <1>e, <2>3, <2>4, LeavesTypes
  <2>7. reported' \subseteq [task : Prompts, turn : Nat]
    BY <1>0, <2>2, <2>4 DEF Reports, TypeOK, Memory
  <2>8. UNCHANGED <<server, minted, diskOk, fresh, userStopped>>
    BY <1>4 DEF ResumeReply
  <2> QED BY <2>5, <2>6, <2>7, <2>8 DEF TypeOK, server
<1>5. CASE ResumeFails
  <2> DEFINE s == [w EXCEPT !.m = ClearThread(@), !.pc = "create"]
  <2>1. s \in Memory BY <1>0, ConnectingTypes DEF Memory, Awaits
  <2>2. \/ Fault("deleted") /\ Becomes(s, events) /\ SaveState(s)
        \/ \E kind \in FailureKinds :
             /\ FailsAs("session", kind) /\ Becomes(HandleTransportFailure(w, kind), events)
             /\ SaveState(HandleTransportFailure(w, kind))
    BY <1>5 DEF ResumeFails
  <2> HIDE DEF s
  <2>3. w' \in Memory /\ events' \in Seq(Event) /\ disk' \in Disk
    BY <1>e, <1>f, <2>1, <2>2, LeavesTypes
  <2>4. UNCHANGED <<server, minted, diskOk, fresh, history>> /\ budget' \in 0..MaxFaults
    BY <1>5, <2>2, BudgetType DEF ResumeFails, FailsAs
  <2> QED BY <2>3, <2>4 DEF TypeOK, server, history
<1> QED BY <1>1, <1>2, <1>3, <1>4, <1>5

LEMMA SubmitStepTypes ==
  ASSUME TypeOK, Mark \/ SubmitReply \/ SubmitFails \/ Handover
  PROVE  TypeOK'
<1>0. /\ w \in Memory /\ w.m \in Machine /\ w.m.thread \in Nat /\ w.prompt \in Prompts
      /\ events \in Seq(Event) /\ minted + 1 \in Nat
  BY DEF TypeOK, Memory, Machine
<1>1. CASE Mark
  <2> DEFINE marked  == MarkSubmission(w.m, minted + 1)
             s       == [w EXCEPT !.m = marked, !.pc = "submit"]
             cleared == [marked EXCEPT !.uncertain = FALSE]
             refused == Loop([s EXCEPT !.started = FALSE, !.turnDeadline = FALSE,
                                       !.m = Pause(cleared)])
  <2>1. marked \in Machine BY <1>0, SubmissionTypes
  <2> HIDE DEF marked
  <2>2. s \in Memory BY <1>0, <2>1 DEF Memory, Awaits
  <2>3. cleared \in Machine BY <2>1 DEF Machine
  <2> HIDE DEF cleared
  <2>4. refused \in Memory
    <3> DEFINE r == [s EXCEPT !.started = FALSE, !.turnDeadline = FALSE,
                              !.m = Pause(cleared)]
    <3>1. Pause(cleared) \in Machine BY <2>3, EndingTypes
    <3>2. r \in Memory BY <2>2, <3>1 DEF Memory
    <3> HIDE DEF r
    <3>3. Loop(r) \in Memory BY <3>2, LoopTypes
    <3>4. refused = Loop(r) BY DEF refused, r
    <3> QED BY <3>3, <3>4
  <2>5. ShutdownTransport(refused) \in Memory
    <3> HIDE DEF refused
    <3> QED BY <2>4, LoopTypes
  <2>6. \/ /\ Becomes(s, events) /\ SaveState(s)
           /\ wire' = [client |-> s.m.client, thread |-> s.m.thread,
                       task |-> s.prompt, turn |-> 0,
                       kind |-> IF s.m.followUp THEN "continue" ELSE "original"]
        \/ /\ \E r \in {refused, ShutdownTransport(refused)} : Becomes(r, events)
           /\ UNCHANGED <<wire, disk>>
    BY <1>1 DEF Mark, marked, cleared
  <2> HIDE DEF s, refused
  <2>7. w' \in Memory /\ events' \in Seq(Event) /\ disk' \in Disk
    BY <1>0, <2>2, <2>4, <2>5, <2>6, LeavesTypes
  <2>8. wire' \in Request
    BY <2>2, <2>6 DEF Request, Memory, Machine, TypeOK
  <2>9. UNCHANGED <<turns, threads, world, fresh, history>> /\ minted' \in Nat
    BY <1>0, <1>1 DEF Mark
  <2> QED BY <2>7, <2>8, <2>9 DEF TypeOK, world, history
<1>2. NoRequest \in Request
  BY DEF NoRequest, Request, Prompts
<1>3. CASE SubmitReply
  <2> DEFINE s == SetActiveTurnW(w, wire.turn)
  <2>1. wire.turn \in Nat BY DEF TypeOK, Request
  <2>2. s \in Memory BY <1>0, <2>1, AttemptTypes
  <2>3. Becomes(s, events) /\ SaveState(s) BY <1>3 DEF SubmitReply
  <2> HIDE DEF s
  <2>4. w' \in Memory /\ events' \in Seq(Event) /\ disk' \in Disk
    BY <1>0, <2>2, <2>3, LeavesTypes
  <2>5. UNCHANGED <<turns, threads, minted, world, fresh, history>> /\ wire' \in Request
    BY <1>2, <1>3 DEF SubmitReply
  <2> QED BY <2>4, <2>5 DEF TypeOK, world, history
<1>4. CASE SubmitFails
  <2>1. \E kind \in FailureKinds : LET s == HandleTransportFailure(w, kind)
                                   IN Becomes(s, events) /\ SaveState(s)
    BY <1>4 DEF SubmitFails
  <2>2. w' \in Memory /\ events' \in Seq(Event) /\ disk' \in Disk
    BY <1>0, <2>1, FailureTypes, LeavesTypes
  <2>3. UNCHANGED <<turns, threads, minted, diskOk, fresh, history>> /\ wire' \in Request
    BY <1>2, <1>4 DEF SubmitFails
  <2>4. budget' \in 0..MaxFaults
    BY <1>4, BudgetType DEF SubmitFails, FailureKinds
  <2> QED BY <2>2, <2>3, <2>4 DEF TypeOK, history
<1>5. CASE Handover
  <2> DEFINE s == SendAttempt(w)
             k == IF s.pc = "mark" THEN [s EXCEPT !.pc = "markQueued"] ELSE s
  <2>1. s \in Memory BY <1>0, AttemptTypes
  <2>2. Becomes(k, events) /\ SaveState(s) BY <1>5 DEF Handover
  <2> HIDE DEF s
  <2>3. k \in Memory BY <2>1 DEF Memory, Awaits
  <2> HIDE DEF k
  <2>4. w' \in Memory /\ events' \in Seq(Event) /\ disk' \in Disk
    BY <1>0, <2>1, <2>2, <2>3, LeavesTypes
  <2>5. UNCHANGED <<server, minted, world, fresh, history>>
    BY <1>5 DEF Handover
  <2> QED BY <2>4, <2>5 DEF TypeOK, server, world, history
<1> QED BY <1>1, <1>3, <1>4, <1>5

LEMMA EventTypesKept ==
  ASSUME TypeOK,
         OnTurnStarted \/ OnError \/ OnTurnCompleted \/ OnSystemError \/ OnDisconnected
  PROVE  TypeOK'
<1>0. w \in Memory /\ w.m \in Machine /\ events \in Seq(Event)
  BY DEF TypeOK, Memory
<1>1. events # << >> /\ Head(events).turn \in Nat /\ Tail(events) \in Seq(Event)
  <2>1. events # << >>
    BY DEF OnTurnStarted, OnError, OnTurnCompleted, OnSystemError, OnDisconnected, Hears
  <2>2. Head(events) \in Event /\ Tail(events) \in Seq(Event)
    BY <1>0, <2>1
  <2> QED BY <2>1, <2>2 DEF Event
<1>2. /\ \A s \in Memory : Handles(s) =>
           w' \in Memory /\ events' \in Seq(Event) /\ disk' \in Disk
      /\ Ignores => w' \in Memory /\ events' \in Seq(Event) /\ disk' \in Disk
  BY <1>0, <1>1, LeavesTypes DEF Handles, Ignores
<1>3. CASE OnTurnStarted
  <2>1. SetActiveTurnW(w, Head(events).turn) \in Memory
    BY <1>0, <1>1, AttemptTypes
  <2>2. w' \in Memory /\ events' \in Seq(Event) /\ disk' \in Disk
    BY <1>2, <1>3, <2>1 DEF OnTurnStarted
  <2>3. UNCHANGED <<server, minted, world, fresh, history>>
    BY <1>3 DEF OnTurnStarted
  <2> QED BY <2>2, <2>3 DEF TypeOK, server, world, history
<1>4. CASE OnError
  <2> DEFINE waiting == [w EXCEPT !.m.phase = "Waiting"]
  <2>1. waiting \in Memory
    <3>1. [w.m EXCEPT !.phase = "Waiting"] \in Machine BY <1>0, PhaseNames DEF Machine
    <3> QED BY <1>0, <3>1 DEF Memory
  <2>2. ScheduleRetryW(w) \in Memory /\ Halt(w, Pause(w.m)) \in Memory
    BY <1>0, RetryTypes, EndingTypes, LoopTypes
  <2>3. Ignores \/ \E s \in {waiting, ScheduleRetryW(w), Halt(w, Pause(w.m))} : Handles(s)
    BY <1>4 DEF OnError
  <2> HIDE DEF waiting
  <2>4. w' \in Memory /\ events' \in Seq(Event) /\ disk' \in Disk
    BY <1>2, <2>1, <2>2, <2>3
  <2>5. UNCHANGED <<server, minted, world, fresh, history>>
    BY <1>4 DEF OnError
  <2> QED BY <2>4, <2>5 DEF TypeOK, server, world, history
<1>5. CASE OnTurnCompleted
  <2> DEFINE t == Head(events).turn
  <2>1. \/ Ignores /\ UNCHANGED <<budget, reported>>
        \/ \E outcome \in {turns[t].outcome, "empty"} :
             LET s == HandleCompletedTurn(w, outcome)
             IN /\ UNCHANGED budget \/ Fault("textless")
                /\ Becomes(s, Tail(events)) /\ SaveOutcome(s) /\ Reports(s, t)
    BY <1>5 DEF OnTurnCompleted
  <2>2. \A outcome : HandleCompletedTurn(w, outcome) \in Memory
    BY <1>0, CompletionTypes
  <2>3. w' \in Memory /\ events' \in Seq(Event) /\ disk' \in Disk
    BY <1>1, <1>2, <2>1, <2>2, LeavesTypes
  <2>4. reported' \subseteq [task : Prompts, turn : Nat]
    BY <1>0, <1>1, <2>1 DEF Reports, TypeOK, Memory
  <2>5. budget' \in 0..MaxFaults
    BY <2>1, BudgetType
  <2>6. UNCHANGED <<server, minted, diskOk, fresh, userStopped>>
    BY <1>5 DEF OnTurnCompleted
  <2> QED BY <2>3, <2>4, <2>5, <2>6 DEF TypeOK, server
<1>6. CASE OnSystemError
  <2> DEFINE k == [w EXCEPT !.m.turn = 0]
  <2>1. k \in Memory
    <3>1. [w.m EXCEPT !.turn = 0] \in Machine BY <1>0 DEF Machine
    <3> QED BY <1>0, <3>1 DEF Memory
  <2>2. Ignores \/ Handles(ScheduleRetryW(ShutdownTransport(k)))
    BY <1>6 DEF OnSystemError
  <2> HIDE DEF k
  <2>3. ScheduleRetryW(ShutdownTransport(k)) \in Memory
    BY <2>1, LoopTypes, RetryTypes
  <2>4. w' \in Memory /\ events' \in Seq(Event) /\ disk' \in Disk
    BY <1>2, <2>2, <2>3
  <2>5. UNCHANGED <<server, minted, world, fresh, history>>
    BY <1>6 DEF OnSystemError
  <2> QED BY <2>4, <2>5 DEF TypeOK, server, world, history
<1>7. CASE OnDisconnected
  <2> DEFINE k == [w EXCEPT !.turnDeadline = FALSE]
             s == ShutdownTransport(k)
  <2>1. k \in Memory BY <1>0 DEF Memory
  <2>2. Handles(s) \/ Handles(ScheduleConnectionRetry(s))
    BY <1>7 DEF OnDisconnected
  <2> HIDE DEF k
  <2>3. s \in Memory BY <2>1, LoopTypes
  <2> HIDE DEF s
  <2>4. ScheduleConnectionRetry(s) \in Memory BY <2>3, RetryTypes
  <2>5. w' \in Memory /\ events' \in Seq(Event) /\ disk' \in Disk
    BY <1>2, <2>2, <2>3, <2>4
  <2>6. UNCHANGED <<server, minted, world, fresh, history>>
    BY <1>7 DEF OnDisconnected
  <2> QED BY <2>5, <2>6 DEF TypeOK, server, world, history
<1> QED BY <1>3, <1>4, <1>5, <1>6, <1>7

LEMMA TimerAndRestartTypes ==
  ASSUME TypeOK, HandleDeadline \/ Restart
  PROVE  TypeOK'
<1>0. /\ w \in Memory /\ w.m \in Machine /\ w.m.turn \in Nat /\ events \in Seq(Event)
      /\ disk \in Disk /\ disk.state \in Machine /\ disk.prompt \in Prompts
  BY DEF TypeOK, Memory, Machine, Disk
<1>1. CASE HandleDeadline
  <2> DEFINE e == EnsureConnectionAndThread(w)
             x == [w EXCEPT !.pc = "expiring", !.interrupting = w.m.turn]
  <2>1. e \in Memory BY <1>0, AttemptTypes
  <2>2. x \in Memory BY <1>0 DEF Memory, Awaits
  <2>3. /\ Becomes(e, events) \/ Becomes(x, events)
        /\ UNCHANGED disk \/ SaveState(e)
        /\ UNCHANGED budget \/ Fault("expire")
    BY <1>1 DEF HandleDeadline
  <2> HIDE DEF e, x
  <2>4. w' \in Memory /\ events' \in Seq(Event) /\ disk' \in Disk
    BY <1>0, <2>1, <2>2, <2>3, LeavesTypes
  <2>5. UNCHANGED <<server, minted, diskOk, fresh, history>> /\ budget' \in 0..MaxFaults
    BY <1>1, <2>3, BudgetType DEF HandleDeadline
  <2> QED BY <2>4, <2>5 DEF TypeOK, server, history
<1>2. CASE Restart
  <2> DEFINE m == disk.state
  <2>1. Restored \in Memory
    <3> DEFINE paused == [Pause(m) EXCEPT !.uncertain = FALSE]
               marked == [m EXCEPT !.uncertain = @ \/ m.phase = "Sending"]
    <3>1. Offline(Fresh, NoTask) \in Memory
      BY FreshType, OfflineType DEF Prompts
    <3>2. Pause(m) \in Machine BY <1>0, EndingTypes
    <3>3. paused \in Machine
      <4> DEFINE q == Pause(m)
      <4>1. q \in Machine BY <3>2
      <4> HIDE DEF q
      <4>2. [q EXCEPT !.uncertain = FALSE] \in Machine BY <4>1 DEF Machine
      <4> QED BY <4>2 DEF q
    <3>4. marked \in Machine BY <1>0, ZenonT(40) DEF Machine
    <3> HIDE DEF paused, marked
    <3>5. Offline(paused, disk.prompt) \in Memory /\ Offline(marked, disk.prompt) \in Memory
      BY <1>0, <3>3, <3>4, OfflineType
    <3> DEFINE kept == Offline(marked, disk.prompt)
    <3>6. [kept EXCEPT !.started = PickedUp(m)] \in Memory
      <4> HIDE DEF kept
      <4>1. PickedUp(m) \in BOOLEAN BY DEF PickedUp
      <4> QED BY <3>5, <4>1 DEF Memory, kept
    <3>7. Restored \in {Offline(Fresh, NoTask), Offline(paused, disk.prompt),
                        [kept EXCEPT !.started = PickedUp(m)]}
      BY DEF Restored, kept, paused, marked
    <3> QED BY <3>1, <3>5, <3>6, <3>7
  <2>2. EnsureConnectionAndThread(Restored) \in Memory BY <2>1, AttemptTypes
  <2>3. /\ w' = Restored \/ w' = EnsureConnectionAndThread(Restored)
        /\ \/ UNCHANGED disk
           \/ SaveState(w')
           \/ disk' = [disk EXCEPT !.state = Fresh, !.digest = NoTask]
    BY <1>2 DEF Restart
  <2>4. w' \in Memory BY <2>1, <2>2, <2>3
  <2>5. SaveState(w') => disk' \in Disk
    BY <1>0, <2>4 DEF SaveState, Disk, Memory
  <2>6. disk' \in Disk
    BY <1>0, <2>3, <2>5, FreshType DEF Disk, Prompts
  <2>7. wire' \in Request
    BY <1>2 DEF Restart, NoRequest, Request, Prompts
  <2>8. UNCHANGED <<events, turns, threads, minted, world, fresh, history>>
    BY <1>2 DEF Restart
  <2> QED BY <2>4, <2>6, <2>7, <2>8 DEF TypeOK, world, history
<1> QED BY <1>1, <1>2

\* What Codex announces is an event.
LEMMA AnnounceType ==
  ASSUME events \in Seq(Event), NEW type \in EventTypes, NEW t \in Nat,
         Announce(<<[type |-> type, turn |-> t]>>)
  PROVE  events' \in Seq(Event)
<1> DEFINE ev == [type |-> type, turn |-> t]
<1>1. ev \in Event BY DEF Event
<1>2. events' = events \/ events' = events \o <<ev>>
  BY DEF Announce
<1> HIDE DEF ev
<1> QED BY <1>1, <1>2

LEMMA CodexTypes ==
  ASSUME TypeOK, CodexStep
  PROVE  TypeOK'
<1>0. /\ events \in Seq(Event) /\ turns \in Seq(Turn) /\ wire \in Request
      /\ w \in Memory /\ w.m \in Machine /\ w.m.thread \in Nat
  BY DEF TypeOK, Memory, Machine
<1>1. ASSUME NEW t \in RunningTurns PROVE t \in Nat
  BY <1>0 DEF RunningTurns
<1>2. \A u \in Turn : Append(turns, u) \in Seq(Turn)
  BY <1>0
<1>3. CASE ServerAccepts
  <2> DEFINE t == Len(turns) + 1
             u == [thread |-> wire.thread, client |-> wire.client, task |-> wire.task,
                   kind |-> wire.kind, outcome |-> "running"]
  <2>1. t \in Nat BY <1>0
  <2>2. u \in Turn BY <1>0 DEF Turn, Request, Outcomes
  <2>3. /\ turns' = Append(turns, u) /\ wire' = [wire EXCEPT !.turn = t]
        /\ Announce(<<[type |-> "started", turn |-> t]>>)
    BY <1>3 DEF ServerAccepts
  <2>4. events' \in Seq(Event)
    <3> HIDE DEF t
    <3>1. "started" \in EventTypes BY DEF EventTypes
    <3> QED BY <1>0, <2>1, <2>3, <3>1, AnnounceType
  <2>5. wire' \in Request BY <1>0, <2>1, <2>3 DEF Request
  <2>6. turns' \in Seq(Turn)
    <3> HIDE DEF u
    <3> QED BY <1>2, <2>2, <2>3
  <2>7. UNCHANGED <<w, disk, threads, minted, world, fresh, history>>
    BY <1>3 DEF ServerAccepts
  <2> QED BY <2>4, <2>5, <2>6, <2>7 DEF TypeOK, world, history
<1>4. CASE TurnEnds
  <2>1. PICK t \in RunningTurns, ending \in Endings :
          /\ turns' = [turns EXCEPT ![t].outcome = ending]
          /\ \/ /\ IF ending = "answer" THEN UNCHANGED budget ELSE Fault("fail")
                /\ Announce(IF turns[t].kind = "foreign" THEN << >>
                            ELSE <<[type |-> "completed", turn |-> t]>>)
             \/ ending = "answer" /\ Fault("mute") /\ UNCHANGED events
    BY <1>4 DEF TurnEnds
  <2>2. turns' \in Seq(Turn)
    <3>1. ending \in Outcomes BY DEF Outcomes
    <3> QED BY <1>0, <2>1, <3>1, EndedTypes
  <2>3. events' \in Seq(Event)
    <3>1. "completed" \in EventTypes BY DEF EventTypes
    <3>2. Announce(<< >>) => events' \in Seq(Event)
      BY <1>0 DEF Announce
    <3>3. Announce(<<[type |-> "completed", turn |-> t]>>) => events' \in Seq(Event)
      BY <1>0, <1>1, <3>1, AnnounceType
    <3> QED BY <1>0, <2>1, <3>2, <3>3
  <2>4. budget' \in 0..MaxFaults BY <2>1, BudgetType
  <2>5. UNCHANGED <<w, disk, threads, wire, minted, diskOk, fresh, history>>
    BY <1>4 DEF TurnEnds
  <2> QED BY <2>2, <2>3, <2>4, <2>5 DEF TypeOK, history
<1>5. CASE Notices
  <2>1. PICK t \in OwnRunning, type \in {"willRetry", "retryable", "fatal"} :
          Announce(<<[type |-> type, turn |-> t]>>)
    BY <1>5 DEF Notices
  <2>2. type \in EventTypes BY DEF EventTypes
  <2>3. t \in Nat BY <1>1 DEF OwnRunning
  <2>4. events' \in Seq(Event) BY <1>0, <2>1, <2>2, <2>3, AnnounceType
  <2>5. UNCHANGED <<w, disk, server, minted, diskOk, fresh, history>>
        /\ budget' \in 0..MaxFaults
    BY <1>5, BudgetType DEF Notices
  <2> QED BY <2>4, <2>5 DEF TypeOK, server, history
<1>6. CASE ThreadBreaks
  <2>1. PICK t \in OwnRunning :
          /\ turns' = [turns EXCEPT ![t].outcome = "overloaded"]
          /\ Announce(<<[type |-> "systemError", turn |-> t]>>)
    BY <1>6 DEF ThreadBreaks
  <2>2. t \in RunningTurns /\ t \in Nat BY <1>1 DEF OwnRunning
  <2>3. events' \in Seq(Event)
    <3>1. "systemError" \in EventTypes BY DEF EventTypes
    <3> QED BY <1>0, <2>1, <2>2, <3>1, AnnounceType
  <2>4. turns' \in Seq(Turn)
    <3>1. "overloaded" \in Outcomes BY DEF Outcomes, Endings
    <3> QED BY <1>0, <2>1, <2>2, <3>1, EndedTypes
  <2>5. UNCHANGED <<w, disk, threads, wire, minted, diskOk, fresh, history>>
        /\ budget' \in 0..MaxFaults
    BY <1>6, BudgetType DEF ThreadBreaks
  <2> QED BY <2>3, <2>4, <2>5 DEF TypeOK, history
<1>7. CASE ForeignTurn
  <2> DEFINE u == [thread |-> w.m.thread, client |-> 0, task |-> NoTask,
                   kind |-> "foreign", outcome |-> "running"]
  <2>1. u \in Turn BY <1>0 DEF Turn, Prompts, Outcomes
  <2>2. turns' = Append(turns, u) BY <1>7 DEF ForeignTurn
  <2> HIDE DEF u
  <2>3. turns' \in Seq(Turn) BY <1>2, <2>1, <2>2
  <2>4. UNCHANGED <<w, disk, events, threads, wire, minted, diskOk, fresh, history>>
        /\ budget' \in 0..MaxFaults
    BY <1>7, BudgetType DEF ForeignTurn
  <2> QED BY <2>3, <2>4 DEF TypeOK, history
<1> QED BY <1>3, <1>4, <1>5, <1>6, <1>7 DEF CodexStep

LEMMA MachineTypes ==
  ASSUME TypeOK, MachineStep
  PROVE  TypeOK'
<1>0. events \in Seq(Event) BY DEF TypeOK
<1>1. CASE Disconnects
  <2>1. "disconnected" \in EventTypes BY DEF EventTypes
  <2>2. Announce(<<[type |-> "disconnected", turn |-> 0]>>) BY <1>1 DEF Disconnects
  <2>3. events' \in Seq(Event) BY <1>0, <2>1, <2>2, AnnounceType
  <2>4. UNCHANGED <<w, disk, server, minted, diskOk, fresh, history>>
        /\ budget' \in 0..MaxFaults
    BY <1>1, BudgetType DEF Disconnects
  <2> QED BY <2>3, <2>4 DEF TypeOK, server, history
<1>2. CASE DiskFails \/ DiskRecovers
  <2>1. budget' \in 0..MaxFaults /\ diskOk' \in BOOLEAN
    BY <1>2, BudgetType DEF DiskFails, DiskRecovers
  <2>2. UNCHANGED <<w, disk, events, server, minted, fresh, history>>
    BY <1>2 DEF DiskFails, DiskRecovers
  <2> QED BY <2>1, <2>2 DEF TypeOK, server, history
<1>3. CASE Crash
  <2>1. w' \in Memory /\ events' \in Seq(Event)
    BY <1>3, DownType DEF Crash
  <2>2. UNCHANGED <<disk, server, minted, diskOk, fresh, history>>
        /\ budget' \in 0..MaxFaults
    BY <1>3, BudgetType DEF Crash
  <2> QED BY <2>1, <2>2 DEF TypeOK, server, history
<1> QED BY <1>1, <1>2, <1>3 DEF MachineStep

LEMMA TypeStep == TypeOK /\ [Next]_vars => TypeOK'
<1>1. TypeOK /\ UNCHANGED vars => TypeOK'
  BY DEF TypeOK, vars
<1>2. TypeOK /\ WorkerStep => TypeOK'
  BY SessionStepTypes, SubmitStepTypes, EventTypesKept, TimerAndRestartTypes DEF WorkerStep
<1> QED BY <1>1, <1>2, UserTypes, CodexTypes, MachineTypes DEF Next

\* The worker's memory, its files, the event channel, Codex's turns and the request
\* on the wire always have the shape the code's types give them.
THEOREM TypeCorrect == Spec => []TypeOK
BY InitType, TypeStep, PTL DEF Spec

-----------------------------------------------------------------------------
\* The write-ahead protocol.

\* A request is under way only while the worker awaits its answer, or after a
\* crash took the worker away: nothing else writes to disk meanwhile.
WriteAheadInv ==
  /\ wire.client # 0 => w.pc \in {"submit", "down"}
  /\ WriteAhead

LEMMA WriteAheadStep == TypeOK /\ WriteAheadInv /\ [Next]_vars => WriteAheadInv'
<1> SUFFICES ASSUME TypeOK, WriteAheadInv, [Next]_vars
             PROVE  WriteAheadInv'
  OBVIOUS
<1> USE DEF WriteAheadInv, WriteAhead
<1>0. NoRequest.client = 0
  BY DEF NoRequest
<1>1. ASSUME wire.client = 0, UNCHANGED wire PROVE WriteAheadInv'
  BY <1>1
<1>2. CASE UNCHANGED vars
  BY <1>2 DEF vars
<1>3. CASE UserStep
  <2>1. w.pc = "loop" /\ UNCHANGED wire
    BY <1>3 DEF UserStep, StartConfigured, StartNewConfigured, QueueMessage, Configure,
                SaveAgain, Resume, ClearQueued, PauseTask, Stop, Reset, Shutdown, Asks,
                Listening, server
  <2> QED BY <1>1, <2>1
<1>4. CASE WorkerStep
  <2>1. CASE Restart \/ SubmitReply \/ SubmitFails
    BY <1>0, <2>1 DEF Restart, SubmitReply, SubmitFails
  <2>2. CASE Mark
    <3> DEFINE marked == MarkSubmission(w.m, minted + 1)
               s == [w EXCEPT !.m = marked, !.pc = "submit"]
    <3>1. w \in Memory /\ w.m \in Machine /\ disk \in Disk /\ minted \in Nat
      BY DEF TypeOK, Memory
    <3>2. marked.uncertain /\ marked.client = minted + 1
      BY <3>1 DEF MarkSubmission, Machine
    <3> HIDE DEF marked
    <3>3. s.pc = "submit" /\ s.m = marked
      BY <3>1 DEF Memory
    <3>4. w.pc \in {"mark", "markQueued"}
      BY <2>2 DEF Mark
    <3>5. \/ /\ diskOk /\ w' = s /\ SaveState(s)
             /\ wire'.client = marked.client
          \/ UNCHANGED wire
      BY <2>2, <3>3 DEF Mark, Becomes, marked
    <3> HIDE DEF s
    <3>6. diskOk /\ SaveState(s) => disk'.state = marked
      BY <3>1, <3>3 DEF SaveState, Disk
    <3> QED BY <1>1, <3>2, <3>3, <3>4, <3>5, <3>6
  <2>3. CASE ~(Restart \/ SubmitReply \/ SubmitFails \/ Mark)
    <3>1. w.pc \notin {"submit", "down"} /\ UNCHANGED wire
      BY <1>4, <2>3 DEF WorkerStep, InterruptReply, ConnectReply, CreateReply, ResumeReply,
           ResumeFails, Handover, OnTurnStarted, OnError, OnTurnCompleted, OnSystemError,
           OnDisconnected, HandleDeadline, Hears, Listening, server
    <3> QED BY <1>1, <3>1
  <2> QED BY <2>1, <2>2, <2>3
<1>5. CASE CodexStep
  <2>1. w' = w /\ disk' = disk
    BY <1>5 DEF CodexStep, ServerAccepts, TurnEnds, Notices, ThreadBreaks, ForeignTurn
  <2>2. wire' = wire \/ wire' = [wire EXCEPT !.turn = Len(turns) + 1]
    BY <1>5 DEF CodexStep, ServerAccepts, TurnEnds, Notices, ThreadBreaks, ForeignTurn, server
  <2>3. wire'.client = wire.client /\ (wire'.turn = 0 => wire.turn = 0)
    BY <2>2 DEF TypeOK, Request
  <2> QED BY <2>1, <2>3
<1>6. CASE MachineStep
  <2>1. UNCHANGED <<disk, wire>> /\ (w' = w \/ w' = Down)
    BY <1>6 DEF MachineStep, Disconnects, DiskFails, DiskRecovers, Crash, server
  <2>2. Down.pc = "down"
    BY DEF Down, Offline
  <2> QED BY <2>1, <2>2
<1> QED BY <1>2, <1>3, <1>4, <1>5, <1>6 DEF Next

\* Whatever kills Longwatch while Codex may still accept a request, the saved state
\* names that request: the write-ahead step of send_attempt, for any number of
\* tasks, commands and faults.
THEOREM WriteAheadCorrect == Spec => []WriteAhead
<1>1. Init => WriteAheadInv
  BY DEF Init, WriteAheadInv, WriteAhead, NoRequest
<1>2. WriteAheadInv => WriteAhead
  BY DEF WriteAheadInv
<1> QED BY <1>1, <1>2, TypeCorrect, WriteAheadStep, PTL DEF Spec

-----------------------------------------------------------------------------
\* No handler strands the task or ends the worker.

\* What every handler must leave in memory: a timer where a started task waits, a
\* known thread where one is about to be used, and no active turn where one is
\* about to be started.
Ready(s) ==
  /\ s.pc # "dead"
  /\ s.started /\ s.pc = "loop" => s.turnDeadline \/ s.m.next
  /\ s.pc \in {"pausing", "stopping"} => ~s.started
  /\ s.pc \in {"resume", "mark", "markQueued", "handover"} => s.m.thread # 0
  /\ s.pc \in {"mark", "markQueued", "submit", "handover"} => s.m.turn = 0

\* Every turn Codex works on is in a thread the worker had a name for, and every
\* event is about such a turn.
Placed ==
  /\ wire.client # 0 => wire.thread # 0
  /\ \A t \in 1..Len(turns) : turns[t].thread # 0
  /\ \A i \in 1..Len(events) :
       events[i].type # "disconnected" => events[i].turn \in 1..Len(turns)

ReadyInv == Ready(w) /\ Placed

LEMMA RetryReady ==
  ASSUME NEW s \in Memory
  PROVE  /\ Ready(ScheduleRetryW(s))
         /\ Ready(ScheduleConnectionRetry(s))
         /\ \A m \in Machine : Ready(Halt(s, m))
<1> DEFINE f  == FollowUpIfActive(s.m)
           m1 == ScheduleRetry(f)
           b  == BeginConnecting(f)
           m2 == [b EXCEPT !.next = TRUE]
<1>1. f \in Machine BY EndingTypes DEF Memory
<1> HIDE DEF f
<1>2. m1.next BY <1>1 DEF ScheduleRetry, Machine
<1>3. m2.next
  <2>1. b \in Machine BY <1>1, ConnectingTypes
  <2> HIDE DEF b
  <2> QED BY <2>1 DEF Machine
<1> HIDE DEF m1, m2
<1>4. ScheduleRetryW(s) = [[s EXCEPT !.turnDeadline = FALSE, !.m = m1] EXCEPT !.pc = "loop"]
  BY DEF ScheduleRetryW, Loop, m1, f
<1>5. ScheduleConnectionRetry(s) = [[s EXCEPT !.m = m2] EXCEPT !.pc = "loop"]
  BY DEF ScheduleConnectionRetry, Loop, m2, b, f
<1>6. Ready(ScheduleRetryW(s))
  BY <1>2, <1>4 DEF Ready, Memory
<1>7. Ready(ScheduleConnectionRetry(s))
  BY <1>3, <1>5 DEF Ready, Memory
<1>8. ASSUME NEW m \in Machine PROVE Ready(Halt(s, m))
  BY DEF Halt, Loop, ShutdownTransport, Ready, Memory
<1> QED BY <1>6, <1>7, <1>8

LEMMA FailureReady ==
  ASSUME NEW s \in Memory, NEW kind \in FailureKinds
  PROVE  Ready(HandleTransportFailure(s, kind))
<1> DEFINE k == [s EXCEPT !.turnDeadline = FALSE]
<1>1. Pause(s.m) \in Machine /\ Fatal(s.m) \in Machine
  BY EndingTypes DEF Memory
<1>2. ShutdownTransport(k) \in Memory
  <2>1. k \in Memory BY DEF Memory
  <2> HIDE DEF k
  <2> QED BY <2>1, LoopTypes
<1> QED BY <1>1, <1>2, RetryReady DEF HandleTransportFailure, FailureKinds

LEMMA AttemptReady ==
  ASSUME NEW s \in Memory
  PROVE  /\ Ready(EnsureConnectionAndThread(s))
         /\ EnsureConnectionAndThread(s).pc # "loop"
         /\ s.m.thread # 0 /\ s.m.turn = 0 => Ready(SendAttempt(s))
         /\ \A t \in Nat : CanSetActiveTurn(s.m, t) => Ready(SetActiveTurnW(s, t))
<1>0. s.m \in Machine BY DEF Memory
<1>1. /\ Ready(EnsureConnectionAndThread(s))
      /\ EnsureConnectionAndThread(s).pc # "loop"
  BY DEF EnsureConnectionAndThread, Ready, Memory
<1>2. ASSUME s.m.thread # 0, s.m.turn = 0 PROVE Ready(SendAttempt(s))
  <2> DEFINE m == BeginSending(s.m)
  <2>1. m.thread # 0 /\ m.turn = 0
    BY <1>0, <1>2 DEF BeginSending, Machine
  <2>2. SendAttempt(s) = IF s.started THEN [s EXCEPT !.pc = "mark", !.m = m] ELSE Loop(s)
    BY <1>2 DEF SendAttempt, CanBeginSending
  <2> HIDE DEF m
  <2> QED BY <2>1, <2>2 DEF Loop, Ready, Memory
<1>3. ASSUME NEW t \in Nat, CanSetActiveTurn(s.m, t) PROVE Ready(SetActiveTurnW(s, t))
  <2> DEFINE m == SetActiveTurn(s.m, t)
  <2>1. SetActiveTurnW(s, t) = Loop([s EXCEPT !.m = m, !.turnDeadline = TRUE])
    BY <1>3 DEF SetActiveTurnW
  <2> HIDE DEF m
  <2> QED BY <2>1 DEF Loop, Ready, Memory
<1> QED BY <1>1, <1>2, <1>3

LEMMA CompletionReady ==
  ASSUME NEW s \in Memory, s.m.thread # 0, NEW outcome
  PROVE  Ready(HandleCompletedTurn(s, outcome))
<1> DEFINE settled == [s EXCEPT !.m.uncertain = FALSE, !.turnDeadline = FALSE]
           done    == [settled EXCEPT !.m = Succeed(@)]
           retried == [settled EXCEPT !.m = MarkEmptyReply(@)]
           decision == ClassifyTurnCompletion(outcome, s.m.empties)
<1>1. settled \in Memory /\ settled.m.thread # 0
  <2> DEFINE k == [s.m EXCEPT !.uncertain = FALSE]
  <2>1. k \in Machine /\ k.thread # 0 BY ZenonT(40) DEF Memory, Machine
  <2>2. settled = [s EXCEPT !.m = k, !.turnDeadline = FALSE] OBVIOUS
  <2> HIDE DEF k
  <2> QED BY <2>1, <2>2 DEF Memory
<1>2. settled.m \in Machine BY <1>1 DEF Memory
<1> HIDE DEF settled
<1>3. /\ Succeed(settled.m) \in Machine /\ MarkEmptyReply(settled.m) \in Machine
      /\ Pause(settled.m) \in Machine
  BY <1>2, EndingTypes
<1>4. done \in Memory /\ retried \in Memory
  BY <1>1, <1>3 DEF Memory
<1>5. done.m.thread # 0
  <2>1. done.m = Succeed(settled.m) BY <1>1 DEF Memory
  <2>2. Succeed(settled.m).thread = settled.m.thread BY <1>2 DEF Succeed, Machine
  <2> QED BY <1>1, <2>1, <2>2
<1> HIDE DEF done, retried
<1>6. Ready(StartQueuedMessage(done))
  <2> DEFINE c == ClearQueuedMessage(done.m)
             m == PrepareFollowUp(c)
  <2>1. done.m \in Machine BY <1>4 DEF Memory
  <2>2. c.thread # 0 BY <1>5, <2>1 DEF ClearQueuedMessage, Machine
  <2> HIDE DEF c
  <2>3. m.thread # 0 /\ m.turn = 0 BY <2>2 DEF PrepareFollowUp, Fresh
  <2>4. StartQueuedMessage(done) =
          [done EXCEPT !.prompt = done.m.queued, !.started = TRUE, !.pc = "handover", !.m = m]
    BY DEF StartQueuedMessage, c
  <2> HIDE DEF m
  <2> QED BY <1>4, <2>3, <2>4 DEF Ready, Memory
<1>7. Ready(Halt(settled, Succeed(settled.m))) /\ Ready(Halt(settled, Pause(settled.m)))
  BY <1>1, <1>3, RetryReady
<1>8. Ready(ScheduleRetryW(retried)) /\ Ready(ScheduleRetryW(settled))
  BY <1>1, <1>4, RetryReady
<1>9. [settled EXCEPT !.m = settled.m] = settled
  BY <1>1 DEF Memory
<1>10. HandleCompletedTurn(s, outcome) =
        CASE decision[1] = "success" /\ s.m.queued # NoTask -> StartQueuedMessage(done)
          [] decision[1] = "success" /\ s.m.queued = NoTask ->
               Halt(settled, Succeed(settled.m))
          [] decision[1] = "retry" ->
               ScheduleRetryW([settled EXCEPT !.m = IF decision[2]
                                                    THEN MarkEmptyReply(@) ELSE @])
          [] OTHER -> Halt(settled, Pause(settled.m))
  BY DEF HandleCompletedTurn, settled, done
<1>11. Ready(ScheduleRetryW([settled EXCEPT !.m = IF decision[2]
                                                 THEN MarkEmptyReply(@) ELSE @]))
  <2>1. CASE decision[2]
    BY <2>1, <1>8 DEF retried
  <2>2. CASE ~decision[2]
    BY <2>2, <1>8, <1>9
  <2> QED BY <2>1, <2>2
<1> HIDE DEF decision
<1> QED BY <1>6, <1>7, <1>10, <1>11

LEMMA SessionReady ==
  ASSUME NEW s0 \in Memory, NEW thread \in Nat \ {0}, NEW latest \in Nat,
         NEW reports \in BOOLEAN
  PROVE  Ready(ApplyThreadSession(s0, thread, latest, reports))
<1> DEFINE s == [s0 EXCEPT !.m = SetThread(@, thread), !.resumeRequested = FALSE]
           clean == [s EXCEPT !.m = ForgetTurn(@)]
           again == [clean EXCEPT !.m = MarkRetryAsFollowUp(@)]
           outcome == turns[latest].outcome
           owed == AwaitingOutcome(s.m)
           foreign == owed /\ NotOurs(s.m, turns[latest], reports)
<1>1. s \in Memory /\ s.m \in Machine /\ s.m.thread # 0
  <2> DEFINE m == SetThread(s0.m, thread)
  <2>1. m \in Machine BY ThreadType DEF Memory
  <2>2. m.thread = thread BY DEF SetThread, Memory, Machine
  <2> HIDE DEF m
  <2>3. s \in Memory /\ s.m = m BY <2>1 DEF Memory, m
  <2> QED BY <2>1, <2>2, <2>3
<1> HIDE DEF s
<1>2. clean \in Memory /\ clean.m \in Machine /\ clean.m.thread # 0 /\ clean.m.turn = 0
  <2> DEFINE m == ForgetTurn(s.m)
  <2>1. m \in Machine BY <1>1, SubmissionTypes
  <2>2. m.thread # 0 /\ m.turn = 0 BY <1>1 DEF ForgetTurn, Machine
  <2> HIDE DEF m
  <2>3. clean \in Memory /\ clean.m = m BY <1>1, <2>1 DEF Memory, m
  <2> QED BY <2>1, <2>2, <2>3
<1> HIDE DEF clean
<1>3. again \in Memory /\ again.m.thread # 0 /\ again.m.turn = 0
  <2> DEFINE m == MarkRetryAsFollowUp(clean.m)
  <2>1. m \in Machine BY <1>2, EndingTypes
  <2>2. m.thread # 0 /\ m.turn = 0 BY <1>2 DEF MarkRetryAsFollowUp, Machine
  <2> HIDE DEF m
  <2>3. again \in Memory /\ again.m = m BY <1>2, <2>1 DEF Memory, m
  <2> QED BY <2>2, <2>3
<1> HIDE DEF again
<1>4. Ready(AdoptTurn(s, latest))
  <2> DEFINE m == IF s.m.turn = latest THEN s.m ELSE ForgetTurn(s.m)
             a == [s EXCEPT !.m = m]
  <2>1. m \in Machine /\ CanSetActiveTurn(m, latest)
    <3>0. ForgetTurn(s.m) \in Machine
      BY <1>1, SubmissionTypes
    <3>1. ForgetTurn(s.m).turn = 0
      BY <1>1 DEF ForgetTurn, Machine
    <3> QED BY <1>1, <3>0, <3>1 DEF CanSetActiveTurn
  <2>2. AdoptTurn(s, latest) = SetActiveTurnW(a, latest) BY DEF AdoptTurn
  <2> HIDE DEF m
  <2>3. a \in Memory /\ a.m = m BY <1>1, <2>1 DEF Memory
  <2> HIDE DEF a
  <2> QED BY <2>1, <2>2, <2>3, AttemptReady
<1>5. /\ Ready(ScheduleRetryW(s)) /\ Ready(ScheduleRetryW(clean))
      /\ Ready(SendAttempt(clean)) /\ Ready(SendAttempt(again))
      /\ ~owed => Ready(SendAttempt(s))
  BY <1>1, <1>2, <1>3, RetryReady, AttemptReady DEF AwaitingOutcome
<1>6. Ready(HandleCompletedTurn(s, outcome))
  BY <1>1, CompletionReady
<1>7. ApplyThreadSession(s0, thread, latest, reports) =
        CASE latest = 0 /\ owed -> ScheduleRetryW(s)
          [] latest = 0 /\ ~owed -> SendAttempt(s)
          [] latest # 0 /\ foreign ->
               IF outcome = "running" THEN ScheduleRetryW(clean) ELSE SendAttempt(clean)
          [] latest # 0 /\ ~foreign /\ outcome = "running" -> AdoptTurn(s, latest)
          [] latest # 0 /\ ~foreign /\ outcome # "running" ->
               IF ~owed THEN SendAttempt(s)
               ELSE IF outcome = "interrupted" /\ s0.resumeRequested
               THEN SendAttempt(again)
               ELSE HandleCompletedTurn(s, outcome)
  BY DEF ApplyThreadSession, s, clean, again
<1> HIDE DEF outcome, owed, foreign
<1> QED BY <1>4, <1>5, <1>6, <1>7

LEMMA CommandReady ==
  ASSUME NEW s \in Memory
  PROVE  /\ ~StopTask(s).started
         /\ Ready(Pristine(s))
         /\ \A t \in Prompts : Ready(StartNewTask(s, t))
<1>0. s.m \in Machine BY DEF Memory
<1>1. ~StopTask(s).started BY DEF StopTask, Memory
<1>2. Ready(Pristine(s))
  <2> DEFINE h == Halt(s, ClearSession(s.m))
  <2>1. h \in Memory BY <1>0, ConnectingTypes, LoopTypes
  <2>2. ~h.started BY DEF Halt, Loop, ShutdownTransport, Memory
  <2>3. Pristine(s) = Loop([h EXCEPT !.resumeRequested = FALSE, !.prompt = NoTask,
                                     !.interrupting = 0])
    BY DEF Pristine
  <2> HIDE DEF h
  <2> QED BY <2>1, <2>2, <2>3 DEF Loop, Ready, Memory
<1>3. ASSUME NEW t \in Prompts PROVE Ready(StartNewTask(s, t))
  <2> DEFINE m == Reactivate(ClearSession(s.m))
             k == [s EXCEPT !.m = m, !.started = TRUE, !.turnDeadline = FALSE,
                            !.prompt = t, !.incoming = NoTask, !.interrupting = 0]
  <2>1. m \in Machine BY <1>0, ConnectingTypes
  <2>2. StartNewTask(s, t) = EnsureConnectionAndThread(ShutdownTransport(k))
    BY DEF StartNewTask
  <2> HIDE DEF m
  <2>3. k \in Memory BY <2>1 DEF Memory, Prompts
  <2> HIDE DEF k
  <2>4. ShutdownTransport(k) \in Memory BY <2>3, LoopTypes
  <2> QED BY <2>2, <2>4, AttemptReady
<1> QED BY <1>1, <1>2, <1>3

LEMMA UserReady ==
  ASSUME TypeOK, ReadyInv, UserStep
  PROVE  Ready(w')
<1>0. /\ w \in Memory /\ w.m \in Machine /\ w.m.turn \in Nat /\ w.m.queued \in Prompts
      /\ Ready(w)
  BY DEF TypeOK, Memory, Machine, Prompts, ReadyInv
<1>1. ASSUME NEW t \in Tasks, StartConfigured(t) PROVE Ready(w')
  <2> DEFINE m1 == [w.m EXCEPT !.followUp = FALSE]
             m2 == IF m1.phase \in {"Success", "Paused", "FatalError"}
                   THEN PrepareFollowUp(m1) ELSE m1
             s  == [w EXCEPT !.prompt = t, !.started = TRUE, !.m = Reactivate(m2)]
  <2>1. m1 \in Machine BY <1>0 DEF Machine
  <2>2. m2 \in Machine BY <2>1, FollowUpType
  <2> HIDE DEF m2
  <2>3. s \in Memory BY <1>0, <2>2, ConnectingTypes DEF Memory, Prompts
  <2> HIDE DEF s
  <2>4. w' = EnsureConnectionAndThread(s)
    BY <1>1 DEF StartConfigured, Becomes, m2, s
  <2> QED BY <2>3, <2>4, AttemptReady
<1>2. ASSUME NEW t \in Tasks, StartNewConfigured(t) PROVE Ready(w')
  <2> DEFINE k == StopTask(w)
             s == [k EXCEPT !.pc = "replacing", !.incoming = t]
  <2>1. k \in Memory BY <1>0, CommandTypes
  <2>2. w' = s \/ w' = StartNewTask(w, t)
    BY <1>2 DEF StartNewConfigured, Becomes
  <2>3. Ready(s)
    <3> HIDE DEF k
    <3> QED BY <2>1 DEF Ready, Memory
  <2> QED BY <1>0, <2>2, <2>3, CommandReady DEF Prompts
<1>3. ASSUME NEW s, w' = s, s \in Memory, s.started = w.started,
             s.turnDeadline = w.turnDeadline, s.m.next = w.m.next, s.pc = "loop",
             w.pc = "loop"
      PROVE  Ready(w')
  BY <1>0, <1>3 DEF Ready
<1>4. ASSUME NEW t \in Tasks, QueueMessage(t) PROVE Ready(w')
  <2> DEFINE m == SetQueuedMessage(w.m, t)
             s == [w EXCEPT !.m = m]
  <2>1. m \in Machine /\ m.next = w.m.next
    BY <1>0, QueuedTypes DEF SetQueuedMessage, Machine
  <2>2. w' = s /\ w.pc = "loop"
    BY <1>4 DEF QueueMessage, Becomes, Asks, Listening
  <2> HIDE DEF m
  <2>3. /\ s \in Memory /\ s.started = w.started /\ s.turnDeadline = w.turnDeadline
        /\ s.m.next = w.m.next /\ s.pc = w.pc
    BY <1>0, <2>1 DEF Memory
  <2> HIDE DEF s
  <2> QED BY <1>3, <2>2, <2>3
<1>5. CASE ClearQueued
  <2> DEFINE m == ClearQueuedMessage(w.m)
             s == [w EXCEPT !.m = m]
  <2>1. m \in Machine /\ m.next = w.m.next
    BY <1>0, QueuedTypes DEF ClearQueuedMessage, Machine
  <2>2. w' = s /\ w.pc = "loop"
    BY <1>5 DEF ClearQueued, Becomes, Asks, Listening
  <2> HIDE DEF m
  <2>3. /\ s \in Memory /\ s.started = w.started /\ s.turnDeadline = w.turnDeadline
        /\ s.m.next = w.m.next /\ s.pc = w.pc
    BY <1>0, <2>1 DEF Memory
  <2> HIDE DEF s
  <2> QED BY <1>3, <2>2, <2>3
<1>6. CASE Configure \/ SaveAgain
  BY <1>0, <1>6 DEF Configure, SaveAgain
<1>7. CASE Resume
  <2> DEFINE s1 == [w EXCEPT !.m = Pause(@)]
             k2 == [w EXCEPT !.started = TRUE, !.m = Reactivate(@)]
             k3 == [w EXCEPT !.started = TRUE, !.resumeRequested = TRUE,
                             !.m = Reactivate(FollowUpIfActive(@))]
  <2>1. w.pc = "loop" /\ ~w.started
    BY <1>7 DEF Resume, Asks, Listening
  <2>2. Ready(s1) BY <1>0, <2>1 DEF Ready, Memory
  <2>3. k2 \in Memory BY <1>0, ConnectingTypes DEF Memory
  <2>4. k3 \in Memory BY <1>0, ConnectingTypes, EndingTypes DEF Memory
  <2>5. w' \in {s1, EnsureConnectionAndThread(k2), EnsureConnectionAndThread(k3)}
    BY <1>7 DEF Resume, Becomes
  <2> HIDE DEF s1, k2, k3
  <2> QED BY <2>2, <2>3, <2>4, <2>5, AttemptReady
<1>8. CASE PauseTask
  <2> DEFINE s == [w EXCEPT !.started = FALSE, !.turnDeadline = FALSE, !.m = Pause(@)]
             p == [s EXCEPT !.pc = "pausing", !.interrupting = s.m.turn]
  <2>1. w.pc = "loop"
    BY <1>8 DEF PauseTask, Asks, Listening
  <2>2. s \in Memory /\ ~s.started /\ s.pc = "loop"
    <3>1. Pause(w.m) \in Machine BY <1>0, EndingTypes
    <3> QED BY <1>0, <2>1, <3>1 DEF Memory
  <2>3. w' = p \/ w' = ShutdownTransport(s)
    BY <1>8 DEF PauseTask, Becomes
  <2> HIDE DEF s
  <2> QED BY <2>2, <2>3 DEF ShutdownTransport, Ready, Memory
<1>9. ASSUME NEW pc \in {"stopping", "resetting"}
      PROVE  Ready([StopTask(w) EXCEPT !.pc = pc])
  <2> DEFINE k == StopTask(w)
  <2>1. k \in Memory /\ ~k.started BY <1>0, CommandTypes, CommandReady
  <2> HIDE DEF k
  <2>2. Ready([k EXCEPT !.pc = pc]) BY <2>1 DEF Ready, Memory
  <2> QED BY <2>2 DEF k
<1>10. CASE Stop
  <2> DEFINE k == StopTask(w)
  <2>1. w' = [StopTask(w) EXCEPT !.pc = "stopping"] \/ w' = ShutdownTransport(k)
    BY <1>10 DEF Stop, Becomes
  <2>2. w.pc = "loop" BY <1>10 DEF Stop, Asks, Listening
  <2>3. k \in Memory /\ ~k.started /\ k.pc = "loop"
    BY <1>0, <2>2, CommandTypes, CommandReady DEF StopTask, Memory
  <2> HIDE DEF k
  <2>4. Ready(ShutdownTransport(k)) BY <2>3 DEF ShutdownTransport, Ready, Memory
  <2> QED BY <1>9, <2>1, <2>4
<1>11. CASE Reset
  <2>1. w' = [StopTask(w) EXCEPT !.pc = "resetting"] \/ w' = Pristine(w)
    BY <1>11 DEF Reset, Becomes
  <2> QED BY <1>0, <1>9, <2>1, CommandReady
<1>12. CASE Shutdown
  BY <1>12 DEF Shutdown, Becomes, Down, Offline, Ready
<1> QED BY <1>1, <1>2, <1>4, <1>5, <1>6, <1>7, <1>8, <1>10, <1>11, <1>12 DEF UserStep

LEMMA RequestReady ==
  ASSUME TypeOK, ReadyInv,
         \/ InterruptReply \/ ConnectReply \/ CreateReply \/ ResumeReply \/ ResumeFails
         \/ Mark \/ SubmitReply \/ SubmitFails \/ Handover
  PROVE  Ready(w')
<1>0. /\ w \in Memory /\ w.m \in Machine /\ w.m.thread \in Nat /\ w.incoming \in Prompts
      /\ Ready(w)
  BY DEF TypeOK, Memory, Machine, ReadyInv
<1>f. ASSUME NEW k \in FailureKinds
      PROVE  Ready(HandleTransportFailure(w, k))
  BY <1>0, FailureReady
<1>1. CASE InterruptReply
  <2> DEFINE k     == [w EXCEPT !.interrupting = 0]
             idle  == Loop(ShutdownTransport(k))
             mark  == MarkRetryAsFollowUp(w.m)
             freed == [w EXCEPT !.interrupting = 0, !.m = ForgetTurn(mark)]
  <2>1. \/ w.pc \in {"pausing", "stopping"} /\ w' = idle
        \/ w' \in {StartNewTask(w, w.incoming), Pristine(w), ScheduleRetryW(freed)}
    <3>1. w.pc \in {"pausing", "stopping", "replacing", "resetting", "expiring"}
      BY <1>1 DEF InterruptReply
    <3> QED BY <1>1, <3>1 DEF InterruptReply, Becomes
  <2>2. w.pc \in {"pausing", "stopping"} => Ready(idle)
    <3>1. k \in Memory /\ k.started = w.started BY <1>0 DEF Memory
    <3> HIDE DEF k
    <3> QED BY <1>0, <3>1 DEF Loop, ShutdownTransport, Ready, Memory
  <2>3. freed \in Memory
    <3>1. mark \in Machine BY <1>0, EndingTypes
    <3>2. ForgetTurn(mark) \in Machine BY <3>1, SubmissionTypes
    <3> QED BY <1>0, <3>2 DEF Memory
  <2> HIDE DEF freed, idle
  <2> QED BY <1>0, <2>1, <2>2, <2>3, RetryReady, CommandReady
<1>2. CASE ConnectReply
  <2> DEFINE k == [w EXCEPT !.connected = TRUE]
  <2>1. k \in Memory BY <1>0 DEF Memory
  <2>2. \/ w' = EnsureConnectionAndThread(k)
        \/ \E kind \in FailureKinds : w' = HandleTransportFailure(w, kind)
    BY <1>2 DEF ConnectReply, Becomes
  <2> HIDE DEF k
  <2> QED BY <1>f, <2>1, <2>2, AttemptReady
<1>3. CASE CreateReply
  <2> DEFINE a == ApplyThreadSession(w, threads + 1, 0, TRUE)
  <2>1. threads + 1 \in Nat \ {0} BY DEF TypeOK
  <2>2. Ready(a) BY <1>0, <2>1, SessionReady
  <2>3. w' = a \/ \E kind \in FailureKinds : w' = HandleTransportFailure(w, kind)
    BY <1>3 DEF CreateReply, Becomes
  <2> HIDE DEF a
  <2> QED BY <1>f, <2>2, <2>3
<1>4. CASE ResumeReply
  <2>1. PICK latest \in 0..Len(turns), reports \in BOOLEAN :
          w' = ApplyThreadSession(w, w.m.thread, latest, reports)
    BY <1>4 DEF ResumeReply, Becomes
  <2>2. w.m.thread \in Nat \ {0}
    BY <1>0, <1>4 DEF ResumeReply, Ready
  <2>3. latest \in Nat OBVIOUS
  <2> QED BY <1>0, <2>1, <2>2, <2>3, SessionReady
<1>5. CASE ResumeFails
  <2> DEFINE s == [w EXCEPT !.m = ClearThread(@), !.pc = "create"]
  <2>1. Ready(s) BY <1>0 DEF Ready, Memory
  <2>2. w' = s \/ \E kind \in FailureKinds : w' = HandleTransportFailure(w, kind)
    BY <1>5 DEF ResumeFails, Becomes
  <2> HIDE DEF s
  <2> QED BY <1>f, <2>1, <2>2
<1>6. CASE Mark
  <2> DEFINE marked  == MarkSubmission(w.m, minted + 1)
             s       == [w EXCEPT !.m = marked, !.pc = "submit"]
             cleared == [marked EXCEPT !.uncertain = FALSE]
             r       == [s EXCEPT !.started = FALSE, !.turnDeadline = FALSE,
                                  !.m = Pause(cleared)]
  <2>1. marked.turn = 0
    BY <1>0, <1>6 DEF Mark, Ready, MarkSubmission, Machine
  <2>2. minted + 1 \in Nat BY DEF TypeOK
  <2>3. marked \in Machine BY <1>0, <2>2, SubmissionTypes
  <2> HIDE DEF marked
  <2>4. s \in Memory /\ Ready(s)
    BY <1>0, <2>1, <2>3 DEF Ready, Memory, Awaits
  <2>5. cleared \in Machine BY <2>3 DEF Machine
  <2> HIDE DEF cleared
  <2>6. w' \in {s, Loop(r), ShutdownTransport(Loop(r))}
    BY <1>6 DEF Mark, Becomes, marked, cleared
  <2> HIDE DEF s
  <2>7. r \in Memory /\ ~r.started
    <3>1. Pause(cleared) \in Machine BY <2>5, EndingTypes
    <3> QED BY <2>4, <3>1 DEF Memory
  <2> HIDE DEF r
  <2>8. Loop(r) \in Memory /\ ~Loop(r).started /\ Loop(r).pc = "loop"
    BY <2>7, LoopTypes DEF Loop, Memory
  <2> DEFINE l == Loop(r)
  <2>9. Ready(l) /\ Ready(ShutdownTransport(l))
    <3> HIDE DEF l
    <3>1. l \in Memory /\ ~l.started /\ l.pc = "loop" BY <2>8 DEF l
    <3> QED BY <3>1 DEF ShutdownTransport, Ready, Memory
  <2> QED BY <2>4, <2>6, <2>9
<1>7. CASE SubmitReply
  <2>1. w' = SetActiveTurnW(w, wire.turn) /\ w.m.turn = 0 /\ wire.turn \in Nat
    BY <1>0, <1>7 DEF SubmitReply, Becomes, Ready, TypeOK, Request
  <2> QED BY <1>0, <2>1, AttemptReady DEF CanSetActiveTurn
<1>8. CASE SubmitFails
  <2>1. \E kind \in FailureKinds : w' = HandleTransportFailure(w, kind)
    BY <1>8 DEF SubmitFails, Becomes
  <2> QED BY <1>f, <2>1
<1>9. CASE Handover
  <2> DEFINE s == SendAttempt(w)
             k == [s EXCEPT !.pc = "markQueued"]
  <2>1. w.m.thread # 0 /\ w.m.turn = 0
    BY <1>0, <1>9 DEF Handover, Ready
  <2>2. s \in Memory /\ Ready(s) BY <1>0, <2>1, AttemptTypes, AttemptReady
  <2>3. w' = IF s.pc = "mark" THEN k ELSE s
    BY <1>9 DEF Handover, Becomes
  <2> HIDE DEF s
  <2> QED BY <2>2, <2>3 DEF Ready, Memory
<1> QED BY <1>1, <1>2, <1>3, <1>4, <1>5, <1>6, <1>7, <1>8, <1>9

LEMMA EventReady ==
  ASSUME TypeOK, ReadyInv,
         OnTurnStarted \/ OnError \/ OnTurnCompleted \/ OnSystemError \/ OnDisconnected
  PROVE  Ready(w')
<1>0. w \in Memory /\ w.m \in Machine /\ Ready(w)
  BY DEF TypeOK, Memory, ReadyInv
<1> DEFINE t == Head(events).turn
<1>1. Ignores => Ready(w')
  BY <1>0 DEF Ignores, Becomes
<1>2. events \in Seq(Event) /\ events # << >>
  BY DEF TypeOK, OnTurnStarted, OnError, OnTurnCompleted, OnSystemError, OnDisconnected, Hears
<1>3. Head(events) = events[1] /\ 1 \in 1..Len(events) /\ t \in Nat
  <2>1. Len(events) \in Nat /\ Len(events) # 0 BY <1>2
  <2>2. Head(events) = events[1] BY <1>2
  <2>3. events[1] \in Event BY <1>2, <2>1
  <2> QED BY <2>1, <2>2, <2>3 DEF Event
<1>4. CASE OnTurnStarted
  <2>1. Ignores \/ (StartsOurTurn /\ w' = SetActiveTurnW(w, t))
    BY <1>4 DEF OnTurnStarted, Handles, Becomes
  <2>2. StartsOurTurn => CanSetActiveTurn(w.m, t)
    BY DEF StartsOurTurn, CanSetActiveTurn
  <2> QED BY <1>0, <1>1, <1>3, <2>1, <2>2, AttemptReady
<1>5. CASE OnError
  <2> DEFINE m == [w.m EXCEPT !.phase = "Waiting"]
             s == [w EXCEPT !.m = m]
  <2>1. Ignores \/ w' \in {s, ScheduleRetryW(w), Halt(w, Pause(w.m))}
    BY <1>5 DEF OnError, Handles, Becomes
  <2>2. Ready(s)
    <3>1. w.pc = "loop" /\ m.next = w.m.next
      BY <1>0, <1>5 DEF OnError, Hears, Listening, Machine
    <3> HIDE DEF m
    <3> QED BY <1>0, <3>1 DEF Ready, Memory
  <2> HIDE DEF s
  <2>3. Ready(ScheduleRetryW(w)) /\ Ready(Halt(w, Pause(w.m)))
    BY <1>0, RetryReady, EndingTypes
  <2> QED BY <1>1, <2>1, <2>2, <2>3
<1>6. CASE OnTurnCompleted
  <2>1. \/ Ignores
        \/ MatchesActive /\ \E outcome \in {turns[t].outcome, "empty"} :
                             w' = HandleCompletedTurn(w, outcome)
    BY <1>6 DEF OnTurnCompleted, Becomes
  <2>2. MatchesActive => w.m.thread # 0
    <3>1. events[1].type # "disconnected"
      BY <1>3, <1>6 DEF OnTurnCompleted, Hears
    <3>2. turns[t].thread # 0
      BY <1>3, <3>1 DEF ReadyInv, Placed
    <3> QED BY <3>2 DEF MatchesActive, SameThread
  <2> QED BY <1>0, <1>1, <2>1, <2>2, CompletionReady
<1>7. CASE OnSystemError
  <2> DEFINE k == [w EXCEPT !.m.turn = 0]
  <2>1. k \in Memory
    <3>1. [w.m EXCEPT !.turn = 0] \in Machine BY <1>0 DEF Machine
    <3> QED BY <1>0, <3>1 DEF Memory
  <2>2. Ignores \/ w' = ScheduleRetryW(ShutdownTransport(k))
    BY <1>7 DEF OnSystemError, Handles, Becomes
  <2> HIDE DEF k
  <2>3. ShutdownTransport(k) \in Memory BY <2>1, LoopTypes
  <2> QED BY <1>1, <2>2, <2>3, RetryReady
<1>8. CASE OnDisconnected
  <2> DEFINE k == [w EXCEPT !.turnDeadline = FALSE]
             s == ShutdownTransport(k)
  <2>1. k \in Memory /\ k.m = w.m BY <1>0 DEF Memory
  <2>2. (w' = s /\ w.m.next) \/ w' = ScheduleConnectionRetry(s)
    BY <1>8 DEF OnDisconnected, Handles, Becomes
  <2>3. w.pc = "loop" /\ k.pc = w.pc
    BY <1>0, <1>8 DEF OnDisconnected, Hears, Listening, Memory
  <2> HIDE DEF k
  <2>4. s \in Memory /\ s.m = w.m /\ s.pc = "loop"
    BY <2>1, <2>3, LoopTypes DEF ShutdownTransport, Memory
  <2> HIDE DEF s
  <2>5. w.m.next => Ready(s) BY <2>4 DEF Ready
  <2> QED BY <2>2, <2>4, <2>5, RetryReady
<1> QED BY <1>4, <1>5, <1>6, <1>7, <1>8

LEMMA TimerAndRestartReady ==
  ASSUME TypeOK, ReadyInv, HandleDeadline \/ Restart
  PROVE  Ready(w')
<1>0. w \in Memory /\ w.m \in Machine /\ disk \in Disk /\ disk.state \in Machine
      /\ disk.prompt \in Prompts
  BY DEF TypeOK, Memory, Disk
<1>1. CASE HandleDeadline
  <2> DEFINE x == [w EXCEPT !.pc = "expiring", !.interrupting = w.m.turn]
  <2>1. w' = EnsureConnectionAndThread(w) \/ w' = x
    BY <1>1 DEF HandleDeadline, Becomes
  <2>2. Ready(x) BY <1>0 DEF Ready, Memory
  <2> QED BY <1>0, <2>1, <2>2, AttemptReady
<1>2. CASE Restart
  <2> DEFINE m == disk.state
             paused == [Pause(m) EXCEPT !.uncertain = FALSE]
             marked == [m EXCEPT !.uncertain = @ \/ m.phase = "Sending"]
             kept == Offline(marked, disk.prompt)
  <2>1. marked \in Machine BY <1>0, ZenonT(40) DEF Machine
  <2>2. paused \in Machine
    <3> DEFINE q == Pause(m)
    <3>1. q \in Machine BY <1>0, EndingTypes
    <3> HIDE DEF q
    <3>2. [q EXCEPT !.uncertain = FALSE] \in Machine BY <3>1 DEF Machine
    <3> QED BY <3>2 DEF q
  <2>3. Restored \in {Offline(Fresh, NoTask), Offline(paused, disk.prompt),
                      [kept EXCEPT !.started = PickedUp(m)]}
    BY DEF Restored
  <2> HIDE DEF paused, marked
  <2>4. /\ Offline(Fresh, NoTask) \in Memory /\ Offline(paused, disk.prompt) \in Memory
        /\ kept \in Memory
    BY <1>0, <2>1, <2>2, FreshType, OfflineType DEF Prompts
  <2>5. PickedUp(m) \in BOOLEAN BY DEF PickedUp
  <2> DEFINE b == PickedUp(m)
             q == [kept EXCEPT !.started = b]
  <2>6. q \in Memory /\ q.pc = "loop" /\ ~Offline(Fresh, NoTask).started
        /\ ~Offline(paused, disk.prompt).started
        /\ Offline(Fresh, NoTask).pc = "loop" /\ Offline(paused, disk.prompt).pc = "loop"
    <3>1. kept.pc = "loop" BY DEF Offline
    <3>2. b \in BOOLEAN BY <2>5
    <3> HIDE DEF kept, b
    <3>3. q \in Memory /\ q.pc = "loop" BY <2>4, <3>1, <3>2 DEF Memory
    <3> QED BY <3>3 DEF Offline
  <2>7. Restored \in Memory /\ Restored.pc = "loop"
    BY <2>3, <2>4, <2>6
  <2>8. \/ w' = EnsureConnectionAndThread(Restored)
        \/ w' = Restored /\ (~Restored.started \/ Restored.m.next)
    <3>1. ~RequiresRecovery(m) => Restored = Offline(Fresh, NoTask)
      BY DEF Restored
    <3> QED BY <1>2, <2>6, <3>1 DEF Restart
  <2>9. ~Restored.started \/ Restored.m.next => Ready(Restored)
    BY <2>7 DEF Ready
  <2> QED BY <2>7, <2>8, <2>9, AttemptReady
<1> QED BY <1>1, <1>2

\* Hearing, dropping or losing events keeps every turn and event in its place.
LEMMA PlacedKept ==
  ASSUME TypeOK, Placed, UNCHANGED <<turns, wire>>,
         \/ events' = events \/ events' = << >>
         \/ events # << >> /\ events' = Tail(events)
  PROVE  Placed'
<1>1. CASE events' = events
  BY <1>1 DEF Placed
<1>2. CASE events' = << >>
  BY <1>2 DEF Placed
<1>3. CASE events # << >> /\ events' = Tail(events)
  <2>1. events \in Seq(Event) BY DEF TypeOK
  <2>2. /\ Len(events') \in Nat /\ Len(events') = Len(events) - 1
        /\ \A i \in 1..Len(events') : events'[i] = events[i + 1]
    BY <1>3, <2>1
  <2>3. \A i \in 1..Len(events') : i + 1 \in 1..Len(events)
    BY <2>1, <2>2
  <2> QED BY <2>2, <2>3 DEF Placed
<1> QED BY <1>1, <1>2, <1>3

\* So does announcing an event about a known turn.
LEMMA PlacedAnnounce ==
  ASSUME TypeOK, Placed, wire' = wire, Len(turns') \in Nat, Len(turns') >= Len(turns),
         \A t \in 1..Len(turns') : turns'[t].thread # 0,
         NEW ev \in Event, ev.type # "disconnected" => ev.turn \in 1..Len(turns'),
         events' = events \/ events' = events \o <<ev>> \/ events' = << >>
  PROVE  Placed'
<1>1. events \in Seq(Event) /\ Len(turns) \in Nat BY DEF TypeOK
<1>2. \A i \in 1..Len(events) :
        events[i].type # "disconnected" => events[i].turn \in 1..Len(turns')
  BY <1>1 DEF Placed
<1>3. CASE events' = events
  BY <1>2, <1>3 DEF Placed
<1>4. CASE events' = << >>
  BY <1>4 DEF Placed
<1>5. CASE events' = events \o <<ev>>
  <2>1. ASSUME NEW i \in 1..Len(events')
        PROVE  events'[i].type # "disconnected" => events'[i].turn \in 1..Len(turns')
    <3>1. Len(events') = Len(events) + 1 /\ Len(events) \in Nat BY <1>1, <1>5
    <3>2. CASE i = Len(events) + 1
      BY <1>1, <1>5, <3>2
    <3>3. CASE i # Len(events) + 1
      <4>1. i \in 1..Len(events) BY <3>1, <3>3
      <4>2. events'[i] = events[i] BY <1>1, <1>5, <4>1
      <4> QED BY <1>2, <4>1, <4>2
    <3> QED BY <3>2, <3>3
  <2> QED BY <2>1 DEF Placed
<1> QED BY <1>3, <1>4, <1>5

\* Changing what became of a turn does not move it.
LEMMA EndedPlace ==
  ASSUME TypeOK, Placed, NEW t \in RunningTurns, NEW o,
         turns' = [turns EXCEPT ![t].outcome = o]
  PROVE  /\ Len(turns') = Len(turns) /\ Len(turns) \in Nat /\ t \in 1..Len(turns)
         /\ \A i \in 1..Len(turns') : turns'[i].thread # 0
<1>1. turns \in Seq(Turn) /\ t \in 1..Len(turns)
  BY DEF TypeOK, RunningTurns
<1> DEFINE u == [turns[t] EXCEPT !.outcome = o]
<1>2. u.thread = turns[t].thread
  <2>1. turns[t] \in Turn BY <1>1
  <2> QED BY <2>1 DEF Turn
<1>3. turns' = [turns EXCEPT ![t] = u] OBVIOUS
<1> HIDE DEF u
<1>4. Len(turns') = Len(turns) /\ Len(turns) \in Nat BY <1>1, <1>3
<1>5. ASSUME NEW i \in 1..Len(turns') PROVE turns'[i].thread # 0
  <2>1. i \in 1..Len(turns) BY <1>4
  <2>2. turns'[i] = IF i = t THEN u ELSE turns[i] BY <1>1, <1>3, <2>1
  <2> QED BY <1>1, <1>2, <2>1, <2>2 DEF Placed
<1> QED BY <1>1, <1>4, <1>5

LEMMA PlacedStep ==
  ASSUME TypeOK, ReadyInv, Next
  PROVE  Placed'
<1>0. /\ w \in Memory /\ Ready(w) /\ Placed /\ events \in Seq(Event)
      /\ turns \in Seq(Turn) /\ Len(turns) \in Nat /\ wire \in Request
  BY DEF TypeOK, ReadyInv
<1>1. CASE UserStep
  <2>1. UNCHANGED <<turns, wire>>
    BY <1>1 DEF UserStep, StartConfigured, StartNewConfigured, QueueMessage, Configure,
                SaveAgain, Resume, ClearQueued, PauseTask, Stop, Reset, Shutdown, server
  <2>2. events' = events \/ events' = << >>
    <3>1. ASSUME NEW t, StartConfigured(t) \/ StartNewConfigured(t) \/ QueueMessage(t)
          PROVE  events' = events \/ events' = << >>
      BY <3>1 DEF StartConfigured, StartNewConfigured, QueueMessage, Becomes
    <3>2. CASE Configure \/ SaveAgain \/ Resume \/ ClearQueued
      BY <3>2 DEF Configure, SaveAgain, Resume, ClearQueued, Becomes
    <3>3. CASE PauseTask \/ Stop \/ Reset \/ Shutdown
      BY <3>3 DEF PauseTask, Stop, Reset, Shutdown, Becomes
    <3> QED BY <1>1, <3>1, <3>2, <3>3 DEF UserStep
  <2> QED BY <1>0, <2>1, <2>2, PlacedKept
<1>2. CASE InterruptReply
  <2> DEFINE t  == w.interrupting
             ev == [type |-> "completed", turn |-> t]
  <2>1. w.pc \in {"pausing", "stopping", "replacing", "resetting", "expiring"}
    BY <1>2 DEF InterruptReply
  <2>2. /\ wire' = wire
        /\ \/ UNCHANGED turns /\ (events' = events \/ events' = << >>)
           \/ /\ t \in RunningTurns /\ turns' = [turns EXCEPT ![t].outcome = "interrupted"]
              /\ events' = Append(events, ev) \/ events' = << >>
    BY <1>2, <2>1 DEF InterruptReply, Becomes
  <2>3. CASE UNCHANGED turns /\ (events' = events \/ events' = << >>)
    BY <1>0, <2>2, <2>3, PlacedKept
  <2>4. CASE /\ t \in RunningTurns /\ turns' = [turns EXCEPT ![t].outcome = "interrupted"]
             /\ events' = Append(events, ev) \/ events' = << >>
    <3>1. /\ Len(turns') = Len(turns) /\ t \in 1..Len(turns)
          /\ \A i \in 1..Len(turns') : turns'[i].thread # 0
      BY <1>0, <2>4, EndedPlace
    <3>2. ev \in Event /\ (ev.type # "disconnected" => ev.turn \in 1..Len(turns'))
      BY <1>0, <3>1 DEF Event, EventTypes
    <3> HIDE DEF ev
    <3>3. events' = events \o <<ev>> \/ events' = << >> BY <1>0, <2>4, <3>2
    <3> QED BY <1>0, <2>2, <3>1, <3>2, <3>3, PlacedAnnounce
  <2> QED BY <2>2, <2>3, <2>4
<1>3. CASE Mark
  <2> DEFINE marked == MarkSubmission(w.m, minted + 1)
             s == [w EXCEPT !.m = marked, !.pc = "submit"]
  <2>1. UNCHANGED turns /\ (events' = events \/ events' = << >>)
    BY <1>3 DEF Mark, Becomes
  <2>2. wire' = wire \/ wire'.thread = s.m.thread
    BY <1>3 DEF Mark
  <2>3. s.m.thread # 0
    <3>1. w.m.thread # 0 /\ w.m \in Machine BY <1>0, <1>3 DEF Mark, Ready, Memory
    <3>2. marked.thread = w.m.thread BY <3>1 DEF MarkSubmission, Machine
    <3> HIDE DEF marked
    <3>3. s.m = marked BY <1>0 DEF Memory
    <3> QED BY <3>1, <3>2, <3>3
  <2> QED BY <1>0, <2>1, <2>2, <2>3 DEF Placed
<1>4. CASE SubmitReply \/ SubmitFails \/ Restart
  <2>1. UNCHANGED turns /\ (events' = events \/ events' = << >>)
    BY <1>4 DEF SubmitReply, SubmitFails, Restart, Becomes
  <2>2. wire' = NoRequest
    BY <1>4 DEF SubmitReply, SubmitFails, Restart
  <2>3. wire'.client = 0
    BY <2>2 DEF NoRequest
  <2> QED BY <1>0, <2>1, <2>3 DEF Placed
<1>5. CASE \/ ConnectReply \/ CreateReply \/ ResumeReply \/ ResumeFails \/ Handover
           \/ HandleDeadline
  <2>1. UNCHANGED <<turns, wire>>
    BY <1>5 DEF ConnectReply, CreateReply, ResumeReply, ResumeFails, Handover,
                HandleDeadline, server
  <2>2. events' = events \/ events' = << >>
    BY <1>5 DEF ConnectReply, CreateReply, ResumeReply, ResumeFails, Handover,
                HandleDeadline, Becomes
  <2> QED BY <1>0, <2>1, <2>2, PlacedKept
<1>6. CASE OnTurnStarted \/ OnError \/ OnTurnCompleted \/ OnSystemError \/ OnDisconnected
  <2>1. UNCHANGED <<turns, wire>>
    BY <1>6 DEF OnTurnStarted, OnError, OnTurnCompleted, OnSystemError, OnDisconnected, server
  <2>2. events # << >>
    BY <1>6 DEF OnTurnStarted, OnError, OnTurnCompleted, OnSystemError, OnDisconnected, Hears
  <2>3. events' = Tail(events) \/ events' = << >>
    BY <1>6 DEF OnTurnStarted, OnError, OnTurnCompleted, OnSystemError, OnDisconnected,
                Handles, Ignores, Becomes
  <2> QED BY <1>0, <2>1, <2>2, <2>3, PlacedKept
<1>7. CASE ServerAccepts
  <2> DEFINE t  == Len(turns) + 1
             ev == [type |-> "started", turn |-> t]
             u  == [thread |-> wire.thread, client |-> wire.client, task |-> wire.task,
                    kind |-> wire.kind, outcome |-> "running"]
  <2>1. /\ wire.thread # 0 /\ turns' = Append(turns, u) /\ wire' = [wire EXCEPT !.turn = t]
        /\ events' = events \/ events' = events \o <<ev>>
    BY <1>0, <1>7 DEF ServerAccepts, Announce, Placed
  <2>2. u.thread # 0 BY <2>1
  <2> HIDE DEF u
  <2>3. /\ Len(turns') = t
        /\ \A i \in 1..Len(turns') : turns'[i].thread # 0
    BY <1>0, <2>1, <2>2 DEF Placed
  <2>4. ev \in Event /\ ev.turn \in 1..Len(turns')
    BY <1>0, <2>3 DEF Event, EventTypes
  <2>5. wire'.thread = wire.thread /\ wire'.client = wire.client
    BY <1>0, <2>1 DEF Request
  <2>6. /\ \A i \in 1..Len(events') :
             events'[i].type # "disconnected" => events'[i].turn \in 1..Len(turns')
    <3> HIDE DEF ev
    <3>1. \A i \in 1..Len(events) :
            events[i].type # "disconnected" => events[i].turn \in 1..Len(turns')
      BY <1>0, <2>3 DEF Placed
    <3>2. ASSUME NEW i \in 1..Len(events \o <<ev>>)
          PROVE  (events \o <<ev>>)[i] \in {ev} \cup {events[j] : j \in 1..Len(events)}
      BY <1>0
    <3>3. CASE events' = events
      BY <3>1, <3>3
    <3>4. CASE events' = events \o <<ev>>
      <4>1. ASSUME NEW i \in 1..Len(events')
            PROVE  events'[i] = ev \/ \E j \in 1..Len(events) : events'[i] = events[j]
        BY <3>2, <3>4
      <4> QED BY <2>4, <3>1, <4>1
    <3> QED BY <2>1, <3>3, <3>4
  <2> QED BY <2>1, <2>3, <2>5, <2>6 DEF Placed
<1>8. CASE TurnEnds
  <2>1. PICK t \in RunningTurns, ending \in Endings :
          /\ turns' = [turns EXCEPT ![t].outcome = ending]
          /\ \/ Announce(IF turns[t].kind = "foreign" THEN << >>
                         ELSE <<[type |-> "completed", turn |-> t]>>)
             \/ UNCHANGED events
    BY <1>8 DEF TurnEnds
  <2> DEFINE ev == [type |-> "completed", turn |-> t]
  <2>2. /\ Len(turns') = Len(turns) /\ t \in 1..Len(turns)
        /\ \A i \in 1..Len(turns') : turns'[i].thread # 0
    BY <1>0, <2>1, EndedPlace
  <2>3. ev \in Event /\ ev.turn \in 1..Len(turns')
    BY <1>0, <2>2 DEF Event, EventTypes
  <2>4. wire' = wire BY <1>8 DEF TurnEnds
  <2>5. events' = events \/ events' = events \o <<ev>>
    <3>1. events' \in {events, events \o << >>, events \o <<ev>>}
      BY <2>1 DEF Announce
    <3> QED BY <1>0, <3>1
  <2> HIDE DEF ev
  <2> QED BY <1>0, <2>2, <2>3, <2>4, <2>5, PlacedAnnounce, SMTT(20)
<1>9. CASE Notices
  <2>1. PICK t \in OwnRunning, type \in {"willRetry", "retryable", "fatal"} :
          Announce(<<[type |-> type, turn |-> t]>>)
    BY <1>9 DEF Notices
  <2> DEFINE ev == [type |-> type, turn |-> t]
  <2>2. UNCHANGED <<turns, wire>> BY <1>9 DEF Notices, server
  <2>3. ev \in Event /\ ev.turn \in 1..Len(turns')
    BY <1>0, <2>2 DEF OwnRunning, RunningTurns, Event, EventTypes
  <2>4. events' = events \/ events' = events \o <<ev>>
    BY <2>1 DEF Announce
  <2> HIDE DEF ev
  <2> QED BY <1>0, <2>2, <2>3, <2>4, PlacedAnnounce DEF Placed
<1>10. CASE ThreadBreaks
  <2>1. PICK t \in OwnRunning :
          /\ turns' = [turns EXCEPT ![t].outcome = "overloaded"]
          /\ Announce(<<[type |-> "systemError", turn |-> t]>>)
    BY <1>10 DEF ThreadBreaks
  <2> DEFINE ev == [type |-> "systemError", turn |-> t]
  <2>2. /\ Len(turns') = Len(turns) /\ t \in 1..Len(turns)
        /\ \A i \in 1..Len(turns') : turns'[i].thread # 0
    BY <1>0, <2>1, EndedPlace DEF OwnRunning
  <2>3. ev \in Event /\ ev.turn \in 1..Len(turns')
    BY <1>0, <2>2 DEF Event, EventTypes
  <2>4. wire' = wire BY <1>10 DEF ThreadBreaks
  <2>5. events' = events \/ events' = events \o <<ev>>
    BY <2>1 DEF Announce
  <2> HIDE DEF ev
  <2> QED BY <1>0, <2>2, <2>3, <2>4, <2>5, PlacedAnnounce
<1>11. CASE ForeignTurn
  <2> DEFINE u == [thread |-> w.m.thread, client |-> 0, task |-> NoTask,
                   kind |-> "foreign", outcome |-> "running"]
  <2>1. /\ turns' = Append(turns, u) /\ u.thread # 0
        /\ UNCHANGED <<events, wire>>
    BY <1>11 DEF ForeignTurn
  <2> HIDE DEF u
  <2> QED BY <1>0, <2>1 DEF Placed
<1>12. CASE Disconnects
  <2> DEFINE ev == [type |-> "disconnected", turn |-> 0]
  <2>1. UNCHANGED <<turns, wire>> /\ (events' = events \/ events' = events \o <<ev>>)
    BY <1>12 DEF Disconnects, Announce, server
  <2>2. ev \in Event /\ ev.type = "disconnected" BY DEF Event, EventTypes
  <2> HIDE DEF ev
  <2> QED BY <1>0, <2>1, <2>2, PlacedAnnounce DEF Placed
<1>13. CASE DiskFails \/ DiskRecovers \/ Crash
  <2>1. UNCHANGED <<turns, wire>> /\ (events' = events \/ events' = << >>)
    BY <1>13 DEF DiskFails, DiskRecovers, Crash, server
  <2> QED BY <1>0, <2>1, PlacedKept
<1> QED BY <1>1, <1>2, <1>3, <1>4, <1>5, <1>6, <1>7, <1>8, <1>9, <1>10, <1>11, <1>12, <1>13
        DEF Next, WorkerStep, CodexStep, MachineStep

LEMMA ReadyStep == TypeOK /\ ReadyInv /\ [Next]_vars => ReadyInv'
<1>1. ASSUME TypeOK, ReadyInv, UNCHANGED vars PROVE ReadyInv'
  BY <1>1 DEF ReadyInv, Ready, Placed, vars
<1>2. ASSUME TypeOK, ReadyInv, WorkerStep PROVE Ready(w')
  BY <1>2, RequestReady, EventReady, TimerAndRestartReady DEF WorkerStep
<1>3. ASSUME TypeOK, ReadyInv, CodexStep PROVE Ready(w')
  <2>1. w' = w
    BY <1>3 DEF CodexStep, ServerAccepts, TurnEnds, Notices, ThreadBreaks, ForeignTurn
  <2> QED BY <1>3, <2>1 DEF ReadyInv
<1>4. ASSUME TypeOK, ReadyInv, MachineStep PROVE Ready(w')
  <2>1. w' = w \/ w' = Down
    BY <1>4 DEF MachineStep, Disconnects, DiskFails, DiskRecovers, Crash
  <2>2. Ready(Down)
    BY DEF Down, Offline, Ready
  <2> QED BY <1>4, <2>1, <2>2 DEF ReadyInv
<1>5. ASSUME TypeOK, ReadyInv, Next PROVE ReadyInv'
  BY <1>2, <1>3, <1>4, <1>5, UserReady, PlacedStep DEF Next, ReadyInv
<1> QED BY <1>1, <1>5

LEMMA InitReady == Init => ReadyInv
BY DEF Init, ReadyInv, Ready, Placed, Offline, NoRequest

\* run_loop never waits for an event alone while a task is started, whatever is
\* lost, late or refused, for any number of tasks, commands and faults.
THEOREM NoStallCorrect == Spec => []NoStall
<1>1. ReadyInv => NoStall
  BY DEF ReadyInv, Ready, NoStall
<1> QED BY <1>1, InitReady, ReadyStep, TypeCorrect, PTL DEF Spec

\* No order of notifications, replies and commands makes set_active_turn refuse a
\* turn, which would end the worker's Tokio task.
THEOREM NeverDiesCorrect == Spec => []NeverDies
<1>1. ReadyInv => NeverDies
  BY DEF ReadyInv, Ready, NeverDies
<1> QED BY <1>1, InitReady, ReadyStep, TypeCorrect, PTL DEF Spec

-----------------------------------------------------------------------------
\* What survives on disk: for every fault but a disk that refuses to save.

LEMMA SaveKept ==
  ASSUME TypeOK, diskOk, NEW s
  PROVE  /\ SaveState(s) => /\ disk'.state = s.m /\ disk'.digest = s.prompt
                            /\ disk'.prompt = disk.prompt
         /\ SaveConfig(s) => /\ disk'.prompt = s.prompt /\ disk'.state = disk.state
                             /\ disk'.digest = disk.digest
         /\ SaveConfigAndState(s) => /\ disk'.state = s.m /\ disk'.digest = s.prompt
                                     /\ disk'.prompt = s.prompt
<1>0. disk \in Disk BY DEF TypeOK
<1>1. ASSUME NEW a, NEW b
      PROVE  LET d == [disk EXCEPT !.state = a, !.digest = b]
             IN d.state = a /\ d.digest = b /\ d.prompt = disk.prompt
  BY <1>0 DEF Disk
<1>2. ASSUME NEW a
      PROVE  LET d == [disk EXCEPT !.prompt = a]
             IN d.prompt = a /\ d.state = disk.state /\ d.digest = disk.digest
  BY <1>0 DEF Disk
<1>3. ASSUME SaveState(s)
      PROVE  disk'.state = s.m /\ disk'.digest = s.prompt /\ disk'.prompt = disk.prompt
  <2>1. disk' = [disk EXCEPT !.state = s.m, !.digest = s.prompt]
    BY <1>3 DEF SaveState
  <2> QED BY <1>1, <2>1
<1>4. ASSUME SaveConfig(s)
      PROVE  disk'.prompt = s.prompt /\ disk'.state = disk.state
             /\ disk'.digest = disk.digest
  <2>1. disk' = [disk EXCEPT !.prompt = s.prompt]
    BY <1>4 DEF SaveConfig
  <2> QED BY <1>2, <2>1
<1>5. ASSUME SaveConfigAndState(s)
      PROVE  disk'.state = s.m /\ disk'.digest = s.prompt /\ disk'.prompt = s.prompt
  <2>1. disk' = [state |-> s.m, digest |-> s.prompt, prompt |-> s.prompt]
    BY <1>5 DEF SaveConfigAndState
  <2> QED BY <2>1
<1> QED BY <1>3, <1>4, <1>5

LEMMA PhaseKept ==
  ASSUME NEW m \in Machine
  PROVE  /\ Pause(m).phase = "Paused" /\ Fatal(m).phase = "FatalError"
         /\ Succeed(m).phase = "Success" /\ ClearSession(m).phase = "Idle"
         /\ StopCurrentTurn(m).phase = "Idle" /\ ClearQueuedMessage(m).phase = m.phase
         /\ Fresh.phase = "Idle"
<1>1. Succeed(m).phase = "Success"
  <2> DEFINE k == [m EXCEPT !.phase = "Success", !.turn = 0, !.uncertain = FALSE]
  <2>1. k.phase = "Success" /\ k \in Machine
    BY PhaseNames DEF Machine
  <2>2. Succeed(m) = [k EXCEPT !.next = FALSE, !.empties = 0, !.followUp = FALSE]
    BY DEF Succeed
  <2> HIDE DEF k
  <2> QED BY <2>1, <2>2 DEF Machine
<1>2. Pause(m).phase = "Paused" /\ Fatal(m).phase = "FatalError"
  BY DEF Pause, Fatal, Machine
<1>3. ClearQueuedMessage(m).phase = m.phase
  BY DEF ClearQueuedMessage, Machine
<1>4. /\ Fresh.phase = "Idle" /\ ClearSession(m).phase = "Idle"
      /\ StopCurrentTurn(m).phase = "Idle"
  BY DEF Fresh, ClearSession, StopCurrentTurn, PrepareFollowUp
<1> QED BY <1>1, <1>2, <1>3, <1>4

-----------------------------------------------------------------------------
\* After the user's stop.

StoppedInv ==
  /\ diskOk
  /\ userStopped =>
       /\ ~w.started
       /\ w.pc \in {"loop", "pausing", "stopping", "resetting", "down"}
       /\ w.m.phase \notin Running
       /\ disk.state.phase \notin Running
       /\ wire.client = 0

\* A memory that is at rest.
Resting(s) ==
  /\ ~s.started
  /\ s.pc \in {"loop", "pausing", "stopping", "resetting", "down"}
  /\ s.m.phase \notin Running

LEMMA RestingSteps ==
  ASSUME NEW s \in Memory
  PROVE  /\ Resting(Pristine(s)) /\ Pristine(s).m.phase = "Idle"
         /\ Resting(s) => Resting(ShutdownTransport(s)) /\ ShutdownTransport(s).m = s.m
         /\ Resting(Down)
         /\ \A p \in Prompts, m \in Machine : m.phase \notin Running => Resting(Offline(m, p))
<1>0. s.m \in Machine BY DEF Memory
<1>1. Resting(Pristine(s)) /\ Pristine(s).m.phase = "Idle"
  <2> DEFINE c == ClearSession(s.m)
  <2>1. c.phase = "Idle" /\ c \in Machine BY <1>0, PhaseKept, ConnectingTypes
  <2>2. Pristine(s) = Loop([Halt(s, c) EXCEPT !.resumeRequested = FALSE,
                              !.prompt = NoTask, !.interrupting = 0])
    BY DEF Pristine
  <2> HIDE DEF c
  <2> DEFINE h == Halt(s, c)
  <2>3. h \in Memory /\ h.m = c /\ ~h.started
    BY <2>1, LoopTypes, ZenonT(40) DEF Halt, Loop, ShutdownTransport, Memory
  <2> HIDE DEF h
  <2>4. /\ Pristine(s).m = c /\ ~Pristine(s).started /\ Pristine(s).pc = "loop"
    BY <2>2, <2>3 DEF Loop, Memory, h
  <2> QED BY <2>1, <2>4 DEF Resting, Running
<1>2. Resting(s) => Resting(ShutdownTransport(s)) /\ ShutdownTransport(s).m = s.m
  BY DEF Resting, ShutdownTransport, Memory
<1>3. ASSUME NEW p \in Prompts, NEW m \in Machine, m.phase \notin Running
      PROVE  Resting(Offline(m, p))
  BY <1>3 DEF Resting, Offline
<1>4. Resting(Down)
  BY PhaseKept, <1>0 DEF Down, Resting, Offline, Running
<1> QED BY <1>1, <1>2, <1>3, <1>4

LEMMA StoppedUser ==
  ASSUME TypeOK, WriteAheadInv, StoppedInv, UserStep
  PROVE  StoppedInv'
<1>0. /\ w \in Memory /\ w.m \in Machine /\ diskOk
      /\ w.pc = "loop" /\ wire.client = 0
  BY DEF TypeOK, Memory, StoppedInv, WriteAheadInv, UserStep, StartConfigured,
         StartNewConfigured, QueueMessage, Configure, SaveAgain, Resume, ClearQueued,
         PauseTask, Stop, Reset, Shutdown, Asks, Listening
<1>1. diskOk' /\ wire' = wire
  BY <1>0 DEF UserStep, StartConfigured, StartNewConfigured, QueueMessage, Configure,
              SaveAgain, Resume, ClearQueued, PauseTask, Stop, Reset, Shutdown,
              server, world
\* What is left to show of a step that keeps or sets userStopped.
<1>s. ASSUME Resting(w'), disk'.state.phase \notin Running PROVE StoppedInv'
  BY <1>0, <1>1, <1>s DEF StoppedInv, Resting
<1>2. CASE \/ Resume
           \/ \E t \in Tasks : StartConfigured(t) \/ StartNewConfigured(t)
  <2>1. ~userStopped'
    BY <1>2 DEF Resume, StartConfigured, StartNewConfigured
  <2> QED BY <1>1, <2>1 DEF StoppedInv
<1>3. ASSUME NEW t \in Tasks, QueueMessage(t) PROVE StoppedInv'
  <2>1. w.started /\ userStopped' = userStopped
    BY <1>3 DEF QueueMessage, history
  <2> QED BY <1>1, <2>1 DEF StoppedInv
<1>4. CASE Configure \/ SaveAgain
  <2>1. w' = w /\ userStopped' = userStopped /\ (SaveConfigAndState(w) \/ SaveState(w))
    BY <1>4 DEF Configure, SaveAgain, history
  <2>2. disk'.state = w.m BY <1>0, <2>1, SaveKept
  <2> QED BY <1>0, <1>1, <2>1, <2>2 DEF StoppedInv
<1>5. CASE ClearQueued
  <2> DEFINE m == ClearQueuedMessage(w.m)
             s == [w EXCEPT !.m = m]
  <2>1. w' = s /\ userStopped' = userStopped /\ SaveState(s)
    BY <1>5 DEF ClearQueued, Becomes, history
  <2>2. m.phase = w.m.phase BY <1>0, PhaseKept
  <2> HIDE DEF m
  <2>3. s.m = m /\ s.started = w.started /\ s.pc = w.pc BY <1>0 DEF Memory
  <2> HIDE DEF s
  <2>4. disk'.state = m BY <1>0, <2>1, <2>3, SaveKept
  <2> QED BY <1>0, <1>1, <2>1, <2>2, <2>3, <2>4 DEF StoppedInv
<1>6. CASE PauseTask
  <2> DEFINE m == Pause(w.m)
             s == [w EXCEPT !.started = FALSE, !.turnDeadline = FALSE, !.m = m]
             p == [s EXCEPT !.pc = "pausing", !.interrupting = s.m.turn]
  <2>1. \/ w' = p /\ SaveState(p)
        \/ w' = ShutdownTransport(s) /\ SaveState(s)
    BY <1>6 DEF PauseTask, Becomes
  <2>2. m.phase = "Paused" /\ m \in Machine BY <1>0, PhaseKept, EndingTypes
  <2> HIDE DEF m
  <2>3. s \in Memory /\ Resting(s) /\ s.m = m /\ Resting(p) /\ p.m = m
    BY <1>0, <2>2 DEF Memory, Resting, Running
  <2> HIDE DEF s, p
  <2>4. Resting(w') /\ disk'.state = m
    BY <1>0, <2>1, <2>3, SaveKept, RestingSteps
  <2> QED BY <1>s, <2>2, <2>4 DEF Running
<1>7. ASSUME NEW pc \in {"stopping", "resetting"}
      PROVE  LET k == StopTask(w)
                 q == [k EXCEPT !.pc = pc]
             IN /\ k \in Memory /\ Resting(k) /\ k.m.phase = "Idle"
                /\ q \in Memory /\ Resting(q) /\ q.m = k.m
  <2> DEFINE m == StopCurrentTurn(w.m)
             k == StopTask(w)
             q == [k EXCEPT !.pc = pc]
  <2>1. m.phase = "Idle" /\ m \in Machine BY <1>0, PhaseKept, FollowUpType
  <2>2. k = [w EXCEPT !.started = FALSE, !.turnDeadline = FALSE, !.m = m,
                      !.interrupting = w.m.turn]
    BY DEF StopTask
  <2> DEFINE t == w.m.turn
  <2>t. t \in Nat BY <1>0 DEF Machine
  <2> HIDE DEF m, k, t
  <2>3. k \in Memory /\ k.m = m /\ ~k.started /\ k.pc = "loop"
    <3>1. k = [w EXCEPT !.started = FALSE, !.turnDeadline = FALSE, !.m = m,
                        !.interrupting = t]
      BY <2>2 DEF t
    <3> QED BY <1>0, <2>1, <2>t, <3>1 DEF Memory
  <2>4. q \in Memory /\ q.m = m /\ ~q.started /\ q.pc = pc
    BY <2>3 DEF Memory, Awaits
  <2> QED BY <2>1, <2>3, <2>4 DEF Resting, Running, k
<1>8. CASE Stop
  <2> DEFINE k == StopTask(w)
             q == [k EXCEPT !.pc = "stopping"]
  <2>1. \/ w' = q /\ SaveState(q)
        \/ w' = ShutdownTransport(k) /\ SaveState(ShutdownTransport(k))
    BY <1>8 DEF Stop, Becomes
  <2>2. /\ k \in Memory /\ Resting(k) /\ k.m.phase = "Idle"
        /\ q \in Memory /\ Resting(q) /\ q.m = k.m
    BY <1>7
  <2> HIDE DEF k, q
  <2>3. Resting(w') /\ disk'.state = k.m
    BY <1>0, <2>1, <2>2, SaveKept, RestingSteps
  <2> QED BY <1>s, <2>2, <2>3 DEF Running
<1>9. CASE Reset
  <2> DEFINE k == StopTask(w)
             q == [k EXCEPT !.pc = "resetting"]
  <2>1. \/ w' = q /\ SaveState(q)
        \/ w' = Pristine(w) /\ SaveConfigAndState(Pristine(w))
    BY <1>9 DEF Reset, Becomes
  <2>2. q \in Memory /\ Resting(q) /\ q.m.phase = "Idle"
    BY <1>7
  <2> HIDE DEF q
  <2>3. Resting(w') /\ disk'.state.phase = "Idle"
    BY <1>0, <2>1, <2>2, SaveKept, RestingSteps
  <2> QED BY <1>s, <2>3 DEF Running
<1>10. CASE Shutdown
  <2> DEFINE m == ClearSession(w.m)
             s == [w EXCEPT !.m = m]
  <2>1. w' = Down /\ SaveState(s)
    BY <1>10 DEF Shutdown, Becomes
  <2>2. s.m = m /\ m.phase = "Idle"
    BY <1>0, PhaseKept DEF Memory
  <2> HIDE DEF s
  <2>3. Resting(w') /\ disk'.state = m
    BY <1>0, <2>1, <2>2, SaveKept, RestingSteps
  <2> QED BY <1>s, <2>2, <2>3 DEF Running
<1> QED BY <1>2, <1>3, <1>4, <1>5, <1>6, <1>8, <1>9, <1>10 DEF UserStep

LEMMA StoppedWorker ==
  ASSUME TypeOK, StoppedInv, WorkerStep
  PROVE  StoppedInv'
<1>0. w \in Memory /\ w.m \in Machine /\ disk \in Disk /\ disk.state \in Machine
      /\ disk.prompt \in Prompts /\ diskOk
  BY DEF TypeOK, Memory, Disk, StoppedInv
<1>1. diskOk' /\ userStopped' = userStopped
  BY <1>0 DEF WorkerStep, InterruptReply, ConnectReply, CreateReply, ResumeReply,
       ResumeFails, Mark, SubmitReply, SubmitFails, Handover, OnTurnStarted, OnError,
       OnTurnCompleted, OnSystemError, OnDisconnected, HandleDeadline, Restart, world,
       history
<1>2. CASE ~userStopped
  BY <1>1, <1>2 DEF StoppedInv
<1>3. CASE userStopped /\ InterruptReply
  <2>1. Resting(w) /\ disk.state.phase \notin Running /\ wire.client = 0 /\ wire' = wire
    BY <1>3 DEF StoppedInv, Resting, InterruptReply
  <2>2. w.pc \in {"pausing", "stopping", "resetting"}
    BY <1>3 DEF StoppedInv, InterruptReply
  <2> DEFINE k == [w EXCEPT !.interrupting = 0]
             s == Loop(ShutdownTransport(k))
  <2>3. \/ w' = s /\ (SaveState(s) \/ disk' = disk)
        \/ w' = Pristine(w) /\ SaveConfigAndState(Pristine(w))
    BY <1>3, <2>2 DEF InterruptReply, Becomes
  <2>4. Resting(s) /\ s.m = w.m
    BY <1>0, <2>1 DEF Resting, Loop, ShutdownTransport, Memory
  <2> HIDE DEF s
  <2>5. Resting(w') /\ disk'.state.phase \notin Running
    BY <1>0, <2>1, <2>3, <2>4, SaveKept, RestingSteps DEF Resting
  <2> QED BY <1>1, <2>1, <2>5 DEF StoppedInv, Resting
<1>4. CASE userStopped /\ Restart
  <2> DEFINE m == disk.state
             marked == [m EXCEPT !.uncertain = @ \/ m.phase = "Sending"]
             kept == Offline(marked, disk.prompt)
  <2>1. m.phase \notin Running /\ ~PickedUp(m)
    BY <1>4 DEF StoppedInv, PickedUp
  <2>2. Restored \in {Offline(Fresh, NoTask), [kept EXCEPT !.started = PickedUp(m)]}
    BY <2>1 DEF Restored
  <2>3. marked \in Machine /\ marked.phase \notin Running
    BY <1>0, <2>1 DEF Machine
  <2> HIDE DEF marked
  <2>4. /\ Resting(kept) /\ Resting(Offline(Fresh, NoTask))
        /\ kept \in Memory
    BY <1>0, <2>3, RestingSteps, FreshType, OfflineType, PhaseKept DEF Running, Prompts
  <2> DEFINE b == PickedUp(m)
             q == [kept EXCEPT !.started = b]
  <2>5. Resting(q)
    <3>1. ~b /\ b \in BOOLEAN BY <2>1 DEF PickedUp
    <3> HIDE DEF kept, b
    <3> QED BY <2>4, <3>1 DEF Resting, Memory
  <2>6. Resting(Restored)
    BY <2>2, <2>4, <2>5
  <2>7. /\ w' = Restored
        /\ disk' = disk \/ disk' = [disk EXCEPT !.state = Fresh, !.digest = NoTask]
    BY <1>4, <2>6 DEF Restart, Resting
  <2>8. disk'.state.phase \notin Running
    BY <1>0, <2>1, <2>7, PhaseKept DEF Disk, Running
  <2>9. wire'.client = 0
    BY <1>4 DEF Restart, NoRequest
  <2> QED BY <1>1, <2>6, <2>7, <2>8, <2>9 DEF StoppedInv, Resting
<1>5. CASE userStopped /\ ~InterruptReply /\ ~Restart
  \* Every other step is of a task that is started or under way.
  <2>1. ~w.started /\ w.pc \in {"loop", "pausing", "stopping", "resetting", "down"}
    BY <1>5 DEF StoppedInv
  <2> QED
    BY <1>5, <2>1 DEF WorkerStep, ConnectReply, CreateReply, ResumeReply, ResumeFails,
       Mark, SubmitReply, SubmitFails, Handover, OnTurnStarted, OnError, OnTurnCompleted,
       OnSystemError, OnDisconnected, HandleDeadline, Hears
<1> QED BY <1>2, <1>3, <1>4, <1>5

LEMMA StoppedStep ==
  "disk" \notin Faults /\ TypeOK /\ WriteAheadInv /\ StoppedInv /\ [Next]_vars => StoppedInv'
<1> SUFFICES ASSUME "disk" \notin Faults, TypeOK, WriteAheadInv, StoppedInv, [Next]_vars
             PROVE  StoppedInv'
  OBVIOUS
<1>1. CASE UNCHANGED vars
  BY <1>1 DEF vars, StoppedInv
<1>2. CASE CodexStep
  <2>1. w' = w /\ disk' = disk /\ diskOk' = diskOk /\ userStopped' = userStopped
    BY <1>2 DEF CodexStep, ServerAccepts, TurnEnds, Notices, ThreadBreaks, ForeignTurn,
                world, history
  <2>2. wire.client = 0 => wire' = wire
    BY <1>2 DEF CodexStep, ServerAccepts, TurnEnds, Notices, ThreadBreaks, ForeignTurn,
                server
  <2> QED BY <2>1, <2>2 DEF StoppedInv
<1>3. CASE MachineStep
  <2>1. ~DiskFails /\ ~DiskRecovers
    BY DEF DiskFails, DiskRecovers, Fault, StoppedInv
  <2>2. /\ UNCHANGED <<disk, wire, diskOk, userStopped>>
        /\ w' = w \/ w' = Down
    BY <1>3, <2>1 DEF MachineStep, Disconnects, Crash, server, history
  <2>3. Resting(Down) BY RestingSteps DEF TypeOK
  <2> QED BY <2>2, <2>3 DEF StoppedInv, Resting
<1> QED BY <1>1, <1>2, <1>3, StoppedUser, StoppedWorker DEF Next

\* After Pause, Stop, Reset or Quit nothing runs and nothing is sent until the user
\* asks again, whatever arrives late and however often Longwatch dies: for every
\* fault but a disk that refuses to save (handle_pause, handle_stop, handle_reset,
\* handle_shutdown, spawn_runtime).
THEOREM StaysStoppedCorrect ==
  ASSUME "disk" \notin Faults
  PROVE  Spec => []StaysStopped
<1>1. Init => StoppedInv
  BY DEF Init, StoppedInv
<1>2. StoppedInv => StaysStopped
  BY DEF StoppedInv, StaysStopped
<1>3. Init => WriteAheadInv
  BY DEF Init, WriteAheadInv, WriteAhead, NoRequest
<1>4. TypeOK /\ WriteAheadInv /\ StoppedInv /\ [Next]_vars => StoppedInv'
  BY StoppedStep
<1> QED BY <1>1, <1>2, <1>3, <1>4, TypeCorrect, WriteAheadStep, PTL DEF Spec

-----------------------------------------------------------------------------
\* A task that runs.

\* A conversation that a restart found empty: its memory has no text, though an
\* older one may still be in config.json.
Empty(s) == s.pc = "loop" /\ ~s.started /\ s.prompt = NoTask /\ s.m.thread = 0

KeptInv ==
  /\ diskOk
  /\ w.pc # "replacing" /\ (w.pc = "down" => ~w.started)
  /\ w.pc = "down" \/ w.prompt = disk.prompt \/ Empty(w)
  /\ w.started /\ w.pc # "handover" =>
       /\ w.m.phase \in Running /\ disk.state.phase \in Running
       /\ disk.digest = disk.prompt /\ disk.prompt = w.prompt

\* What a handler leaves in memory when the text is p and the state is saved next ...
Settled(s, p) ==
  /\ s.pc \notin {"replacing", "down", "handover"}
  /\ s.prompt = p
  /\ s.started => s.m.phase \in Running

\* ... or it hands over to a message typed ahead, whose text is saved first.
Fine(s, p) == s.pc = "handover" \/ Settled(s, p)

LEMMA RetrySettled ==
  ASSUME NEW s \in Memory
  PROVE  /\ Settled(ScheduleRetryW(s), s.prompt)
         /\ Settled(ScheduleConnectionRetry(s), s.prompt)
         /\ \A m \in Machine : Settled(Halt(s, m), s.prompt)
<1> DEFINE f  == FollowUpIfActive(s.m)
           m1 == ScheduleRetry(f)
           b  == BeginConnecting(f)
           m2 == [b EXCEPT !.next = TRUE]
<1>1. f \in Machine BY EndingTypes DEF Memory
<1> HIDE DEF f
<1>2. m1.phase = "Backoff" BY <1>1 DEF ScheduleRetry, Machine
<1>3. m2.phase = "Connecting"
  <2>1. b \in Machine BY <1>1, ConnectingTypes
  <2>2. b.phase = "Connecting" BY <1>1 DEF BeginConnecting, Machine
  <2> HIDE DEF b
  <2> QED BY <2>1, <2>2 DEF Machine
<1> HIDE DEF m1, m2
<1>4. ScheduleRetryW(s) = [[s EXCEPT !.turnDeadline = FALSE, !.m = m1] EXCEPT !.pc = "loop"]
  BY DEF ScheduleRetryW, Loop, m1, f
<1>5. ScheduleConnectionRetry(s) = [[s EXCEPT !.m = m2] EXCEPT !.pc = "loop"]
  BY DEF ScheduleConnectionRetry, Loop, m2, b, f
<1>6. Settled(ScheduleRetryW(s), s.prompt)
  BY <1>2, <1>4 DEF Settled, Memory, Running
<1>7. Settled(ScheduleConnectionRetry(s), s.prompt)
  BY <1>3, <1>5 DEF Settled, Memory, Running
<1>8. ASSUME NEW m \in Machine PROVE Settled(Halt(s, m), s.prompt)
  BY DEF Halt, Loop, ShutdownTransport, Settled, Memory
<1> QED BY <1>6, <1>7, <1>8

LEMMA FailureSettled ==
  ASSUME NEW s \in Memory, NEW kind \in FailureKinds
  PROVE  Settled(HandleTransportFailure(s, kind), s.prompt)
<1> DEFINE k == [s EXCEPT !.turnDeadline = FALSE]
<1>1. Pause(s.m) \in Machine /\ Fatal(s.m) \in Machine
  BY EndingTypes DEF Memory
<1>2. ShutdownTransport(k) \in Memory /\ ShutdownTransport(k).prompt = s.prompt
  <2>1. k \in Memory /\ k.prompt = s.prompt BY DEF Memory
  <2> HIDE DEF k
  <2> QED BY <2>1, LoopTypes DEF ShutdownTransport, Memory
<1> QED BY <1>1, <1>2, RetrySettled DEF HandleTransportFailure, FailureKinds

LEMMA AttemptSettled ==
  ASSUME NEW s \in Memory, s.started => s.m.phase \in Running
  PROVE  /\ Settled(EnsureConnectionAndThread(s), s.prompt)
         /\ Settled(SendAttempt(s), s.prompt)
         /\ \A t \in Nat : CanSetActiveTurn(s.m, t) => Settled(SetActiveTurnW(s, t), s.prompt)
<1>0. s.m \in Machine BY DEF Memory
<1>1. Settled(EnsureConnectionAndThread(s), s.prompt)
  <2> DEFINE m == BeginConnecting(s.m)
  <2>1. m.phase \in Running BY <1>0 DEF BeginConnecting, Machine, Running
  <2>2. EnsureConnectionAndThread(s) =
          IF s.connected
          THEN [s EXCEPT !.pc = IF s.m.thread = 0 THEN "create" ELSE "resume"]
          ELSE [s EXCEPT !.pc = "connect", !.m = m]
    BY DEF EnsureConnectionAndThread
  <2> HIDE DEF m
  <2> QED BY <2>1, <2>2 DEF Settled, Memory
<1>2. Settled(SendAttempt(s), s.prompt)
  <2> DEFINE m == BeginSending(s.m)
  <2>1. m.phase \in Running BY <1>0 DEF BeginSending, Machine, Running
  <2>2. SendAttempt(s) = IF s.started /\ s.m.thread # 0 /\ s.m.turn = 0
                         THEN [s EXCEPT !.pc = "mark", !.m = m] ELSE Loop(s)
    BY DEF SendAttempt, CanBeginSending
  <2> HIDE DEF m
  <2> QED BY <2>1, <2>2 DEF Loop, Settled, Memory
<1>3. ASSUME NEW t \in Nat, CanSetActiveTurn(s.m, t)
      PROVE  Settled(SetActiveTurnW(s, t), s.prompt)
  <2> DEFINE m == SetActiveTurn(s.m, t)
  <2>1. m.phase \in Running BY <1>0 DEF SetActiveTurn, Machine, Running
  <2>2. SetActiveTurnW(s, t) = Loop([s EXCEPT !.m = m, !.turnDeadline = TRUE])
    BY <1>3 DEF SetActiveTurnW
  <2> HIDE DEF m
  <2> QED BY <2>1, <2>2 DEF Loop, Settled, Memory
<1> QED BY <1>1, <1>2, <1>3

\* The same attempt on a conversation that is known and quiet.
LEMMA QuietSettled ==
  ASSUME NEW s \in Memory, s.m.thread # 0, s.m.turn = 0
  PROVE  Settled(SendAttempt(s), s.prompt)
<1> DEFINE m == BeginSending(s.m)
<1>1. m.phase \in Running BY DEF BeginSending, Memory, Machine, Running
<1>2. SendAttempt(s) = IF s.started THEN [s EXCEPT !.pc = "mark", !.m = m] ELSE Loop(s)
  BY DEF SendAttempt, CanBeginSending
<1> HIDE DEF m
<1> QED BY <1>1, <1>2 DEF Loop, Settled, Memory

LEMMA CompletionFine ==
  ASSUME NEW s \in Memory, NEW outcome
  PROVE  Fine(HandleCompletedTurn(s, outcome), s.prompt)
<1> DEFINE settled == [s EXCEPT !.m.uncertain = FALSE, !.turnDeadline = FALSE]
           done    == [settled EXCEPT !.m = Succeed(@)]
           retried == [settled EXCEPT !.m = MarkEmptyReply(@)]
           decision == ClassifyTurnCompletion(outcome, s.m.empties)
<1>1. settled \in Memory /\ settled.prompt = s.prompt
  <2> DEFINE k == [s.m EXCEPT !.uncertain = FALSE]
  <2>1. k \in Machine BY DEF Memory, Machine
  <2>2. settled = [s EXCEPT !.m = k, !.turnDeadline = FALSE] OBVIOUS
  <2> HIDE DEF k
  <2> QED BY <2>1, <2>2 DEF Memory
<1>2. settled.m \in Machine BY <1>1 DEF Memory
<1> HIDE DEF settled
<1>3. /\ Succeed(settled.m) \in Machine /\ MarkEmptyReply(settled.m) \in Machine
      /\ Pause(settled.m) \in Machine
  BY <1>2, EndingTypes
<1>4. done \in Memory /\ retried \in Memory /\ retried.prompt = s.prompt
  BY <1>1, <1>3 DEF Memory
<1> HIDE DEF done, retried
<1>5. StartQueuedMessage(done).pc = "handover"
  BY <1>4 DEF StartQueuedMessage, Memory
<1>6. /\ Settled(Halt(settled, Succeed(settled.m)), s.prompt)
      /\ Settled(Halt(settled, Pause(settled.m)), s.prompt)
      /\ Settled(ScheduleRetryW(retried), s.prompt)
      /\ Settled(ScheduleRetryW(settled), s.prompt)
  BY <1>1, <1>3, <1>4, RetrySettled
<1>7. Settled(ScheduleRetryW([settled EXCEPT !.m = IF decision[2]
                                                   THEN MarkEmptyReply(@) ELSE @]),
              s.prompt)
  <2>1. CASE decision[2]
    BY <2>1, <1>6 DEF retried
  <2>2. CASE ~decision[2]
    <3>1. [settled EXCEPT !.m = settled.m] = settled
      BY <1>1 DEF Memory
    <3> QED BY <2>2, <1>6, <3>1
  <2> QED BY <2>1, <2>2
<1>8. HandleCompletedTurn(s, outcome) =
        CASE decision[1] = "success" /\ s.m.queued # NoTask -> StartQueuedMessage(done)
          [] decision[1] = "success" /\ s.m.queued = NoTask ->
               Halt(settled, Succeed(settled.m))
          [] decision[1] = "retry" ->
               ScheduleRetryW([settled EXCEPT !.m = IF decision[2]
                                                    THEN MarkEmptyReply(@) ELSE @])
          [] OTHER -> Halt(settled, Pause(settled.m))
  BY DEF HandleCompletedTurn, settled, done
<1> HIDE DEF decision
<1> QED BY <1>5, <1>6, <1>7, <1>8 DEF Fine

LEMMA SessionFine ==
  ASSUME NEW s0 \in Memory, s0.started => s0.m.phase \in Running,
         NEW thread \in Nat \ {0}, NEW latest \in Nat, NEW reports \in BOOLEAN
  PROVE  /\ Fine(ApplyThreadSession(s0, thread, latest, reports), s0.prompt)
         /\ latest = 0 =>
              Settled(ApplyThreadSession(s0, thread, latest, reports), s0.prompt)
<1> DEFINE p == s0.prompt
           s == [s0 EXCEPT !.m = SetThread(@, thread), !.resumeRequested = FALSE]
           clean == [s EXCEPT !.m = ForgetTurn(@)]
           again == [clean EXCEPT !.m = MarkRetryAsFollowUp(@)]
           outcome == turns[latest].outcome
           owed == AwaitingOutcome(s.m)
           foreign == owed /\ NotOurs(s.m, turns[latest], reports)
<1>1. /\ s \in Memory /\ s.m \in Machine /\ s.m.thread # 0 /\ s.prompt = p
      /\ s.started => s.m.phase \in Running
  <2> DEFINE m == SetThread(s0.m, thread)
  <2>1. m \in Machine BY ThreadType DEF Memory
  <2>2. m.thread = thread /\ m.phase = s0.m.phase BY DEF SetThread, Memory, Machine
  <2> HIDE DEF m
  <2>3. s \in Memory /\ s.m = m /\ s.prompt = p /\ s.started = s0.started
    BY <2>1 DEF Memory, m
  <2> QED BY <2>1, <2>2, <2>3
<1> HIDE DEF s
<1>2. /\ clean \in Memory /\ clean.m \in Machine /\ clean.m.thread # 0 /\ clean.m.turn = 0
      /\ clean.prompt = p
  <2> DEFINE m == ForgetTurn(s.m)
  <2>1. m \in Machine BY <1>1, SubmissionTypes
  <2>2. m.thread # 0 /\ m.turn = 0 BY <1>1 DEF ForgetTurn, Machine
  <2> HIDE DEF m
  <2>3. clean \in Memory /\ clean.m = m /\ clean.prompt = p BY <1>1, <2>1 DEF Memory, m
  <2> QED BY <2>1, <2>2, <2>3
<1> HIDE DEF clean
<1>3. again \in Memory /\ again.m.thread # 0 /\ again.m.turn = 0 /\ again.prompt = p
  <2> DEFINE m == MarkRetryAsFollowUp(clean.m)
  <2>1. m \in Machine BY <1>2, EndingTypes
  <2>2. m.thread # 0 /\ m.turn = 0 BY <1>2 DEF MarkRetryAsFollowUp, Machine
  <2> HIDE DEF m
  <2>3. again \in Memory /\ again.m = m /\ again.prompt = p BY <1>2, <2>1 DEF Memory, m
  <2> QED BY <2>2, <2>3
<1> HIDE DEF again
<1>4. Settled(AdoptTurn(s, latest), p)
  <2> DEFINE m == IF s.m.turn = latest THEN s.m ELSE ForgetTurn(s.m)
             a == [s EXCEPT !.m = m]
  <2>1. m \in Machine /\ CanSetActiveTurn(m, latest) /\ m.phase = s.m.phase
    <3>0. ForgetTurn(s.m) \in Machine
      BY <1>1, SubmissionTypes
    <3>1. ForgetTurn(s.m).turn = 0 /\ ForgetTurn(s.m).phase = s.m.phase
      BY <1>1 DEF ForgetTurn, Machine
    <3> QED BY <1>1, <3>0, <3>1 DEF CanSetActiveTurn
  <2>2. AdoptTurn(s, latest) = SetActiveTurnW(a, latest) BY DEF AdoptTurn
  <2> HIDE DEF m
  <2>3. a \in Memory /\ a.m = m /\ a.prompt = p /\ a.started = s.started
    BY <1>1, <2>1 DEF Memory
  <2> HIDE DEF a
  <2> QED BY <1>1, <2>1, <2>2, <2>3, AttemptSettled
<1>5. /\ Settled(ScheduleRetryW(s), p) /\ Settled(ScheduleRetryW(clean), p)
      /\ Settled(SendAttempt(s), p) /\ Settled(SendAttempt(clean), p)
      /\ Settled(SendAttempt(again), p)
  BY <1>1, <1>2, <1>3, RetrySettled, AttemptSettled, QuietSettled
<1>6. Fine(HandleCompletedTurn(s, outcome), p)
  BY <1>1, CompletionFine
<1>7. ApplyThreadSession(s0, thread, latest, reports) =
        CASE latest = 0 /\ owed -> ScheduleRetryW(s)
          [] latest = 0 /\ ~owed -> SendAttempt(s)
          [] latest # 0 /\ foreign ->
               IF outcome = "running" THEN ScheduleRetryW(clean) ELSE SendAttempt(clean)
          [] latest # 0 /\ ~foreign /\ outcome = "running" -> AdoptTurn(s, latest)
          [] latest # 0 /\ ~foreign /\ outcome # "running" ->
               IF ~owed THEN SendAttempt(s)
               ELSE IF outcome = "interrupted" /\ s0.resumeRequested
               THEN SendAttempt(again)
               ELSE HandleCompletedTurn(s, outcome)
  BY DEF ApplyThreadSession, s, clean, again
<1> HIDE DEF outcome, owed, foreign, p
<1>8. latest = 0 => Settled(ApplyThreadSession(s0, thread, latest, reports), p)
  BY <1>5, <1>7
<1>9. latest # 0 => Fine(ApplyThreadSession(s0, thread, latest, reports), p)
  BY <1>4, <1>5, <1>6, <1>7 DEF Fine
<1> QED BY <1>8, <1>9 DEF Fine, p

\* A handler that leaves such a memory and saves it keeps the task.
LEMMA SavedKept ==
  ASSUME TypeOK, KeptInv, diskOk', NEW s, w' = s, s.started \in BOOLEAN,
         w.prompt = disk.prompt,
         \/ Settled(s, w.prompt) /\ SaveState(s)
         \/ Fine(s, w.prompt) /\ SaveOutcome(s)
  PROVE  KeptInv'
<1>0. diskOk BY DEF KeptInv
<1>1. CASE Settled(s, w.prompt) /\ SaveState(s)
  <2>1. disk'.state = s.m /\ disk'.digest = s.prompt /\ disk'.prompt = disk.prompt
    BY <1>0, <1>1, SaveKept
  <2> QED BY <1>1, <2>1 DEF Settled, KeptInv
<1>2. CASE s.pc = "handover" /\ SaveOutcome(s)
  <2>1. disk'.prompt = s.prompt
    BY <1>0, <1>2, SaveKept DEF SaveOutcome
  <2> QED BY <1>2, <2>1 DEF KeptInv
<1>3. Fine(s, w.prompt) /\ SaveOutcome(s) =>
        \/ s.pc = "handover" /\ SaveOutcome(s)
        \/ Settled(s, w.prompt) /\ SaveState(s)
  BY DEF Fine, Settled, SaveOutcome
<1> QED BY <1>1, <1>2, <1>3

\* What KeptInv says of a task that is under way.
LEMMA UnderWay ==
  ASSUME TypeOK, KeptInv
  PROVE  /\ w \in Memory /\ w.m \in Machine /\ diskOk
         /\ w.started \/ w.pc \notin {"loop", "down"} => w.prompt = disk.prompt
         /\ w.started /\ w.pc # "handover" => w.m.phase \in Running
BY DEF TypeOK, Memory, KeptInv, Empty

LEMMA PristineRests ==
  ASSUME NEW s \in Memory
  PROVE  ~Pristine(s).started /\ Pristine(s).pc = "loop"
<1> DEFINE h == [Halt(s, ClearSession(s.m)) EXCEPT !.resumeRequested = FALSE,
                   !.prompt = NoTask, !.interrupting = 0]
<1>1. Resting(Pristine(s)) /\ Pristine(s) \in Memory
  BY RestingSteps, CommandTypes
<1>2. Pristine(s) = Loop(h) BY DEF Pristine
<1>3. "pc" \in DOMAIN Pristine(s) BY <1>1 DEF Memory
<1>4. DOMAIN Pristine(s) = DOMAIN h BY <1>2 DEF Loop
<1> HIDE DEF h
<1> QED BY <1>1, <1>2, <1>3, <1>4 DEF Loop, Resting

LEMMA KeptUser ==
  ASSUME "new" \notin Commands, TypeOK, KeptInv, UserStep
  PROVE  KeptInv'
<1>0. /\ w \in Memory /\ w.m \in Machine /\ diskOk /\ w.pc = "loop"
      /\ w.m.queued \in Prompts
  BY DEF TypeOK, Memory, Machine, Prompts, KeptInv, UserStep, StartConfigured,
         StartNewConfigured, QueueMessage, Configure, SaveAgain, Resume, ClearQueued,
         PauseTask, Stop, Reset, Shutdown, Asks, Listening
<1>1. diskOk'
  BY <1>0 DEF UserStep, StartConfigured, StartNewConfigured, QueueMessage, Configure,
              SaveAgain, Resume, ClearQueued, PauseTask, Stop, Reset, Shutdown, world
\* A conversation that runs nothing, with its text as it was.
<1>i. ASSUME NEW s, w' = s, SaveState(s), ~s.started, s.prompt = w.prompt,
             s.pc \notin {"replacing", "handover"},
             \/ s.pc = "loop" /\ s.m.thread = w.m.thread
             \/ s.pc = "down"
             \/ w.m.thread # 0
      PROVE  KeptInv'
  <2>1. disk'.prompt = disk.prompt BY <1>0, <1>i, SaveKept
  <2> QED BY <1>0, <1>1, <1>i, <2>1 DEF KeptInv, Empty
\* A task that starts, with its text saved.
<1>r. ASSUME NEW s \in Memory, s.m.phase \in Running,
             w' = EnsureConnectionAndThread(s),
             \/ SaveConfigAndState(w')
             \/ SaveState(w') /\ s.prompt = w.prompt /\ w.prompt = disk.prompt
      PROVE  KeptInv'
  <2> DEFINE e == EnsureConnectionAndThread(s)
  <2>1. Settled(e, s.prompt) /\ e \in Memory
    BY <1>r, AttemptSettled, AttemptTypes
  <2>2. w' = e /\ (SaveConfigAndState(e) \/ (SaveState(e) /\ s.prompt = disk.prompt))
    BY <1>r
  <2> HIDE DEF e
  <2>3. /\ disk'.state = e.m /\ disk'.digest = e.prompt /\ disk'.prompt = e.prompt
    BY <1>0, <2>1, <2>2, SaveKept DEF Settled
  <2> QED BY <1>1, <2>1, <2>2, <2>3 DEF KeptInv, Settled
<1>2. ASSUME NEW t \in Tasks, StartConfigured(t) PROVE KeptInv'
  <2> DEFINE m1 == [w.m EXCEPT !.followUp = FALSE]
             m2 == IF m1.phase \in {"Success", "Paused", "FatalError"}
                   THEN PrepareFollowUp(m1) ELSE m1
             m  == Reactivate(m2)
             s  == [w EXCEPT !.prompt = t, !.started = TRUE, !.m = m]
  <2>1. m1 \in Machine BY <1>0 DEF Machine
  <2>2. m2 \in Machine BY <2>1, FollowUpType
  <2> HIDE DEF m2
  <2>3. m \in Machine /\ m.phase \in Running
    BY <2>2, ConnectingTypes, ZenonT(40) DEF Reactivate, Machine, Running
  <2>4. w' = EnsureConnectionAndThread(s) /\ SaveConfigAndState(w')
    BY <1>2 DEF StartConfigured, Becomes, m2
  <2> HIDE DEF m
  <2>5. s \in Memory /\ s.m = m BY <1>0, <2>3 DEF Memory, Prompts
  <2> HIDE DEF s
  <2> QED BY <1>r, <2>3, <2>4, <2>5
<1>3. ASSUME NEW t \in Tasks, QueueMessage(t) PROVE KeptInv'
  <2> DEFINE m == SetQueuedMessage(w.m, t)
             s == [w EXCEPT !.m = m]
  <2>1. w' = s /\ SaveState(s) /\ w.started BY <1>3 DEF QueueMessage, Becomes
  <2>2. m.phase = w.m.phase /\ m.thread = w.m.thread BY <1>0 DEF SetQueuedMessage, Machine
  <2> HIDE DEF m
  <2>3. /\ s.m = m /\ s.started = w.started /\ s.pc = w.pc /\ s.prompt = w.prompt
        /\ s.started \in BOOLEAN
    BY <1>0 DEF Memory
  <2> HIDE DEF s
  <2>4. w.m.phase \in Running /\ w.prompt = disk.prompt
    BY <1>0, <2>1, UnderWay
  <2>5. Settled(s, w.prompt)
    BY <1>0, <2>2, <2>3, <2>4 DEF Settled
  <2> QED BY <1>1, <2>1, <2>3, <2>4, <2>5, SavedKept
<1>4. CASE Configure \/ SaveAgain
  <2>1. w' = w /\ (SaveConfigAndState(w) \/ SaveState(w))
    BY <1>4 DEF Configure, SaveAgain
  <2>2. /\ disk'.state = w.m /\ disk'.digest = w.prompt
        /\ disk'.prompt \in {w.prompt, disk.prompt}
    BY <1>0, <2>1, SaveKept
  <2>3. w.started => w.m.phase \in Running /\ w.prompt = disk.prompt
    BY <1>0, UnderWay
  <2> QED BY <1>0, <1>1, <2>1, <2>2, <2>3 DEF KeptInv, Empty
<1>5. CASE ClearQueued
  <2> DEFINE m == ClearQueuedMessage(w.m)
             s == [w EXCEPT !.m = m]
  <2>1. w' = s /\ SaveState(s) BY <1>5 DEF ClearQueued, Becomes
  <2>2. m.phase = w.m.phase /\ m.thread = w.m.thread BY <1>0 DEF ClearQueuedMessage, Machine
  <2> HIDE DEF m
  <2>3. /\ s.m = m /\ s.started = w.started /\ s.pc = w.pc /\ s.prompt = w.prompt
        /\ s.started \in BOOLEAN
    BY <1>0 DEF Memory
  <2> HIDE DEF s
  <2>4. CASE ~w.started
    BY <1>0, <1>i, <2>1, <2>2, <2>3, <2>4
  <2>5. CASE w.started
    <3>1. w.m.phase \in Running /\ w.prompt = disk.prompt
      BY <1>0, <2>5, UnderWay
    <3>2. Settled(s, w.prompt)
      BY <1>0, <2>2, <2>3, <3>1 DEF Settled
    <3> QED BY <1>1, <2>1, <2>3, <3>1, <3>2, SavedKept
  <2> QED BY <2>4, <2>5
<1>6. CASE PauseTask
  <2> DEFINE m == Pause(w.m)
             s == [w EXCEPT !.started = FALSE, !.turnDeadline = FALSE, !.m = m]
             p == [s EXCEPT !.pc = "pausing", !.interrupting = s.m.turn]
             d == ShutdownTransport(s)
  <2>1. \/ w' = p /\ SaveState(p) /\ w.m.thread # 0
        \/ w' = d /\ SaveState(d)
    <3>1. SaveState(s) => SaveState(d)
      BY <1>0 DEF SaveState, ShutdownTransport, Memory
    <3> QED BY <1>6, <3>1 DEF PauseTask, Becomes, MustInterrupt
  <2>2. m \in Machine BY <1>0, EndingTypes
  <2>t. m.thread = w.m.thread BY <1>0 DEF Pause, Machine
  <2> HIDE DEF m
  <2>3. /\ ~p.started /\ p.prompt = w.prompt /\ p.pc = "pausing"
        /\ ~d.started /\ d.prompt = w.prompt /\ d.pc = "loop" /\ d.m = m
    BY <1>0 DEF ShutdownTransport, Memory
  <2> HIDE DEF p, d
  <2> QED BY <1>i, <2>1, <2>t, <2>3
<1>7. /\ StopTask(w) \in Memory /\ ~StopTask(w).started /\ StopTask(w).prompt = w.prompt
      /\ StopTask(w).m.thread = w.m.thread /\ StopTask(w).pc = "loop"
  <2> DEFINE m == StopCurrentTurn(w.m)
             t == w.m.turn
  <2>1. m \in Machine /\ m.thread = w.m.thread /\ t \in Nat
    BY <1>0, FollowUpType DEF StopCurrentTurn, PrepareFollowUp, Fresh, Machine
  <2>2. StopTask(w) = [w EXCEPT !.started = FALSE, !.turnDeadline = FALSE, !.m = m,
                                !.interrupting = t]
    BY DEF StopTask
  <2> HIDE DEF m, t
  <2> QED BY <1>0, <2>1, <2>2 DEF Memory
<1> DEFINE k == StopTask(w)
<1>8. CASE Stop
  <2> DEFINE q == [k EXCEPT !.pc = "stopping"]
             d == ShutdownTransport(k)
  <2>1. \/ w' = q /\ SaveState(q) /\ w.m.thread # 0
        \/ w' = d /\ SaveState(d)
    BY <1>8 DEF Stop, Becomes, MustInterrupt
  <2> HIDE DEF k
  <2>2. /\ ~q.started /\ q.prompt = w.prompt /\ q.pc = "stopping"
        /\ ~d.started /\ d.prompt = w.prompt /\ d.pc = "loop" /\ d.m.thread = w.m.thread
    BY <1>7 DEF ShutdownTransport, Memory, k
  <2> HIDE DEF q, d
  <2> QED BY <1>i, <2>1, <2>2
<1>p. Pristine(w) \in Memory /\ ~Pristine(w).started /\ Pristine(w).pc = "loop"
  BY <1>0, PristineRests, CommandTypes
<1>9. CASE Reset
  <2> DEFINE q == [k EXCEPT !.pc = "resetting"]
             n == Pristine(w)
  <2>1. \/ w' = q /\ SaveState(q) /\ w.m.thread # 0
        \/ w' = n /\ SaveConfigAndState(n)
    BY <1>9 DEF Reset, Becomes, MustInterrupt
  <2> HIDE DEF k, n
  <2>2. ~q.started /\ q.prompt = w.prompt /\ q.pc = "resetting"
    BY <1>7 DEF Memory, k
  <2> HIDE DEF q
  <2>3. CASE w' = n /\ SaveConfigAndState(n)
    <3>1. disk'.prompt = n.prompt BY <1>0, <2>3, SaveKept
    <3> QED BY <1>1, <1>p, <2>3, <3>1 DEF KeptInv, n
  <2> QED BY <1>i, <2>1, <2>2, <2>3
<1>10. CASE Shutdown
  <2>1. w' = Down BY <1>10 DEF Shutdown, Becomes
  <2>2. Down.pc = "down" /\ ~Down.started BY DEF Down, Offline
  <2> QED BY <1>1, <2>1, <2>2 DEF KeptInv
<1>11. CASE Resume
  <2> DEFINE m1 == Reactivate(w.m)
             m2 == Reactivate(FollowUpIfActive(w.m))
             mp == Pause(w.m)
             s1 == [w EXCEPT !.started = TRUE, !.m = m1]
             s2 == [w EXCEPT !.started = TRUE, !.resumeRequested = TRUE, !.m = m2]
             sp == [w EXCEPT !.m = mp]
  <2>1. ~w.started /\ \/ w' = sp /\ SaveState(sp)
                      \/ /\ w' \in {EnsureConnectionAndThread(s1), EnsureConnectionAndThread(s2)}
                         /\ SaveState(w') /\ (w.m.thread # 0 \/ w.prompt # NoTask)
    BY <1>11 DEF Resume, Becomes
  <2>2. FollowUpIfActive(w.m) \in Machine BY <1>0, EndingTypes
  <2>3. /\ m1 \in Machine /\ m1.phase \in Running
        /\ m2 \in Machine /\ m2.phase \in Running
        /\ mp \in Machine /\ mp.thread = w.m.thread
    <3>1. m1 \in Machine /\ m2 \in Machine /\ mp \in Machine
      BY <1>0, <2>2, ConnectingTypes, EndingTypes
    <3>2. m1.phase = "Connecting" /\ m2.phase = "Connecting"
      BY <1>0, <2>2 DEF Reactivate, Machine
    <3>3. mp.thread = w.m.thread BY <1>0 DEF Pause, Machine
    <3> QED BY <3>1, <3>2, <3>3 DEF Running
  <2> HIDE DEF m1, m2, mp
  <2>4. /\ s1 \in Memory /\ s1.m = m1 /\ s1.prompt = w.prompt
        /\ s2 \in Memory /\ s2.m = m2 /\ s2.prompt = w.prompt
        /\ sp \in Memory /\ sp.m = mp /\ sp.prompt = w.prompt /\ sp.pc = w.pc
        /\ sp.started = w.started
    BY <1>0, <2>3 DEF Memory
  <2> HIDE DEF s1, s2, sp
  <2>5. CASE w' = sp /\ SaveState(sp)
    BY <1>0, <1>i, <2>1, <2>3, <2>4, <2>5
  <2>6. CASE /\ w' \in {EnsureConnectionAndThread(s1), EnsureConnectionAndThread(s2)}
             /\ SaveState(w') /\ (w.m.thread # 0 \/ w.prompt # NoTask)
    <3>1. w.prompt = disk.prompt BY <1>0, <2>6 DEF KeptInv, Empty
    <3> QED BY <1>r, <2>3, <2>4, <2>6, <3>1
  <2> QED BY <2>1, <2>5, <2>6
<1>12. ASSUME NEW t \in Tasks PROVE ~StartNewConfigured(t)
  BY DEF StartNewConfigured, Asks
<1> QED BY <1>2, <1>3, <1>4, <1>5, <1>6, <1>8, <1>9, <1>10, <1>11, <1>12 DEF UserStep

LEMMA KeptRequest ==
  ASSUME TypeOK, KeptInv, ReadyInv,
         \/ InterruptReply \/ ConnectReply \/ CreateReply \/ ResumeReply \/ ResumeFails
         \/ Mark \/ SubmitReply \/ SubmitFails \/ Handover
  PROVE  KeptInv'
<1>0. /\ w \in Memory /\ w.m \in Machine /\ w.m.thread \in Nat /\ diskOk /\ Ready(w)
      /\ w' \in Memory
  <2>1. WorkerStep /\ TypeOK'
    BY TypeStep DEF WorkerStep, Next
  <2> QED BY <2>1 DEF TypeOK, Memory, Machine, ReadyInv, KeptInv
<1>1. diskOk'
  BY <1>0 DEF InterruptReply, ConnectReply, CreateReply, ResumeReply, ResumeFails,
              Mark, SubmitReply, SubmitFails, Handover, world
<1>2. /\ w.prompt = disk.prompt /\ w.pc # "replacing"
      /\ w.started /\ w.pc # "handover" => w.m.phase \in Running
  <2>1. w.pc \notin {"loop", "down"}
    BY DEF InterruptReply, ConnectReply, CreateReply, ResumeReply, ResumeFails,
           Mark, SubmitReply, SubmitFails, Handover
  <2> QED BY <2>1, UnderWay DEF KeptInv
<1>s. ASSUME \/ Settled(w', w.prompt) /\ SaveState(w')
             \/ Fine(w', w.prompt) /\ SaveOutcome(w')
      PROVE  KeptInv'
  <2>1. w'.started \in BOOLEAN BY <1>0 DEF Memory
  <2> QED BY <1>1, <1>2, <1>s, <2>1, SavedKept
<1>f. ASSUME NEW kind \in FailureKinds, w' = HandleTransportFailure(w, kind), SaveState(w')
      PROVE  KeptInv'
  BY <1>0, <1>s, <1>f, FailureSettled
<1>3. CASE InterruptReply
  <2> DEFINE k     == [w EXCEPT !.interrupting = 0]
             idle  == Loop(ShutdownTransport(k))
             mark  == MarkRetryAsFollowUp(w.m)
             freed == [w EXCEPT !.interrupting = 0, !.m = ForgetTurn(mark)]
  <2>1. \/ /\ w.pc \in {"pausing", "stopping"} /\ w' = idle
           /\ SaveState(idle) \/ disk' = disk
        \/ w' = Pristine(w) /\ SaveConfigAndState(Pristine(w))
        \/ w' = ScheduleRetryW(freed) /\ SaveState(w')
    <3>1. w.pc \in {"pausing", "stopping", "resetting", "expiring"}
      BY <1>2, <1>3 DEF InterruptReply
    <3> QED BY <1>3, <3>1 DEF InterruptReply, Becomes
  <2>2. w.pc \in {"pausing", "stopping"} => Settled(idle, w.prompt) /\ ~idle.started
    <3>1. k \in Memory /\ k.started = w.started /\ k.prompt = w.prompt BY <1>0 DEF Memory
    <3> HIDE DEF k
    <3> QED BY <1>0, <3>1 DEF Loop, ShutdownTransport, Ready, Settled, Memory
  <2>3. freed \in Memory /\ freed.prompt = w.prompt
    <3>1. mark \in Machine BY <1>0, EndingTypes
    <3>2. ForgetTurn(mark) \in Machine BY <3>1, SubmissionTypes
    <3> HIDE DEF mark
    <3> QED BY <1>0, <3>2 DEF Memory
  <2> HIDE DEF freed, idle
  <2>4. CASE /\ w.pc \in {"pausing", "stopping"} /\ w' = idle
             /\ SaveState(idle) \/ disk' = disk
    <3>1. CASE SaveState(idle) BY <1>s, <2>2, <2>4, <3>1
    <3>2. CASE disk' = disk BY <1>1, <1>2, <2>2, <2>4, <3>2 DEF Settled, KeptInv
    <3> QED BY <2>4, <3>1, <3>2
  <2>5. CASE w' = Pristine(w) /\ SaveConfigAndState(Pristine(w))
    <3> DEFINE n == Pristine(w)
    <3>1. n \in Memory /\ n.pc = "loop" /\ ~n.started
      BY <1>0, PristineRests, CommandTypes
    <3> HIDE DEF n
    <3>2. disk'.prompt = n.prompt BY <1>0, <2>5, SaveKept DEF n
    <3> QED BY <1>1, <2>5, <3>1, <3>2 DEF KeptInv, n
  <2>6. CASE w' = ScheduleRetryW(freed) /\ SaveState(w')
    BY <1>s, <2>3, <2>6, RetrySettled
  <2> QED BY <2>1, <2>4, <2>5, <2>6
<1>4. CASE ConnectReply
  <2> DEFINE k == [w EXCEPT !.connected = TRUE]
  <2>1. k \in Memory /\ k.m = w.m /\ k.started = w.started /\ k.prompt = w.prompt
    BY <1>0 DEF Memory
  <2>2. SaveState(w') /\ \/ w' = EnsureConnectionAndThread(k)
                         \/ \E kind \in FailureKinds : w' = HandleTransportFailure(w, kind)
    BY <1>4 DEF ConnectReply, Becomes
  <2>3. w.pc = "connect" BY <1>4 DEF ConnectReply
  <2> HIDE DEF k
  <2> QED BY <1>2, <1>f, <1>s, <2>1, <2>2, <2>3, AttemptSettled
<1>5. CASE CreateReply
  <2> DEFINE a == ApplyThreadSession(w, threads + 1, 0, TRUE)
  <2>1. threads + 1 \in Nat \ {0} BY DEF TypeOK
  <2>2. w.pc = "create" BY <1>5 DEF CreateReply
  <2>3. Settled(a, w.prompt) BY <1>0, <1>2, <2>1, <2>2, SessionFine
  <2>4. /\ SaveState(w')
        /\ w' = a \/ \E kind \in FailureKinds : w' = HandleTransportFailure(w, kind)
    BY <1>5 DEF CreateReply, Becomes
  <2> HIDE DEF a
  <2> QED BY <1>f, <1>s, <2>3, <2>4
<1>6. CASE ResumeReply
  <2>1. PICK latest \in 0..Len(turns), reports \in BOOLEAN :
          /\ w' = ApplyThreadSession(w, w.m.thread, latest, reports)
          /\ SaveOutcome(w')
    BY <1>6 DEF ResumeReply, Becomes
  <2>2. w.m.thread \in Nat \ {0} /\ w.pc = "resume"
    BY <1>0, <1>6 DEF ResumeReply, Ready
  <2>3. latest \in Nat OBVIOUS
  <2>4. Fine(w', w.prompt) BY <1>0, <1>2, <2>1, <2>2, <2>3, SessionFine
  <2> QED BY <1>s, <2>1, <2>4
<1>7. CASE ResumeFails
  <2> DEFINE m == ClearThread(w.m)
             s == [w EXCEPT !.m = m, !.pc = "create"]
  <2>1. m.phase = w.m.phase BY <1>0 DEF ClearThread, Machine
  <2>2. w.pc = "resume" BY <1>7 DEF ResumeFails
  <2>3. /\ SaveState(w')
        /\ w' = s \/ \E kind \in FailureKinds : w' = HandleTransportFailure(w, kind)
    BY <1>7 DEF ResumeFails, Becomes
  <2> HIDE DEF m
  <2>4. Settled(s, w.prompt) BY <1>0, <1>2, <2>1, <2>2 DEF Settled, Memory
  <2> HIDE DEF s
  <2> QED BY <1>f, <1>s, <2>3, <2>4
<1>8. CASE Mark
  <2> DEFINE m == MarkSubmission(w.m, minted + 1)
             s == [w EXCEPT !.m = m, !.pc = "submit"]
  <2>1. m.phase = w.m.phase BY <1>0 DEF MarkSubmission, Machine
  <2>2. w' = s /\ SaveState(s) BY <1>0, <1>8 DEF Mark, Becomes
  <2>3. w.pc # "handover" BY <1>8 DEF Mark
  <2> HIDE DEF m
  <2>4. Settled(s, w.prompt) BY <1>0, <1>2, <2>1, <2>3 DEF Settled, Memory
  <2> HIDE DEF s
  <2> QED BY <1>s, <2>2, <2>4
<1>9. CASE SubmitReply
  <2>1. /\ w' = SetActiveTurnW(w, wire.turn) /\ SaveState(w') /\ w.pc = "submit"
        /\ w.m.turn = 0 /\ wire.turn \in Nat
    BY <1>0, <1>9 DEF SubmitReply, Becomes, Ready, TypeOK, Request
  <2>2. CanSetActiveTurn(w.m, wire.turn) BY <2>1 DEF CanSetActiveTurn
  <2> QED BY <1>0, <1>2, <1>s, <2>1, <2>2, AttemptSettled
<1>10. CASE SubmitFails
  <2>1. SaveState(w') /\ \E kind \in FailureKinds : w' = HandleTransportFailure(w, kind)
    BY <1>10 DEF SubmitFails, Becomes
  <2> QED BY <1>f, <2>1
<1>11. CASE Handover
  <2> DEFINE s == SendAttempt(w)
             k == [s EXCEPT !.pc = "markQueued"]
  <2>1. w.m.thread # 0 /\ w.m.turn = 0
    BY <1>0, <1>11 DEF Handover, Ready
  <2>2. s \in Memory /\ Settled(s, w.prompt)
    BY <1>0, <2>1, AttemptTypes, QuietSettled
  <2>3. w' = (IF s.pc = "mark" THEN k ELSE s) /\ SaveState(s)
    BY <1>11 DEF Handover, Becomes
  <2> HIDE DEF s
  <2>4. Settled(w', w.prompt) /\ w'.m = s.m /\ w'.prompt = s.prompt
    BY <2>2, <2>3 DEF Settled, Memory
  <2>5. SaveState(w') BY <2>3, <2>4 DEF SaveState
  <2> QED BY <1>s, <2>4, <2>5
<1> QED BY <1>3, <1>4, <1>5, <1>6, <1>7, <1>8, <1>9, <1>10, <1>11

LEMMA KeptEvent ==
  ASSUME TypeOK, KeptInv, ReadyInv,
         OnTurnStarted \/ OnError \/ OnTurnCompleted \/ OnSystemError \/ OnDisconnected
  PROVE  KeptInv'
<1>0. /\ w \in Memory /\ w.m \in Machine /\ diskOk /\ w' \in Memory
      /\ w.prompt = disk.prompt /\ w.started /\ w.pc = "loop" /\ w.m.phase \in Running
  <2>1. TypeOK' BY TypeStep DEF WorkerStep, Next
  <2>2. w.started /\ w.pc = "loop"
    BY DEF OnTurnStarted, OnError, OnTurnCompleted, OnSystemError, OnDisconnected,
           Hears, Listening
  <2> QED BY <2>1, <2>2, UnderWay DEF TypeOK
<1>1. diskOk'
  BY <1>0 DEF OnTurnStarted, OnError, OnTurnCompleted, OnSystemError, OnDisconnected, world
<1>s. ASSUME \/ Settled(w', w.prompt) /\ SaveState(w')
             \/ Fine(w', w.prompt) /\ SaveOutcome(w')
      PROVE  KeptInv'
  <2>1. w'.started \in BOOLEAN BY <1>0 DEF Memory
  <2> QED BY <1>0, <1>1, <1>s, <2>1, SavedKept
<1>i. Ignores => KeptInv'
  BY <1>1 DEF Ignores, Becomes, KeptInv, Empty
<1> DEFINE t == Head(events).turn
<1>2. t \in Nat
  <2>1. events \in Seq(Event) /\ events # << >>
    BY DEF TypeOK, OnTurnStarted, OnError, OnTurnCompleted, OnSystemError,
           OnDisconnected, Hears
  <2>2. Head(events) \in Event BY <2>1
  <2> QED BY <2>2 DEF Event
<1>3. CASE OnTurnStarted
  <2>1. Ignores \/ (StartsOurTurn /\ w' = SetActiveTurnW(w, t) /\ SaveState(w'))
    BY <1>3 DEF OnTurnStarted, Handles, Becomes
  <2>2. StartsOurTurn => CanSetActiveTurn(w.m, t)
    BY DEF StartsOurTurn, CanSetActiveTurn
  <2> QED BY <1>0, <1>2, <1>i, <1>s, <2>1, <2>2, AttemptSettled
<1>4. CASE OnError
  <2> DEFINE m == [w.m EXCEPT !.phase = "Waiting"]
             s == [w EXCEPT !.m = m]
  <2>1. Ignores \/ (SaveState(w') /\ w' \in {s, ScheduleRetryW(w), Halt(w, Pause(w.m))})
    BY <1>4 DEF OnError, Handles, Becomes
  <2>2. Settled(s, w.prompt)
    <3>1. m.phase \in Running BY <1>0 DEF Machine, Running
    <3> HIDE DEF m
    <3> QED BY <1>0, <3>1 DEF Settled, Memory
  <2> HIDE DEF s
  <2>3. Settled(ScheduleRetryW(w), w.prompt) /\ Settled(Halt(w, Pause(w.m)), w.prompt)
    BY <1>0, RetrySettled, EndingTypes
  <2> QED BY <1>i, <1>s, <2>1, <2>2, <2>3
<1>5. CASE OnTurnCompleted
  <2>1. Ignores \/ \E outcome \in {turns[t].outcome, "empty"} :
                     w' = HandleCompletedTurn(w, outcome) /\ SaveOutcome(w')
    BY <1>5 DEF OnTurnCompleted, Becomes
  <2> QED BY <1>0, <1>i, <1>s, <2>1, CompletionFine
<1>6. CASE OnSystemError
  <2> DEFINE m == [w.m EXCEPT !.turn = 0]
             k == [w EXCEPT !.m = m]
  <2>1. k \in Memory /\ k.prompt = w.prompt
    <3>1. m \in Machine BY <1>0 DEF Machine
    <3> HIDE DEF m
    <3> QED BY <1>0, <3>1 DEF Memory
  <2>2. Ignores \/ (w' = ScheduleRetryW(ShutdownTransport(k)) /\ SaveState(w'))
    BY <1>6 DEF OnSystemError, Handles, Becomes
  <2> HIDE DEF k
  <2>3. ShutdownTransport(k) \in Memory /\ ShutdownTransport(k).prompt = w.prompt
    BY <2>1, LoopTypes DEF ShutdownTransport, Memory
  <2> QED BY <1>i, <1>s, <2>2, <2>3, RetrySettled
<1>7. CASE OnDisconnected
  <2> DEFINE k == [w EXCEPT !.turnDeadline = FALSE]
             s == ShutdownTransport(k)
  <2>1. /\ k \in Memory /\ k.m = w.m /\ k.prompt = w.prompt /\ k.pc = w.pc
    BY <1>0 DEF Memory
  <2>2. (w' = s \/ w' = ScheduleConnectionRetry(s)) /\ SaveState(w')
    BY <1>7 DEF OnDisconnected, Handles, Becomes
  <2> HIDE DEF k
  <2>3. s \in Memory /\ s.m = w.m /\ s.pc = "loop" /\ s.prompt = w.prompt
    BY <1>0, <2>1, LoopTypes, SMTT(20) DEF ShutdownTransport, Memory
  <2> HIDE DEF s
  <2>4. Settled(s, w.prompt) BY <1>0, <2>3 DEF Settled
  <2> QED BY <1>s, <2>2, <2>3, <2>4, RetrySettled
<1> QED BY <1>3, <1>4, <1>5, <1>6, <1>7

LEMMA KeptTimerAndRestart ==
  ASSUME TypeOK, KeptInv, HandleDeadline \/ Restart
  PROVE  KeptInv'
<1>0. /\ w \in Memory /\ w.m \in Machine /\ diskOk /\ diskOk' = diskOk
      /\ disk \in Disk /\ disk.state \in Machine /\ disk.prompt \in Prompts
  BY UnderWay DEF TypeOK, Disk, HandleDeadline, Restart, world
<1>1. CASE HandleDeadline
  <2> DEFINE t == w.m.turn
             x == [w EXCEPT !.pc = "expiring", !.interrupting = t]
             e == EnsureConnectionAndThread(w)
  <2>1. /\ w.started /\ w.pc = "loop"
        /\ \/ w' = e /\ (disk' = disk \/ SaveState(e))
           \/ w' = x /\ disk' = disk
    BY <1>1 DEF HandleDeadline, Becomes, Listening
  <2>2. /\ w.m.phase \in Running /\ w.prompt = disk.prompt
        /\ disk.state.phase \in Running /\ disk.digest = disk.prompt
    BY <2>1, UnderWay DEF KeptInv
  <2> HIDE DEF t
  <2>3. Settled(x, w.prompt) /\ Settled(e, w.prompt) /\ e \in Memory
    <3>1. Settled(x, w.prompt)
      BY <1>0, <2>1, <2>2 DEF Settled, Memory
    <3> QED BY <1>0, <2>2, <3>1, AttemptSettled, AttemptTypes
  <2> HIDE DEF x, e
  <2>4. CASE w' \in {x, e} /\ disk' = disk
    BY <1>0, <2>2, <2>3, <2>4 DEF Settled, KeptInv
  <2>5. CASE w' = e /\ SaveState(e)
    <3>1. e.started \in BOOLEAN BY <2>3 DEF Memory
    <3> QED BY <1>0, <2>2, <2>3, <2>5, <3>1, SavedKept
  <2> QED BY <2>1, <2>4, <2>5
<1>2. CASE Restart
  <2> DEFINE m == disk.state
             paused == [Pause(m) EXCEPT !.uncertain = FALSE]
             marked == [m EXCEPT !.uncertain = @ \/ m.phase = "Sending"]
             none == Offline(Fresh, NoTask)
             halted == Offline(paused, disk.prompt)
             kept == Offline(marked, disk.prompt)
             b == PickedUp(m)
             q == [kept EXCEPT !.started = b]
  <2>1. /\ none.pc = "loop" /\ ~none.started /\ none.prompt = NoTask /\ none.m.thread = 0
        /\ halted.pc = "loop" /\ ~halted.started /\ halted.prompt = disk.prompt
    BY DEF Offline, Fresh
  <2>2. Restored = IF ~RequiresRecovery(m) THEN none
                   ELSE IF PickedUp(m) /\ disk.digest # disk.prompt THEN halted ELSE q
    BY DEF Restored
  <2>3. marked \in Machine /\ marked.phase = m.phase BY <1>0, ZenonT(40) DEF Machine
  <2> HIDE DEF marked, none, halted
  <2>4. /\ kept \in Memory /\ kept.m = marked /\ kept.prompt = disk.prompt
        /\ kept.pc = "loop" /\ b \in BOOLEAN
    BY <1>0, <2>3, OfflineType DEF Offline, PickedUp
  <2>5. b => m.phase \in Running BY DEF PickedUp
  <2> HIDE DEF kept, b
  <2>6. /\ q \in Memory /\ q.m = marked /\ q.prompt = disk.prompt /\ q.pc = "loop"
        /\ q.started = b
    BY <2>4 DEF Memory
  <2> HIDE DEF q
  <2>7. CASE ~RequiresRecovery(m)
    <3>1. w' = none BY <1>2, <2>2, <2>7 DEF Restart
    <3> QED BY <1>0, <2>1, <3>1 DEF KeptInv, Empty
  <2>8. CASE RequiresRecovery(m) /\ PickedUp(m) /\ disk.digest # disk.prompt
    <3>1. w' = halted /\ disk' = disk BY <1>2, <2>1, <2>2, <2>8 DEF Restart
    <3> QED BY <1>0, <2>1, <3>1 DEF KeptInv
  <2>9. CASE RequiresRecovery(m) /\ (b => disk.digest = disk.prompt)
    <3> DEFINE e == EnsureConnectionAndThread(q)
    <3>1. Restored = q BY <2>2, <2>9 DEF b
    <3>2. \/ w' = e /\ SaveState(e) /\ q.started
          \/ w' = q /\ disk' = disk
      BY <1>2, <2>9, <3>1 DEF Restart
    <3>3. Settled(e, disk.prompt) /\ e \in Memory
      BY <2>3, <2>5, <2>6, AttemptSettled, AttemptTypes
    <3> HIDE DEF e
    <3>4. CASE w' = e /\ SaveState(e)
      <4>1. disk'.state = e.m /\ disk'.digest = e.prompt /\ disk'.prompt = disk.prompt
        BY <1>0, <3>4, SaveKept
      <4> QED BY <1>0, <3>3, <3>4, <4>1 DEF Settled, KeptInv
    <3>5. CASE w' = q /\ disk' = disk
      BY <1>0, <2>3, <2>5, <2>6, <2>9, <3>5 DEF KeptInv
    <3> QED BY <3>2, <3>4, <3>5
  <2> QED BY <2>7, <2>8, <2>9 DEF b
<1> QED BY <1>1, <1>2

LEMMA KeptStep ==
  /\ "disk" \notin Faults /\ "new" \notin Commands
  /\ TypeOK /\ ReadyInv /\ KeptInv /\ [Next]_vars
  => KeptInv'
<1> SUFFICES ASSUME "disk" \notin Faults, "new" \notin Commands,
                    TypeOK, ReadyInv, KeptInv, [Next]_vars
             PROVE  KeptInv'
  OBVIOUS
<1>1. ASSUME w' = w, disk' = disk, diskOk' = diskOk PROVE KeptInv'
  BY <1>1 DEF KeptInv, Empty
<1>2. CASE UNCHANGED vars
  BY <1>1, <1>2 DEF vars
<1>3. CASE CodexStep
  BY <1>1, <1>3 DEF CodexStep, ServerAccepts, TurnEnds, Notices, ThreadBreaks,
                    ForeignTurn, world
<1>4. CASE MachineStep
  <2>1. ~DiskFails /\ ~DiskRecovers
    BY DEF DiskFails, DiskRecovers, Fault, KeptInv
  <2>2. CASE Disconnects BY <1>1, <2>2 DEF Disconnects
  <2>3. CASE Crash
    <3>1. w' = Down /\ diskOk' = diskOk BY <2>3 DEF Crash
    <3>2. Down.pc = "down" /\ ~Down.started BY DEF Down, Offline
    <3> QED BY <3>1, <3>2 DEF KeptInv
  <2> QED BY <1>4, <2>1, <2>2, <2>3 DEF MachineStep
<1> QED
  BY <1>2, <1>3, <1>4, KeptUser, KeptRequest, KeptEvent, KeptTimerAndRestart
  DEF Next, WorkerStep

\* At every moment of a running task a crash leaves enough on disk to carry the same
\* task on (publish_and_persist at the end of every handler): for every fault but a
\* disk that refuses to save, and every command but Start new, which starts a task
\* without writing config.json (handle_start_new_configured).
THEOREM RecoverableCorrect ==
  ASSUME "disk" \notin Faults, "new" \notin Commands
  PROVE  Spec => []Recoverable
<1>1. Init => KeptInv
  BY DEF Init, KeptInv, Offline
<1>2. TypeOK /\ KeptInv => Recoverable
  BY UnderWay DEF KeptInv, Recoverable
<1>3. TypeOK /\ ReadyInv /\ KeptInv /\ [Next]_vars => KeptInv'
  BY KeptStep
<1> QED BY <1>1, <1>2, <1>3, InitReady, ReadyStep, TypeCorrect, PTL DEF Spec
=============================================================================
