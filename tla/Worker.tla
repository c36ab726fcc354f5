------------------------------- MODULE Worker -------------------------------
(***************************************************************************)
(* One worker of Longwatch: QueueRuntime in src/src/runtime.rs, which owns *)
(* one conversation and carries its task through failures and restarts,    *)
(* with the disk it saves to and the Codex app-server it talks to.         *)
(*                                                                         *)
(* The worker is one Tokio task.  Between two awaits nothing of its own    *)
(* runs in parallel, so a handler is one action up to its next await;      *)
(* w.pc names the await (or "loop" for the select! of run_loop).  Codex,   *)
(* the user's other Codex windows, the disk and a crash move in between.   *)
(* Two places where a crash between two saves matters are split although   *)
(* they do not await: before the write-ahead marker ("mark") and between   *)
(* the configuration and the state of a typed-ahead message ("handover").  *)
(*                                                                         *)
(* Time is not measured.  A set timer may fire whenever it is armed; what  *)
(* the delays are belongs to backoff.rs.                                   *)
(***************************************************************************)
EXTENDS QueueMachine, Sequences, FiniteSets

CONSTANTS
  Commands,   \* what the user does in a run (see CommandNames)
  Faults,     \* what may go wrong in a run (see FaultNames)
  MaxFaults   \* bound: how many faults happen; Continue and Quit count as one

CommandNames ==
  {"submit",     \* a text for this conversation (SubmitConfigured)
   "new",        \* a text for a pristine worker (StartNewConfigured)
   "queue",      \* a message typed ahead, or withdrawn
   "continue",   \* Continue, on a task that is paused or failed
   "unoffered",  \* commands the window does not offer in the phase at hand:
                 \* from the tray, or from a view that is out of date
   "pause", "stop", "reset", "shutdown",
   "settings"}   \* commands that only save what is there

FaultNames ==
  {"connect",    \* starting or initialising app-server fails
   "session",    \* thread/start or thread/resume fails
   "busy",       \* either fails with an error that asks for a retry
   "unread",     \* the resumed thread's latest turn cannot be read
   "deleted",    \* the thread is gone ("no rollout found")
   "refuse",     \* turn/start answers with an error
   "garbled",    \* turn/start was accepted but the answer has no turn id
   "timeout",    \* no answer to turn/start: 45 s passed, or the pipe broke
   "expire",     \* the turn deadline passes
   "interrupt",  \* turn/interrupt fails or times out
   "fail",       \* a turn ends without an answer
   "notice",     \* an error notification for a running turn
   "system",     \* the thread enters systemError
   "mute",       \* a turn's end is not announced
   "textless",   \* the answer's text reaches neither cache nor history call
   "disconnect", \* app-server dies or closes its pipe
   "foreign",    \* another Codex client uses the same thread
   "oldServer",  \* the server does not report clientUserMessageIds
   "disk",       \* saves start failing
   "crash"}      \* Longwatch dies

ASSUME WorkerAssumption ==
  /\ Commands \subseteq CommandNames
  /\ Faults \subseteq FaultNames
  /\ MaxFaults \in Nat

VARIABLES
  w,            \* the worker's memory
  disk,         \* config.json and state.json of this session
  events,       \* the connection's event channel
  turns,        \* every turn Codex accepted, in order; a turn id is its index
  threads,      \* how many threads Codex created
  wire,         \* the turn/start request under way
  minted,       \* how many clientUserMessageIds were generated
  diskOk,       \* do saves succeed?
  budget,       \* faults left
  fresh,        \* texts the user has not submitted yet
  reported,     \* history: the turns whose answer was reported, and for what
  userStopped   \* history: the user's last word was pause, stop or quit

vars == <<w, disk, events, turns, threads, wire, minted, diskOk, budget,
          fresh, reported, userStopped>>
server  == <<turns, threads, wire>>
world   == <<diskOk, budget>>
history == <<reported, userStopped>>

Spend == budget > 0 /\ budget' = budget - 1
Fault(f) == f \in Faults /\ Spend

-----------------------------------------------------------------------------
\* Types.

Prompts == Tasks \cup {NoTask}

\* What became of a turn, as far as classify_turn_completion tells apart.
Endings == {"answer",       \* completed with a usable reply
            "empty",        \* completed with no text
            "busy",         \* text that asks for a retry: a high-demand or failure
                            \* phrase, or a failed turn with a partial reply
            "overloaded",   \* failed with a retryable error, no text
            "interrupted",  \* interrupted before any text
            "refused"}      \* failed with a quota, policy or unknown error
Outcomes == Endings \cup {"running"}

Turn == [thread : Nat, client : Nat, task : Prompts,
         kind : {"original", "continue", "foreign"}, outcome : Outcomes]

Request == [client : Nat, thread : Nat, task : Prompts,
            kind : {"original", "continue"}, turn : Nat]
NoRequest == [client |-> 0, thread |-> 0, task |-> NoTask,
              kind |-> "original", turn |-> 0]

EventTypes == {"started", "completed", "willRetry", "retryable", "fatal",
               "systemError", "disconnected"}
Event == [type : EventTypes, turn : Nat]

Awaits == {"connect", "resume", "create", "mark", "markQueued", "submit",
           "handover", "pausing", "stopping", "replacing", "resetting",
           "expiring"}

Memory ==
  [m               : Machine,
   started         : BOOLEAN,
   connected       : BOOLEAN,
   resumeRequested : BOOLEAN,
   turnDeadline    : BOOLEAN,               \* turn_deadline.is_some()
   prompt          : Prompts,               \* config.prompt
   interrupting    : Nat,                   \* the turn handle_pause,
                                            \* handle_stop or handle_deadline
                                            \* captured before its await
   incoming        : Prompts,               \* the task StartNew will start
   pc              : Awaits \cup {"loop", "down", "dead"}]

Disk == [state : Machine, digest : Prompts, prompt : Prompts]

TypeOK ==
  /\ w \in Memory
  /\ disk \in Disk
  /\ events \in Seq(Event)
  /\ turns \in Seq(Turn)
  /\ threads \in Nat
  /\ wire \in Request
  /\ minted \in Nat
  /\ diskOk \in BOOLEAN
  /\ budget \in 0..MaxFaults
  /\ fresh \subseteq Tasks
  /\ reported \subseteq [task : Prompts, turn : Nat]
  /\ userStopped \in BOOLEAN

-----------------------------------------------------------------------------
\* Pure steps of the worker, from one memory to the next.  Each is named for
\* the QueueRuntime method it stands for.

Offline(m, p) ==
  [m |-> m, started |-> FALSE, connected |-> FALSE, resumeRequested |-> FALSE,
   turnDeadline |-> FALSE, prompt |-> p, interrupting |-> 0,
   incoming |-> NoTask, pc |-> "loop"]

Down == [Offline(Fresh, NoTask) EXCEPT !.pc = "down"]

ShutdownTransport(s) == [s EXCEPT !.connected = FALSE]

Loop(s) == [s EXCEPT !.pc = "loop"]

ScheduleRetryW(s) ==
  Loop([s EXCEPT !.turnDeadline = FALSE,
                 !.m = ScheduleRetry(FollowUpIfActive(@))])

ScheduleConnectionRetry(s) ==
  Loop([s EXCEPT !.m = [BeginConnecting(FollowUpIfActive(@)) EXCEPT !.next = TRUE]])

\* pause or fatal with the transport released: nothing runs until the user acts.
Halt(s, m) ==
  Loop(ShutdownTransport([s EXCEPT !.m = m, !.started = FALSE,
                                   !.turnDeadline = FALSE]))

\* handle_transport_failure.  NotConnected cannot reach it: connected follows
\* the transport's own flag.
FailureKinds == {"notFound", "protocol", "rpcPause", "rpcRetry", "process"}

HandleTransportFailure(s, kind) ==
  CASE kind \in {"notFound", "rpcPause"} -> Halt(s, Pause(s.m))
    [] kind = "protocol" -> Halt(s, Fatal(s.m))
    [] kind = "rpcRetry" -> ScheduleRetryW(s)
    [] kind = "process" ->
         ScheduleConnectionRetry(
           ShutdownTransport([s EXCEPT !.turnDeadline = FALSE]))

\* Mutant of EnsureConnectionAndThread: a retry on a live connection is sent
\* without asking Codex first.
EnsureWithoutResume(s) ==
  IF s.connected /\ s.m.thread # 0 /\ s.m.turn = 0
  THEN [s EXCEPT !.pc = "mark", !.m = BeginSending(@)]
  ELSE IF s.connected
  THEN [s EXCEPT !.pc = IF s.m.thread = 0 THEN "create" ELSE "resume"]
  ELSE [s EXCEPT !.pc = "connect", !.m = BeginConnecting(@)]

\* ensure_connection_and_thread up to its first await.
EnsureConnectionAndThread(s) ==
  IF s.connected
  THEN [s EXCEPT !.pc = IF s.m.thread = 0 THEN "create" ELSE "resume"]
  ELSE [s EXCEPT !.pc = "connect", !.m = BeginConnecting(@)]

\* send_attempt up to its first save; the rest is Mark and SubmitReply.
SendAttempt(s) ==
  IF s.started /\ s.m.thread # 0 /\ CanBeginSending(s.m)
  THEN [s EXCEPT !.pc = "mark", !.m = BeginSending(@)]
  ELSE Loop(s)

\* Mutant of SetActiveTurnW: no turn deadline.
SetActiveTurnUntimed(s, t) ==
  IF CanSetActiveTurn(s.m, t)
  THEN Loop([s EXCEPT !.m = SetActiveTurn(@, t)])
  ELSE [s EXCEPT !.pc = "dead"]

SetActiveTurnW(s, t) ==
  IF CanSetActiveTurn(s.m, t)
  THEN Loop([s EXCEPT !.m = SetActiveTurn(@, t), !.turnDeadline = TRUE])
  ELSE [s EXCEPT !.pc = "dead"]

\* classify_turn_completion: what the end of a turn means for the task.  The
\* second component says whether a retry also counts as an empty reply, which
\* handle_completed_turn decides by the missing text alone.
ClassifyTurnCompletion(outcome, empties) ==
  CASE outcome = "answer" -> <<"success", FALSE>>
    [] outcome = "empty" ->
         IF empties < MaxEmpty THEN <<"retry", TRUE>> ELSE <<"pause", FALSE>>
    [] outcome = "busy" -> <<"retry", FALSE>>
    [] outcome \in {"overloaded", "interrupted"} -> <<"retry", TRUE>>
    [] OTHER -> <<"pause", FALSE>>

\* start_queued_message up to its save of the configuration.
StartQueuedMessage(s) ==
  [s EXCEPT !.prompt = s.m.queued, !.started = TRUE, !.pc = "handover",
            !.m = PrepareFollowUp(ClearQueuedMessage(@))]

HandleCompletedTurn(s, outcome) ==
  LET decision == ClassifyTurnCompletion(outcome, s.m.empties)
      settled  == [s EXCEPT !.m.uncertain = FALSE, !.turnDeadline = FALSE]
  IN CASE decision[1] = "success" /\ s.m.queued # NoTask ->
            StartQueuedMessage([settled EXCEPT !.m = Succeed(@)])
       [] decision[1] = "success" /\ s.m.queued = NoTask ->
            Halt(settled, Succeed(settled.m))
       [] decision[1] = "retry" ->
            ScheduleRetryW([settled EXCEPT !.m = IF decision[2]
                                                 THEN MarkEmptyReply(@) ELSE @])
       [] OTHER -> Halt(settled, Pause(settled.m))

\* turn_ownership: 0 means no id was recorded, and an old server reports none.
NotOurs(m, turn, reports) == reports /\ m.client # 0 /\ turn.client # m.client

\* Mutant of AwaitingOutcome: the write-ahead marker is not consulted.
AwaitingKnownTurn(m) == m.turn # 0

\* An outcome is still owed for an earlier submission.
AwaitingOutcome(m) ==
  m.turn # 0 \/ m.uncertain \/ m.phase \in {"Sending", "Waiting"}

\* Take over the turn the server says is running.
AdoptTurn(s, latest) ==
  SetActiveTurnW([s EXCEPT !.m = IF @.turn = latest THEN @ ELSE ForgetTurn(@)],
                 latest)

\* apply_thread_session for the thread id just returned and its latest turn
\* (0: none, or none that could be read).
ApplyThreadSession(s0, thread, latest, reports) ==
  LET s       == [s0 EXCEPT !.m = SetThread(@, thread), !.resumeRequested = FALSE]
      owed    == AwaitingOutcome(s.m)
      foreign == owed /\ NotOurs(s.m, turns[latest], reports)
      outcome == turns[latest].outcome
      clean   == [s EXCEPT !.m = ForgetTurn(@)]
  IN CASE latest = 0 /\ owed -> ScheduleRetryW(s)
       [] latest = 0 /\ ~owed -> SendAttempt(s)
       [] latest # 0 /\ foreign ->
            IF outcome = "running" THEN ScheduleRetryW(clean)
                                   ELSE SendAttempt(clean)
       [] latest # 0 /\ ~foreign /\ outcome = "running" -> AdoptTurn(s, latest)
       [] latest # 0 /\ ~foreign /\ outcome # "running" ->
            IF ~owed THEN SendAttempt(s)
            ELSE IF outcome = "interrupted" /\ s0.resumeRequested
            THEN SendAttempt([clean EXCEPT !.m = MarkRetryAsFollowUp(@)])
            ELSE HandleCompletedTurn(s, outcome)

-----------------------------------------------------------------------------
\* Saving.  An ordinary save that fails changes nothing and stops nothing.

Becomes(s, rest) ==
  /\ w' = s
  /\ events' = IF s.connected THEN rest ELSE << >>

SaveState(s) ==
  disk' = IF diskOk THEN [disk EXCEPT !.state = s.m, !.digest = s.prompt] ELSE disk

SaveConfig(s) ==
  disk' = IF diskOk THEN [disk EXCEPT !.prompt = s.prompt] ELSE disk

\* Mutant of SaveConfigAndState: the configuration stays in memory.
SaveStateAlone(s) == SaveState(s)

SaveConfigAndState(s) ==
  disk' = IF diskOk THEN [state |-> s.m, digest |-> s.prompt, prompt |-> s.prompt]
                    ELSE disk

\* Whether handle_completed_turn reports turn t as the answer to the task.
Reports(s, t) ==
  reported' = IF s.m.phase = "Success" \/ s.pc = "handover"
              THEN reported \cup {[task |-> w.prompt, turn |-> t]} ELSE reported

-----------------------------------------------------------------------------
\* The user's commands, taken one at a time by run_loop.

Listening == w.pc = "loop"
Asks(command) == Listening /\ command \in Commands

\* composer_target and render_session_header show a command only in some phases.
Offered(condition) == condition \/ "unoffered" \in Commands

\* handle_configure refuses task settings while something may be running.
TaskLocked == w.started \/ w.m.turn # 0 \/ w.m.uncertain

\* handle_start_configured: a new text for this conversation.
StartConfigured(t) ==
  /\ Asks("submit") /\ t \in fresh /\ ~TaskLocked
  /\ Offered(w.m.phase \notin {"Paused", "FatalError"})
  /\ LET m1 == [w.m EXCEPT !.followUp = FALSE]
         m2 == IF m1.phase \in {"Success", "Paused", "FatalError"}
               THEN PrepareFollowUp(m1) ELSE m1
         s  == [w EXCEPT !.prompt = t, !.started = TRUE, !.m = Reactivate(m2)]
     IN /\ Becomes(EnsureConnectionAndThread(s), events)
        /\ SaveConfigAndState(EnsureConnectionAndThread(s))
  /\ fresh' = fresh \ {t}
  /\ userStopped' = FALSE
  /\ UNCHANGED <<server, minted, world, reported>>

\* handle_configure accepting live settings, or refusing the rest of a
\* submission: the configuration and the state are written again.
Configure ==
  /\ Asks("settings")
  /\ SaveConfigAndState(w)
  /\ UNCHANGED <<w, events, server, minted, world, fresh, history>>

\* Everything whose only effect here is publish_and_persist: handle_retry_now,
\* handle_explicit_wake, observe_wake, a refused handle_queue_message.
SaveAgain ==
  /\ Asks("settings")
  /\ SaveState(w)
  /\ UNCHANGED <<w, events, server, minted, world, fresh, history>>

\* The tail of handle_start_new_configured: config.json is not written.
StartNewTask(s, t) ==
  EnsureConnectionAndThread(
    ShutdownTransport([s EXCEPT !.m = Reactivate(ClearSession(@)),
      !.started = TRUE, !.turnDeadline = FALSE, !.prompt = t,
      !.incoming = NoTask, !.interrupting = 0]))

\* The common beginning of handle_stop: forget the task, keep the thread, and
\* remember the turn to interrupt.
StopTask(s) ==
  [s EXCEPT !.started = FALSE, !.turnDeadline = FALSE,
            !.m = StopCurrentTurn(@), !.interrupting = s.m.turn]

MustInterrupt == w.m.thread # 0 /\ w.m.turn # 0

StartNewConfigured(t) ==
  /\ Asks("new") /\ t \in fresh
  /\ LET s == IF MustInterrupt
              THEN [StopTask(w) EXCEPT !.pc = "replacing", !.incoming = t]
              ELSE StartNewTask(w, t)
     IN Becomes(s, events) /\ SaveState(s)
  /\ fresh' = fresh \ {t}
  /\ userStopped' = FALSE
  /\ UNCHANGED <<server, minted, world, reported>>

\* handle_resume, and handle_start when there is no thread yet.
Resume ==
  /\ Asks("continue") /\ Spend
  /\ ~w.started /\ Offered(w.m.phase \in {"Paused", "FatalError"})
  /\ IF w.m.thread = 0
     THEN /\ w.m.phase # "Success"
          /\ LET s == IF w.prompt = NoTask
                      THEN [w EXCEPT !.m = Pause(@)]
                      ELSE EnsureConnectionAndThread(
                             [w EXCEPT !.started = TRUE, !.m = Reactivate(@)])
             IN Becomes(s, events) /\ SaveState(s)
     ELSE LET s == EnsureConnectionAndThread(
                     [w EXCEPT !.started = TRUE, !.resumeRequested = TRUE,
                               !.m = Reactivate(FollowUpIfActive(@))])
          IN Becomes(s, events) /\ SaveState(s)
  /\ userStopped' = FALSE
  /\ UNCHANGED <<server, minted, diskOk, fresh, reported>>

\* handle_queue_message, accepted: one message waits behind the running task.
QueueMessage(t) ==
  /\ Asks("queue") /\ t \in fresh
  /\ w.started /\ w.m.phase \in Running /\ w.m.queued = NoTask
  /\ LET s == [w EXCEPT !.m = SetQueuedMessage(@, t)]
     IN Becomes(s, events) /\ SaveState(s)
  /\ fresh' = fresh \ {t}
  /\ UNCHANGED <<server, minted, world, history>>

ClearQueued ==
  /\ Asks("queue") /\ w.m.queued # NoTask
  /\ LET s == [w EXCEPT !.m = ClearQueuedMessage(@)]
     IN Becomes(s, events) /\ SaveState(s)
  /\ UNCHANGED <<server, minted, world, fresh, history>>

\* handle_pause: the pause is saved before the interrupt is awaited.
PauseTask ==
  /\ Asks("pause") /\ Offered(w.started)
  /\ LET s == [w EXCEPT !.started = FALSE, !.turnDeadline = FALSE, !.m = Pause(@)]
     IN IF MustInterrupt
        THEN LET p == [s EXCEPT !.pc = "pausing", !.interrupting = s.m.turn]
             IN Becomes(p, events) /\ SaveState(p)
        ELSE Becomes(ShutdownTransport(s), events) /\ SaveState(s)
  /\ userStopped' = TRUE
  /\ UNCHANGED <<server, minted, world, fresh, reported>>

Stop ==
  /\ Asks("stop")
  /\ LET s == IF MustInterrupt THEN [StopTask(w) EXCEPT !.pc = "stopping"]
                               ELSE ShutdownTransport(StopTask(w))
     IN Becomes(s, events) /\ SaveState(s)
  /\ userStopped' = TRUE
  /\ UNCHANGED <<server, minted, world, fresh, reported>>

\* The tail of handle_reset.
Pristine(s) ==
  Loop([Halt(s, ClearSession(s.m)) EXCEPT !.resumeRequested = FALSE,
                                          !.prompt = NoTask, !.interrupting = 0])

Reset ==
  /\ Asks("reset")
  /\ IF MustInterrupt
     THEN LET s == [StopTask(w) EXCEPT !.pc = "resetting"]
          IN Becomes(s, events) /\ SaveState(s)
     ELSE Becomes(Pristine(w), events) /\ SaveConfigAndState(Pristine(w))
  /\ userStopped' = TRUE
  /\ UNCHANGED <<server, minted, world, fresh, reported>>

\* handle_shutdown, then the end of run: the state is cleared, the turn is not
\* interrupted.
Shutdown ==
  /\ Asks("shutdown") /\ Spend
  /\ Becomes(Down, << >>)
  /\ SaveState([w EXCEPT !.m = ClearSession(@)])
  /\ userStopped' = TRUE
  /\ UNCHANGED <<server, minted, diskOk, fresh, reported>>

RunningTurns == {t \in 1..Len(turns) : turns[t].outcome = "running"}

\* The answer to turn/interrupt, or five seconds without one.
InterruptReply ==
  /\ w.pc \in {"pausing", "stopping", "replacing", "resetting", "expiring"}
  /\ LET t    == w.interrupting
         hits == w.connected /\ t \in RunningTurns
         \* What follows in each caller, with the events heard meanwhile.
         Continue(heard) ==
           CASE w.pc = "pausing" ->
                  LET s == Loop(ShutdownTransport([w EXCEPT !.interrupting = 0]))
                  IN Becomes(s, heard) /\ SaveState(s)
             [] w.pc = "stopping" ->
                  LET s == Loop(ShutdownTransport([w EXCEPT !.interrupting = 0]))
                  IN Becomes(s, heard) /\ UNCHANGED disk
             [] w.pc = "replacing" ->
                  LET s == StartNewTask(w, w.incoming)
                  IN Becomes(s, heard) /\ SaveState(s)
             [] w.pc = "resetting" ->
                  Becomes(Pristine(w), heard) /\ SaveConfigAndState(Pristine(w))
             [] w.pc = "expiring" ->
                  LET s == ScheduleRetryW([w EXCEPT !.interrupting = 0,
                             !.m = ForgetTurn(MarkRetryAsFollowUp(@))])
                  IN Becomes(s, heard) /\ SaveState(s)
     IN \/ /\ hits
           /\ turns' = [turns EXCEPT ![t].outcome = "interrupted"]
           /\ Continue(Append(events, [type |-> "completed", turn |-> t]))
           /\ UNCHANGED budget
        \/ /\ IF hits THEN Fault("interrupt") ELSE UNCHANGED budget
           /\ Continue(events)
           /\ UNCHANGED turns
  /\ UNCHANGED <<threads, wire, minted, diskOk, fresh, history>>

-----------------------------------------------------------------------------
\* Connecting, resuming and submitting.

\* A failed connection or session request is one of these faults.
FailsAs(fault, kind) == Fault(IF kind = "rpcRetry" THEN "busy" ELSE fault)

ConnectReply ==
  /\ w.pc = "connect"
  /\ \/ LET s == EnsureConnectionAndThread([w EXCEPT !.connected = TRUE])
        IN Becomes(s, << >>) /\ SaveState(s) /\ UNCHANGED budget
     \/ \E kind \in FailureKinds :
          LET s == HandleTransportFailure(w, kind)
          IN FailsAs("connect", kind) /\ Becomes(s, events) /\ SaveState(s)
  /\ UNCHANGED <<server, minted, diskOk, fresh, history>>

\* thread/start, for a first task or after a deleted thread.
CreateReply ==
  /\ w.pc = "create"
  /\ \/ LET s == ApplyThreadSession(w, threads + 1, 0, TRUE)
        IN /\ threads' = threads + 1
           /\ Becomes(s, events) /\ SaveState(s) /\ UNCHANGED budget
     \/ \E kind \in FailureKinds \ {"notFound"} :
          LET s == HandleTransportFailure(w, kind)
          IN /\ FailsAs("session", kind) /\ Becomes(s, events) /\ SaveState(s)
             /\ UNCHANGED threads
  /\ UNCHANGED <<turns, wire, minted, diskOk, fresh, history>>

\* read_latest_turn: t is the newest turn of the thread, 0 if it has none.
IsLatestTurn(t, thread) ==
  /\ t # 0 => turns[t].thread = thread
  /\ \A i \in (t + 1)..Len(turns) : turns[i].thread # thread

\* Save what apply_thread_session or an event left; a typed-ahead message has
\* only written its configuration so far.
SaveOutcome(s) == IF s.pc = "handover" THEN SaveConfig(s) ELSE SaveState(s)

ResumeReply ==
  /\ w.pc = "resume"
  /\ \E latest \in 0..Len(turns), reports \in BOOLEAN :
       LET s == ApplyThreadSession(w, w.m.thread, latest, reports)
       IN /\ \/ /\ IsLatestTurn(latest, w.m.thread)
                /\ IF reports THEN UNCHANGED budget ELSE Fault("oldServer")
             \/ latest = 0 /\ reports /\ Fault("unread")
          /\ Becomes(s, events) /\ SaveOutcome(s) /\ Reports(s, latest)
  /\ UNCHANGED <<server, minted, diskOk, fresh, userStopped>>

ResumeFails ==
  /\ w.pc = "resume"
  /\ \/ \E kind \in FailureKinds \ {"notFound"} :
          LET s == HandleTransportFailure(w, kind)
          IN FailsAs("session", kind) /\ Becomes(s, events) /\ SaveState(s)
     \/ LET s == [w EXCEPT !.m = ClearThread(@), !.pc = "create"]
        IN Fault("deleted") /\ Becomes(s, events) /\ SaveState(s)
  /\ UNCHANGED <<server, minted, diskOk, fresh, history>>

\* The write-ahead step of send_attempt: the marker and a fresh client id must
\* be on disk before the request crosses the process boundary.
Mark ==
  /\ w.pc \in {"mark", "markQueued"}
  /\ minted' = minted + 1
  /\ LET s == [w EXCEPT !.m = MarkSubmission(@, minted + 1), !.pc = "submit"]
         refused == Loop([s EXCEPT !.started = FALSE, !.turnDeadline = FALSE,
                                   !.m = Pause([@ EXCEPT !.uncertain = FALSE])])
     IN \/ /\ diskOk
           /\ Becomes(s, events)
           /\ SaveState(s)
           /\ wire' = [client |-> s.m.client, thread |-> s.m.thread,
                       task |-> s.prompt, turn |-> 0,
                       kind |-> IF s.m.followUp THEN "continue" ELSE "original"]
        \/ /\ ~diskOk
           /\ Becomes(IF w.pc = "mark" THEN refused ELSE ShutdownTransport(refused),
                      events)
           /\ UNCHANGED <<wire, disk>>
  /\ UNCHANGED <<turns, threads, world, fresh, history>>

SubmitReply ==
  /\ w.pc = "submit" /\ wire.turn # 0
  /\ LET s == SetActiveTurnW(w, wire.turn)
     IN Becomes(s, events) /\ SaveState(s)
  /\ wire' = NoRequest
  /\ UNCHANGED <<turns, threads, minted, world, fresh, history>>

\* turn/start is refused, answered without a turn id, or not answered at all.
SubmitFails ==
  /\ w.pc = "submit"
  /\ \E kind \in FailureKinds \ {"notFound"} :
       /\ CASE kind = "process" -> Fault("timeout")
            [] kind = "protocol" -> Fault("garbled") /\ wire.turn # 0
            [] kind \in {"rpcPause", "rpcRetry"} -> Fault("refuse") /\ wire.turn = 0
       /\ LET s == HandleTransportFailure(w, kind)
          IN Becomes(s, events) /\ SaveState(s)
  /\ wire' = NoRequest
  /\ UNCHANGED <<turns, threads, minted, diskOk, fresh, history>>

\* The rest of start_queued_message.
Handover ==
  /\ w.pc = "handover"
  /\ LET s == SendAttempt(w)
     IN /\ Becomes(IF s.pc = "mark" THEN [s EXCEPT !.pc = "markQueued"] ELSE s, events)
        /\ SaveState(s)
  /\ UNCHANGED <<server, minted, world, fresh, history>>

-----------------------------------------------------------------------------
\* The connection's events, heard while the task is started.

\* The next event is of this type; handling it consumes it.
Hears(type) ==
  /\ Listening /\ w.started /\ w.connected
  /\ events # << >> /\ Head(events).type = type

SameThread == w.m.thread = turns[Head(events).turn].thread

\* Mutant of MatchesActive: any turn of the conversation will do.
MatchesThread == SameThread

MatchesActive == SameThread /\ w.m.turn = Head(events).turn

\* A handler leaves memory s; one that returns early saves nothing.
Handles(s) == Becomes(s, Tail(events)) /\ SaveState(s)
Ignores == Becomes(w, Tail(events)) /\ UNCHANGED disk

\* Mutant of StartsOurTurn: a late notification of an older turn gets through.
StartsAnyTurn == SameThread /\ w.m.phase \in {"Sending", "Waiting"}

\* A late notification of an older turn must neither resurrect it nor end the
\* runtime.
StartsOurTurn ==
  /\ SameThread /\ w.m.phase \in {"Sending", "Waiting"}
  /\ w.m.turn \in {0, Head(events).turn}

OnTurnStarted ==
  /\ Hears("started")
  /\ IF StartsOurTurn
     THEN Handles(SetActiveTurnW(w, Head(events).turn))
     ELSE Ignores
  /\ UNCHANGED <<server, minted, world, fresh, history>>

\* An error notification: Codex retries by itself, we retry, or the user must.
OnError ==
  /\ \E type \in {"willRetry", "retryable", "fatal"} :
       /\ Hears(type)
       /\ IF MatchesActive
          THEN Handles(CASE type = "willRetry" -> [w EXCEPT !.m.phase = "Waiting"]
                         [] type = "retryable" -> ScheduleRetryW(w)
                         [] type = "fatal" -> Halt(w, Pause(w.m)))
          ELSE Ignores
  /\ UNCHANGED <<server, minted, world, fresh, history>>

\* The reply text may be lost on the way; fetch_turn_message could not help.
OnTurnCompleted ==
  /\ Hears("completed")
  /\ LET t == Head(events).turn
     IN IF MatchesActive
        THEN \E outcome \in {turns[t].outcome, "empty"} :
               LET s == HandleCompletedTurn(w, outcome)
               IN /\ IF outcome = turns[t].outcome THEN UNCHANGED budget
                     ELSE turns[t].outcome = "answer" /\ Fault("textless")
                  /\ Becomes(s, Tail(events)) /\ SaveOutcome(s) /\ Reports(s, t)
        ELSE Ignores /\ UNCHANGED <<budget, reported>>
  /\ UNCHANGED <<server, minted, diskOk, fresh, userStopped>>

\* The active turn is forgotten before schedule_retry looks for it.
OnSystemError ==
  /\ Hears("systemError")
  /\ IF SameThread /\ w.m.phase \in {"Sending", "Waiting"}
     THEN Handles(ScheduleRetryW(ShutdownTransport([w EXCEPT !.m.turn = 0])))
     ELSE Ignores
  /\ UNCHANGED <<server, minted, world, fresh, history>>

\* handle_disconnect: a retry that is already scheduled stays as it is.
OnDisconnected ==
  /\ Hears("disconnected")
  /\ LET s == ShutdownTransport([w EXCEPT !.turnDeadline = FALSE])
     IN Handles(IF w.m.phase = "Backoff" /\ w.m.next THEN s
                ELSE ScheduleConnectionRetry(s))
  /\ UNCHANGED <<server, minted, world, fresh, history>>

\* Nothing more will be heard of the active turn.
SilentTurn ==
  /\ turns[w.m.turn].outcome # "running"
  /\ \A i \in 1..Len(events) : events[i].turn # w.m.turn

\* The timer of run_loop: the next attempt is due, or the turn took too long.
\* Waiting longer than turn_timeout_secs for a turn that would still speak is
\* counted as a fault.
HandleDeadline ==
  /\ Listening /\ w.started /\ (w.turnDeadline \/ w.m.next)
  /\ LET waiting == w.m.phase \notin {"Backoff", "Connecting"}
     IN \/ /\ ~waiting \/ (w.m.turn = 0 /\ w.m.next)
           /\ LET s == EnsureConnectionAndThread(w)
              IN /\ Becomes(s, events)
                 /\ IF w.connected THEN UNCHANGED disk ELSE SaveState(s)
           /\ UNCHANGED budget
        \/ /\ waiting /\ w.m.turn # 0 /\ w.m.thread # 0
           /\ IF SilentTurn THEN UNCHANGED budget ELSE Fault("expire")
           /\ Becomes([w EXCEPT !.pc = "expiring", !.interrupting = w.m.turn], events)
           /\ UNCHANGED disk
  /\ UNCHANGED <<server, minted, diskOk, fresh, history>>

-----------------------------------------------------------------------------
\* Codex, other Codex clients, the disk and the machine.

\* What Codex announces reaches a connected worker.
Announce(list) == events' = IF w.connected THEN events \o list ELSE events

\* Codex accepts the turn/start on the wire.
ServerAccepts ==
  /\ wire.client # 0 /\ wire.turn = 0
  /\ LET t == Len(turns) + 1
     IN /\ turns' = Append(turns, [thread |-> wire.thread, client |-> wire.client,
                                   task |-> wire.task, kind |-> wire.kind,
                                   outcome |-> "running"])
        /\ wire' = [wire EXCEPT !.turn = t]
        /\ Announce(<<[type |-> "started", turn |-> t]>>)
  /\ UNCHANGED <<w, disk, threads, minted, world, fresh, history>>

\* A turn ends, and its end is announced.
TurnEnds ==
  /\ \E t \in RunningTurns, ending \in Endings :
       /\ turns' = [turns EXCEPT ![t].outcome = ending]
       /\ \/ /\ IF ending = "answer" THEN UNCHANGED budget ELSE Fault("fail")
             /\ Announce(IF turns[t].kind = "foreign" THEN << >>
                         ELSE <<[type |-> "completed", turn |-> t]>>)
          \/ ending = "answer" /\ Fault("mute") /\ UNCHANGED events
  /\ UNCHANGED <<w, disk, threads, wire, minted, diskOk, fresh, history>>

OwnRunning == {t \in RunningTurns : turns[t].kind # "foreign"}

Notices ==
  /\ Fault("notice") /\ w.connected
  /\ \E t \in OwnRunning, type \in {"willRetry", "retryable", "fatal"} :
       Announce(<<[type |-> type, turn |-> t]>>)
  /\ UNCHANGED <<w, disk, server, minted, diskOk, fresh, history>>

\* The thread breaks: its turn is over and no turn event follows.
ThreadBreaks ==
  /\ Fault("system") /\ w.connected
  /\ \E t \in OwnRunning :
       /\ turns' = [turns EXCEPT ![t].outcome = "overloaded"]
       /\ Announce(<<[type |-> "systemError", turn |-> t]>>)
  /\ UNCHANGED <<w, disk, threads, wire, minted, diskOk, fresh, history>>

Disconnects ==
  /\ Fault("disconnect") /\ w.connected
  /\ Announce(<<[type |-> "disconnected", turn |-> 0]>>)
  /\ UNCHANGED <<w, disk, server, minted, diskOk, fresh, history>>

\* Another Codex client starts a turn in the worker's thread.
ForeignTurn ==
  /\ Fault("foreign") /\ w.m.thread # 0
  /\ \A t \in RunningTurns : turns[t].thread # w.m.thread
  /\ turns' = Append(turns, [thread |-> w.m.thread, client |-> 0, task |-> NoTask,
                             kind |-> "foreign", outcome |-> "running"])
  /\ UNCHANGED <<w, disk, events, threads, wire, minted, diskOk, fresh, history>>

DiskFails ==
  /\ diskOk /\ Fault("disk") /\ diskOk' = FALSE
  /\ UNCHANGED <<w, disk, events, server, minted, fresh, history>>

DiskRecovers ==
  /\ ~diskOk /\ diskOk' = TRUE
  /\ UNCHANGED <<w, disk, events, server, minted, budget, fresh, history>>

\* Longwatch dies.  A request already written may still be accepted.
Crash ==
  /\ w.pc \notin {"down", "dead"} /\ Fault("crash")
  /\ w' = Down /\ events' = << >>
  /\ UNCHANGED <<disk, server, minted, diskOk, fresh, history>>

\* Mutant of PickedUp: a paused task picks itself up.
PickedUpPaused(m) == m.phase \in Running \cup {"Paused"}

\* A restart goes on with these tasks by itself.
PickedUp(m) == m.phase \in Running

\* The worker's memory after a restart from what is on disk: initialize, then
\* spawn_runtime.
Restored ==
  LET m       == disk.state
      matches == disk.digest = disk.prompt
  IN CASE ~RequiresRecovery(m) -> Offline(Fresh, NoTask)
       [] RequiresRecovery(m) /\ PickedUp(m) /\ ~matches ->
            Offline([Pause(m) EXCEPT !.uncertain = FALSE], disk.prompt)
       [] RequiresRecovery(m) /\ ~(PickedUp(m) /\ ~matches) ->
            [Offline([m EXCEPT !.uncertain = @ \/ m.phase = "Sending"], disk.prompt)
               EXCEPT !.started = PickedUp(m)]

\* The first session starts over, or picks up at once or when its retry is due.
Restart ==
  /\ w.pc = "down"
  /\ LET s == Restored
     IN IF ~RequiresRecovery(disk.state)
        THEN /\ diskOk
             /\ w' = s
             /\ disk' = [disk EXCEPT !.state = Fresh, !.digest = NoTask]
        ELSE \/ /\ s.started
                /\ w' = EnsureConnectionAndThread(s)
                /\ SaveState(w')
             \/ /\ ~s.started \/ s.m.next
                /\ w' = s
                /\ UNCHANGED disk
  /\ wire' = NoRequest
  /\ UNCHANGED <<events, turns, threads, minted, world, fresh, history>>

-----------------------------------------------------------------------------
Init ==
  /\ w = Offline(Fresh, NoTask)
  /\ disk = [state |-> Fresh, digest |-> NoTask, prompt |-> NoTask]
  /\ events = << >>
  /\ turns = << >>
  /\ threads = 0
  /\ wire = NoRequest
  /\ minted = 0
  /\ diskOk = TRUE
  /\ budget = MaxFaults
  /\ fresh = Tasks
  /\ reported = {}
  /\ userStopped = FALSE

UserStep ==
  \/ \E t \in Tasks : StartConfigured(t) \/ StartNewConfigured(t) \/ QueueMessage(t)
  \/ Configure \/ SaveAgain \/ Resume \/ ClearQueued
  \/ PauseTask \/ Stop \/ Reset \/ Shutdown

WorkerStep ==
  \/ InterruptReply
  \/ ConnectReply \/ CreateReply \/ ResumeReply \/ ResumeFails
  \/ Mark \/ SubmitReply \/ SubmitFails \/ Handover
  \/ OnTurnStarted \/ OnError \/ OnTurnCompleted \/ OnSystemError \/ OnDisconnected
  \/ HandleDeadline
  \/ Restart

CodexStep == ServerAccepts \/ TurnEnds \/ Notices \/ ThreadBreaks \/ ForeignTurn

MachineStep == Disconnects \/ DiskFails \/ DiskRecovers \/ Crash

Next == UserStep \/ WorkerStep \/ CodexStep \/ MachineStep

Spec == Init /\ [][Next]_vars
-----------------------------------------------------------------------------
\* Safety.

\* A started worker that waits for events has a timer that wakes it: no
\* handler may leave a task that only an event could move, because the event
\* may never come (run_loop's select! and next_deadline).
NoStall == w.started /\ w.pc = "loop" => w.turnDeadline \/ w.m.next

\* No order of events and commands makes set_active_turn refuse, which would
\* end the worker's Tokio task (the `?` of handle_event and send_attempt).
NeverDies == w.pc # "dead"

\* While a turn/start can be accepted, the state on disk says so and carries the
\* id the request is tagged with: whatever kills Longwatch, the restart finds it.
WriteAhead ==
  wire.client # 0 /\ wire.turn = 0 =>
    disk.state.uncertain /\ disk.state.client = wire.client

\* Codex never works on two of the worker's turns in one conversation.
AtMostOneInFlight ==
  \A i, j \in OwnRunning : turns[i].thread = turns[j].thread => i = j

\* A task whose answer exists is not sent again as a new task, through any
\* order of failed requests, lost notifications, timeouts and reconnections.
NoRepeatAfterAnswer ==
  \A i, j \in 1..Len(turns) :
    i < j /\ turns[i].task = turns[j].task /\ turns[j].kind = "original"
      => turns[i].outcome # "answer"

\* What is reported as the answer to a task is the answer of a turn that was
\* started for it, never an older reply of the same conversation.
AnswerBelongsToTask ==
  \A r \in reported : turns[r.turn].task = r.task

\* The text of a task goes to a conversation once: Codex has it there, and a
\* further attempt asks it to go on (continuation_prompt).
NeverVerbatimTwice ==
  \A i, j \in 1..Len(turns) :
    /\ i < j /\ turns[i].thread = turns[j].thread
    /\ turns[i].task = turns[j].task /\ turns[i].kind # "foreign"
    => turns[j].kind = "continue"

\* After the user paused, stopped, reset or quit, nothing runs and nothing is
\* sent until they ask again, whatever arrives late and also after a crash.
StaysStopped ==
  userStopped => ~w.started /\ (wire.client # 0 => wire.turn # 0)

\* At every moment of a running task a crash leaves enough on disk to carry the
\* same task on: a running phase, and a text that matches its digest.
Recoverable ==
  w.started /\ w.pc # "handover" =>
    /\ disk.state.phase \in Running
    /\ disk.digest = disk.prompt /\ disk.prompt = w.prompt

\* Continue carries the task on: unless Codex cannot be reached, it does not
\* end in another pause.
ContinueCarriesOn ==
  [][w.resumeRequested /\ ResumeReply => w'.started \/ w'.m.phase = "Success"]_vars

-----------------------------------------------------------------------------
\* Liveness.

\* The worker's task is scheduled, Codex answers requests and finishes turns, and
\* Longwatch is started again after a crash.
Fairness == WF_vars(WorkerStep) /\ WF_vars(ServerAccepts) /\ WF_vars(TurnEnds)

FairSpec == Spec /\ Fairness

\* Every task comes to rest: answered, or waiting for the user.
Settles == w.started ~> ~w.started
=============================================================================
