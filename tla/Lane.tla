-------------------------------- MODULE Lane --------------------------------
(***************************************************************************)
(* A worker as the scheduler sees it: spawn_runtime and run_loop of        *)
(* src/src/runtime.rs reduced to the command channel, the snapshot that    *)
(* the worker publishes and what a restart would find on disk.  Worker.tla *)
(* models what happens inside a running task; here it only ends in some    *)
(* way.                                                                    *)
(*                                                                         *)
(* A task is a number, and the request id of a submission is the number of *)
(* its task; 0 stands for no task and for no request.                      *)
(***************************************************************************)
EXTENDS Naturals, Sequences

CONSTANTS MaxTask,    \* bound: how many texts the user submits
          Endings     \* how a running task may end in a run

ASSUME LaneAssumption ==
  /\ MaxTask \in Nat \ {0}
  /\ Endings \subseteq {"Success", "Paused", "FatalError"}

Tasks == 1..MaxTask
None  == 0
MaybeTask == Tasks \cup {None}

\* QueuePhase, with Connecting, Sending, Waiting and Backoff as one: the
\* scheduler only asks is_running.
Phases == {"Idle", "Running", "Success", "Paused", "FatalError"}

\* The part of a worker's QueueSnapshot that the scheduler and the window
\* decide by.  A snapshot in phase Idle has attempt_count 0, so attempt_count
\* decides nothing that the phase does not.
View ==
  [phase    : Phases,
   task     : MaybeTask,   \* session_prompt
   queued   : MaybeTask,   \* queued_message
   done     : Nat,         \* processed_request_count
   accepted : MaybeTask]   \* accepted_request_id

Blank == [phase |-> "Idle", task |-> None, queued |-> None, done |-> 0,
          accepted |-> None]

\* RuntimeCommand, as the scheduler sends it to a worker.  "start" is
\* SubmitConfigured, and StartConfigured when its request is None.
CommandKinds == {"start", "new", "resume", "queue", "pause", "stop", "reset",
                 "withdraw", "configure", "shutdown"}
Command == [kind : CommandKinds, task : MaybeTask, request : MaybeTask]
Cmd(kind, task, request) == [kind |-> kind, task |-> task, request |-> request]
Nothing == Cmd("configure", None, None)

Lane ==
  [view   : View,
   inbox  : Seq(Command),          \* the command channel
   doing  : Command,               \* the start being handled, or Nothing
   conf   : MaybeTask,             \* the prompt in config.json
   saved  : BOOLEAN,               \* is there a state.json?
   up     : BOOLEAN]               \* does the worker's Tokio task run?

NoLane == [view |-> Blank, inbox |-> << >>, doing |-> Nothing, conf |-> None,
           saved |-> FALSE, up |-> FALSE]

\* spawn_runtime for a new conversation: config in memory, nothing on disk.
SpawnLane(task) == [NoLane EXCEPT !.up = TRUE, !.view.task = task]

Processed(l) == [l EXCEPT !.view.done = @ + 1]
Saved(l)     == [l EXCEPT !.saved = TRUE]

\* handle_start_configured, accepted: configured, published and saved before
\* the connection is awaited; acknowledged after.
StartAccepted(l, c) ==
  Saved([l EXCEPT !.doing = c, !.conf = c.task,
                  !.view = [@ EXCEPT !.phase = "Running", !.task = c.task,
                                     !.accepted = None]])

\* handle_start_new_configured: acknowledged at once, config.json unwritten.
StartNewAccepted(l, c) ==
  Saved([l EXCEPT !.doing = c,
                  !.view = [Blank EXCEPT !.phase = "Running", !.task = c.task,
                                         !.done = l.view.done, !.accepted = c.request]])

\* handle_queue_message: one message behind a running task, or a refusal.
QueueAccepted(l, c) ==
  l.view.phase = "Running" /\ l.view.queued = None

\* Pristine: clear_session keeps only the request counter.
Cleared(l) == [l EXCEPT !.view = [Blank EXCEPT !.done = l.view.done]]

\* Mutant of ShutDown: the worker just ends.
ShutDownUncleared(l) == Saved([l EXCEPT !.up = FALSE])

\* handle_shutdown: the state on disk is cleared before the worker ends.
ShutDown(l) == Saved([Cleared(l) EXCEPT !.up = FALSE])

\* What run_loop makes of a command, up to the first await.  A running worker
\* refuses a new configuration, and one that is paused or failed does when it
\* still holds a turn; a refusal changes the status text only.
Handled(l, c) ==
  CASE c.kind = "start" ->
         (IF l.view.phase # "Running" THEN {StartAccepted(l, c)} ELSE {})
         \cup (IF l.view.phase \in {"Running", "Paused", "FatalError"}
               THEN {Saved(Processed(l))} ELSE {})
    [] c.kind = "new" -> {StartNewAccepted(l, c)}
    [] c.kind = "resume" ->
         IF l.view.phase = "Running" THEN {Processed(l)}
         ELSE IF l.view.phase = "Idle" /\ l.view.task = None
         THEN {Saved(Processed([l EXCEPT !.view.phase = "Paused"]))}
         ELSE {Saved([l EXCEPT !.doing = c, !.view.phase = "Running"])}
    [] c.kind = "queue" ->
         {Saved(Processed(
            IF QueueAccepted(l, c)
            THEN [l EXCEPT !.view.queued = c.task, !.view.accepted = c.request]
            ELSE l))}
    [] c.kind = "pause"    -> {Saved([l EXCEPT !.view.phase = "Paused"])}
    [] c.kind = "stop"     -> {Saved([l EXCEPT !.view.phase = "Idle",
                                               !.view.accepted = None])}
    [] c.kind = "reset"    -> {Saved([Cleared(l) EXCEPT !.conf = None])}
    [] c.kind = "withdraw" -> {[l EXCEPT !.view.queued = None]}
    [] c.kind = "configure" ->
         (IF l.view.phase # "Running"
          THEN {Saved([l EXCEPT !.conf = c.task, !.view.task = c.task])} ELSE {})
         \cup (IF l.view.phase \in {"Running", "Paused", "FatalError"}
               THEN {Saved([l EXCEPT !.conf = l.view.task])} ELSE {})
    [] c.kind = "shutdown" -> {ShutDown(l)}

\* The next states of a worker.  It takes its next command.
Taken(l) ==
  IF l.up /\ l.doing = Nothing /\ l.inbox # << >>
  THEN Handled([l EXCEPT !.inbox = Tail(@)], Head(l.inbox)) ELSE {}

\* Mutant of Finished: the counter does not advance.
FinishedUncounted(l) ==
  IF ~l.up \/ l.doing = Nothing THEN {} ELSE {[l EXCEPT !.doing = Nothing]}

\* A handler that awaited the connection returns.  The request is accepted
\* unless the task has failed or been paused meanwhile, and processed anyway.
Finished(l) ==
  IF ~l.up \/ l.doing = Nothing THEN {}
  ELSE LET acks == /\ l.doing.kind = "start"
                   /\ l.view.phase \in {"Running", "Success"}
                   /\ l.doing.request > l.view.accepted
       IN {Processed([l EXCEPT !.doing = Nothing,
                               !.view.accepted = IF acks THEN l.doing.request ELSE @])}

\* A running task ends: answered, given up, or handed over to the message
\* typed ahead (start_queued_message).
Progressed(l) ==
  IF ~l.up \/ l.view.phase # "Running" THEN {}
  ELSE {[l EXCEPT !.view.phase = p] :
          p \in IF l.view.queued = None THEN Endings ELSE Endings \ {"Success"}}
       \cup (IF l.view.queued = None THEN {}
             ELSE {[l EXCEPT !.conf = l.view.queued,
                             !.view = [@ EXCEPT !.task = l.view.queued,
                                                !.queued = None, !.accepted = None]]})

\* persisted_state_requires_recovery.  A failed worker may still hold a turn;
\* holds says whether this one does.
RequiresRecovery(l, holds) ==
  /\ l.saved
  /\ \/ l.view.phase \in {"Running", "Paused"}
     \/ l.view.queued # None
     \/ l.view.phase = "FatalError" /\ holds

\* spawn_runtime with a saved state: the text is that of the configuration,
\* and a running task whose text is not there is paused.  paused: the
\* scheduler held it back because of the limit.
Restored(l, paused) ==
  LET text  == l.conf
      phase == IF l.view.phase = "Running" /\ (paused \/ text # l.view.task)
               THEN "Paused" ELSE l.view.phase
  IN [l EXCEPT !.inbox = << >>, !.doing = Nothing, !.up = TRUE,
               !.view = [@ EXCEPT !.phase = phase, !.task = text, !.done = 0,
                                  !.accepted = None]]
=============================================================================
