------------------------------ MODULE Scheduler ------------------------------
(***************************************************************************)
(* MultiSessionRuntime in src/src/runtime.rs: one Tokio task that gives    *)
(* every conversation a worker, starts at most max_concurrent_sessions of  *)
(* them, and keeps the rest of the work in a queue that survives a         *)
(* restart.                                                                *)
(*                                                                         *)
(* The scheduler decides by the snapshots it copied from its workers at    *)
(* its last turn (slots[i].snap), while they run on; commands reach them   *)
(* through a channel.  One turn of its loop is                             *)
(*     handle a command, or the poll  ->  refresh_workers                  *)
(*     ->  dispatch_pending, one task at a time  ->  save, publish.        *)
(***************************************************************************)
EXTENDS Lane, Integers, FiniteSetsExt, SequencesExt

CONSTANTS
  MaxSession,    \* bound: session ids
  Limits,        \* values of max_concurrent_sessions
  MaxFinished,   \* MAX_FINISHED_SESSIONS
  Asked,         \* what the user does in a run (see Requests)
  MaxCommands,   \* bound: commands other than submissions
  MaxCrashes     \* bound: crashes, each followed by a restart

Requests ==
  {"new",         \* a task for a fresh conversation
   "submit",      \* a text for the selected conversation
   "typeAhead",   \* the same while that conversation is busy
   "resume", "pause", "stop", "withdraw", "select", "cancel", "dismiss",
   "clear",       \* ClearFinished
   "limit",       \* Configure with another limit
   "quit"}        \* Shutdown

ASSUME SchedulerAssumption ==
  /\ MaxSession \in Nat \ {0}
  /\ Limits \subseteq Nat \ {0} /\ Limits # {}
  /\ MaxFinished \in Nat /\ MaxCommands \in Nat /\ MaxCrashes \in Nat
  /\ Asked \subseteq Requests

VARIABLES
  pc,         \* "loop", "refresh", "dispatch", "closing" or "off"
  sched,      \* the scheduler's memory
  lanes,      \* the workers
  disk,       \* scheduler.json
  left        \* what the user and the world may still do

schedVars == <<pc, sched, lanes, disk, left>>

Sessions == 1..MaxSession
NoBase == -1

Larger(a, b) == IF a > b THEN a ELSE b

\* WorkerSlot; assigned_order and next_pending_id only grow.
Slot ==
  [snap     : View,
   assigned : BOOLEAN,
   base     : Nat \cup {NoBase},   \* assignment_processed_count
   origin   : Nat,                 \* origin_pending_id, 0 for none
   order    : Nat]                 \* assigned_order

\* PendingTask.  target is a session, or None for a fresh conversation.
Pending == [id : Nat, task : MaybeTask, request : MaybeTask,
            target : Sessions \cup {None}, resume : BOOLEAN]

\* SubmissionPlacement: where the last submission went.
Placement == [request : MaybeTask, session : Sessions \cup {None}, pending : Nat]

\* PersistedSchedulerState
Saves == [selected : Sessions \cup {None}, next : Nat, pending : Seq(Pending)]

ShapeOK ==
  /\ pc \in {"loop", "refresh", "dispatch", "closing", "off"}
  /\ DOMAIN sched.slots \subseteq Sessions
  /\ \A i \in DOMAIN sched.slots : sched.slots[i] \in Slot
  /\ sched.pending \in Seq(Pending)
  /\ sched.selected \in Sessions
  /\ sched.limit \in Limits
  /\ sched.accepted \in MaybeTask /\ sched.processed \in MaybeTask
  /\ sched.placed \in Placement
  /\ disk \in Saves
  /\ left.fresh \in 1..(MaxTask + 1)
  /\ left.commands \in 0..MaxCommands /\ left.crashes \in 0..MaxCrashes

\* shutdown_all has begun.
Quitting == pc \in {"closing", "off"}

\* Every slot has a live worker of its own, every id is used once, and no
\* entry of the queue has the id of another: CancelPending and the window's
\* selection go by these ids.
TypeOK ==
  /\ ShapeOK
  /\ lanes \in [Sessions -> Lane]
  /\ \A i \in DOMAIN sched.slots : lanes[i].up \/ Quitting
  /\ \A i \in Sessions : i >= sched.nextSession => ~lanes[i].up \/ i = 1 \/ Quitting
  /\ \A j, k \in DOMAIN sched.pending :
       sched.pending[j].id = sched.pending[k].id => j = k
  /\ \A k \in DOMAIN sched.pending : sched.pending[k].id < sched.nextPending

-----------------------------------------------------------------------------
\* What the scheduler reads off its slots.

Running(v) == v.phase = "Running"
Active(slot) == slot.assigned \/ Running(slot.snap)
ActiveIn(s) == {i \in DOMAIN s.slots : Active(s.slots[i])}
AtLimit(s) == Cardinality(ActiveIn(s)) >= s.limit

HasHistory(slot) ==
  slot.assigned \/ slot.snap.phase # "Idle" \/ slot.snap.task # None
IsFinished(slot) ==
  HasHistory(slot) /\ ~Active(slot) /\ slot.snap.phase # "Paused"

Pristine(s) == {i \in DOMAIN s.slots : ~HasHistory(s.slots[i])}

\* A step of the scheduler is a function of what it knows and of the workers,
\* to which it only sends and which it spawns: g = [s |-> sched, l |-> lanes].
Here == [s |-> sched, l |-> lanes]

Sent(l, c) == [l EXCEPT !.inbox = Append(@, c)]
Send(g, i, c) == [g EXCEPT !.l[i] = Sent(@, c)]

\* reserve_for_start
Reserve(g, i) ==
  [g EXCEPT !.s.counter = @ + 1,
            !.s.slots[i] = [@ EXCEPT !.assigned = TRUE,
                                     !.base = g.s.slots[i].snap.done,
                                     !.order = g.s.counter + 1]]

\* Mutant of Enqueue: the id is not used up.
EnqueueSameId(g, task, request, target, resume) ==
  [g EXCEPT !.s.pending = Append(@, [id |-> g.s.nextPending, task |-> task,
                                     request |-> request, target |-> target,
                                     resume |-> resume])]

\* Mutant of Enqueue: the entry is bound to no conversation.
EnqueueUnbound(g, task, request, target, resume) ==
  [g EXCEPT !.s.nextPending = @ + 1,
            !.s.pending = Append(@, [id |-> g.s.nextPending, task |-> task,
                                     request |-> request, target |-> None,
                                     resume |-> resume])]

\* Mutant of Enqueue: at the front.
EnqueueFirst(g, task, request, target, resume) ==
  [g EXCEPT !.s.nextPending = @ + 1,
            !.s.pending = <<[id |-> g.s.nextPending, task |-> task,
                             request |-> request, target |-> target,
                             resume |-> resume]>> \o @]

Enqueue(g, task, request, target, resume) ==
  [g EXCEPT !.s.nextPending = @ + 1,
            !.s.pending = Append(@, [id |-> g.s.nextPending, task |-> task,
                                     request |-> request, target |-> target,
                                     resume |-> resume])]

\* acknowledge_scheduler_request and record_placement.
Acknowledge(g, r) == [g EXCEPT !.s.accepted = Larger(@, r),
                               !.s.processed = Larger(@, r)]
Place(g, r, session, pending) ==
  IF r = None THEN g
  ELSE [g EXCEPT !.s.placed = [request |-> r, session |-> session,
                               pending |-> pending]]

\* What enqueueing a submission answers to the window.
EnqueueAnswered(g, task, request, target) ==
  Place(Acknowledge(Enqueue(g, task, request, target, FALSE), request),
        request, None, g.s.nextPending)

Persisted(s) == [selected |-> s.selected, next |-> s.nextSession,
                 pending |-> s.pending]

NewSlot(view, assigned, order) ==
  [snap |-> view, assigned |-> assigned, base |-> NoBase, origin |-> 0,
   order |-> order]

With(f, i, x) == [j \in DOMAIN f \cup {i} |-> IF j = i THEN x ELSE f[j]]
Without(f, i) == [j \in DOMAIN f \ {i} |-> f[j]]

\* spawn_slot for a fresh conversation, with allocate_session_id.
SpawnSlot(g, task) ==
  LET i == g.s.nextSession IN
  [g EXCEPT !.s.nextSession = @ + 1,
            !.s.counter = @ + 1,
            !.s.slots = With(@, i, NewSlot(SpawnLane(task).view, FALSE,
                                           g.s.counter + 1)),
            !.l[i] = SpawnLane(task)]

\* Mutant of Farewell: the worker of a dismissed conversation is forgotten.
FarewellUnsaid(g, i) == IF i = 1 THEN Send(g, i, Cmd("reset", None, None)) ELSE g

\* What is left of a queue: the entries at the places in kept, in their order.
Retain(q, kept) ==
  LET left_of[k \in 0..Len(q)] ==
        IF k = 0 THEN << >>
        ELSE IF k \in kept THEN Append(left_of[k - 1], q[k]) ELSE left_of[k - 1]
  IN left_of[Len(q)]

\* dismiss_session: the entries bound to the conversation leave with it, and
\* its worker is cleared (the first conversation) or shut down.
Unqueue(g, i) ==
  [g EXCEPT !.s.pending = Retain(@, {k \in DOMAIN @ : @[k].target # i})]
Farewell(g, i) == Send(g, i, Cmd(IF i = 1 THEN "reset" ELSE "shutdown", None, None))

DismissSession(g, i) ==
  IF i \notin DOMAIN g.s.slots \/ Active(g.s.slots[i]) THEN g
  ELSE LET gone == [Farewell(Unqueue(g, i), i)
                      EXCEPT !.s.slots = IF i = 1 THEN [@ EXCEPT ![1].origin = 0]
                                                  ELSE Without(@, i)]
           others == {j \in DOMAIN gone.s.slots \ {i} : HasHistory(gone.s.slots[j])}
           newest == CHOOSE j \in others :
                       \A k \in others : gone.s.slots[j].order >= gone.s.slots[k].order
       IN IF g.s.selected # i THEN gone
          ELSE [gone EXCEPT !.s.selected = IF others = {} THEN 1 ELSE newest]

\* One after the other.
DismissAll(g, ids) ==
  LET after[i \in 0..MaxSession] ==
        IF i = 0 THEN g
        ELSE IF i \in ids THEN DismissSession(after[i - 1], i) ELSE after[i - 1]
  IN after[MaxSession]

\* prune_finished_sessions: the oldest beyond MaxFinished are dismissed.
PruneFinishedSessions(g) ==
  LET finished == {i \in DOMAIN g.s.slots \ {g.s.selected} : IsFinished(g.s.slots[i])}
      newer(i) == {j \in finished : g.s.slots[j].order > g.s.slots[i].order}
  IN DismissAll(g, {i \in finished : Cardinality(newer(i)) >= MaxFinished})

\* assign_new_task: into a pristine slot, or a new one.
AssignSlot(s) == IF Pristine(s) = {} THEN s.nextSession ELSE Min(Pristine(s))

\* Mutant of AssignNewTask: the slot does not know which entry it serves.
AssignForgetsOrigin(g, task, request, origin) ==
  LET i  == AssignSlot(g.s)
      g1 == IF i \in DOMAIN g.s.slots THEN g ELSE SpawnSlot(g, task)
  IN PruneFinishedSessions(Send(Reserve(g1, i), i, Cmd("new", task, request)))

AssignNewTask(g, task, request, origin) ==
  LET i  == AssignSlot(g.s)
      g1 == IF i \in DOMAIN g.s.slots THEN g ELSE SpawnSlot(g, task)
      g2 == Reserve([g1 EXCEPT !.s.slots[i].origin = origin], i)
  IN PruneFinishedSessions(Send(g2, i, Cmd("new", task, request)))

\* The bound on sessions: a fresh conversation needs an id.
Fits(s) == AssignSlot(s) \in Sessions

-----------------------------------------------------------------------------
\* handle_command.  Each command is a function from g to g.

StartNewTask(g, task, request) ==
  IF AtLimit(g.s) THEN EnqueueAnswered(g, task, request, None)
  ELSE LET i  == AssignSlot(g.s)
           g1 == AssignNewTask(g, task, request, 0)
       IN Place(Acknowledge([g1 EXCEPT !.s.selected = i], request), request, i, 0)

\* start_configured: a busy conversation gets the text as a message typed
\* ahead (queue_message), an idle one starts if the limit allows.
StartConfigured(g, task, request) ==
  LET i == g.s.selected IN
  CASE i \notin DOMAIN g.s.slots -> StartNewTask(g, task, request)
    [] i \in ActiveIn(g.s) ->
         Place(Send(g, i, Cmd("queue", task, request)), request, i, 0)
    [] i \in DOMAIN g.s.slots \ ActiveIn(g.s) /\ AtLimit(g.s) ->
         EnqueueAnswered(g, task, request, i)
    [] OTHER ->
         Place(Send(Reserve(g, i), i, Cmd("start", task, request)), request, i, 0)

\* Mutant of SubmitConfigured: left to the worker.
SubmitUnprocessed(g, task, request) == StartConfigured(g, task, request)

\* The request counts as processed before the worker has seen it.
SubmitConfigured(g, task, request) ==
  [StartConfigured(g, task, request) EXCEPT !.s.processed = Larger(@, request)]

StartNewConfigured(g, task, request) ==
  [StartNewTask(g, task, request) EXCEPT !.s.processed = Larger(@, request)]

\* Resume: start_or_queue_selected(true).
StartOrQueueSelected(g) ==
  LET i == g.s.selected IN
  IF i \notin DOMAIN g.s.slots \/ i \in ActiveIn(g.s) THEN g
  ELSE IF AtLimit(g.s)
  THEN IF \E k \in DOMAIN g.s.pending : g.s.pending[k].target = i THEN g
       ELSE Enqueue(g, g.s.slots[i].snap.task, None, i, TRUE)
  ELSE Send(Reserve(g, i), i, Cmd("resume", None, None))

\* Pause, ClearQueuedMessage: passed on to the selected worker.
Forward(g, kind) ==
  IF g.s.selected \in DOMAIN g.s.slots
  THEN Send(g, g.s.selected, Cmd(kind, None, None)) ELSE g

\* Stop also frees the slot, before the worker has heard of it.
Stop(g) ==
  IF g.s.selected \in DOMAIN g.s.slots
  THEN [Forward(g, "stop") EXCEPT !.s.slots[g.s.selected].assigned = FALSE,
                                  !.s.slots[g.s.selected].base = NoBase]
  ELSE g

SelectSession(g, i) ==
  IF i \in DOMAIN g.s.slots THEN [g EXCEPT !.s.selected = i] ELSE g

CancelPending(g, id) ==
  [g EXCEPT !.s.pending = Retain(@, {k \in DOMAIN @ : @[k].id # id})]

ClearFinished(g) ==
  DismissAll(g, {i \in DOMAIN g.s.slots : IsFinished(g.s.slots[i])})

\* configure: the settings reach every worker, with the text the scheduler
\* last saw there.
Configure(g, limit) ==
  [g EXCEPT !.s.limit = limit,
            !.l = [i \in Sessions |->
                     IF i \in DOMAIN g.s.slots
                     THEN Sent(@[i], Cmd("configure", g.s.slots[i].snap.task, None))
                     ELSE @[i]]]

\* Shutdown, and the first half of shutdown_all.
Shutdown(g) ==
  [g EXCEPT !.s.pending = << >>, !.s.selected = 1, !.s.nextSession = 2,
            !.l = [i \in Sessions |->
                     IF i \in DOMAIN g.s.slots
                     THEN Sent(@[i], Cmd("shutdown", None, None))
                     ELSE @[i]]]

-----------------------------------------------------------------------------
\* The steps of run.

\* The commands of the window.  arg is a task, a session, an entry of the queue
\* or a limit, depending on the kind.
UserCommand == [kind : Requests, arg : Nat]

HandleCommand(g, c) ==
  CASE c.kind = "new"      -> StartNewConfigured(g, c.arg, c.arg)
    [] c.kind = "submit"   -> SubmitConfigured(g, c.arg, c.arg)
    [] c.kind = "resume"   -> StartOrQueueSelected(g)
    [] c.kind = "pause"    -> Forward(g, "pause")
    [] c.kind = "withdraw" -> Forward(g, "withdraw")
    [] c.kind = "stop"     -> Stop(g)
    [] c.kind = "select"   -> SelectSession(g, c.arg)
    [] c.kind = "cancel"   -> CancelPending(g, c.arg)
    [] c.kind = "dismiss"  -> DismissSession(g, c.arg)
    [] c.kind = "clear"    -> ClearFinished(g)
    [] c.kind = "limit"    -> Configure(g, c.arg)
    [] c.kind = "quit"     -> Shutdown(g)

\* One turn begins with a command.  A handler that changes what scheduler.json
\* holds saves it; the next step is refresh_workers.  The bound on sessions is
\* here and in DispatchNew.
Receive(c) ==
  /\ pc = "loop" /\ pc' = IF c.kind = "quit" THEN "closing" ELSE "refresh"
  /\ c.kind \in {"new", "submit"} => Fits(sched)
  /\ LET g == HandleCommand(Here, c) IN
       /\ sched' = g.s /\ lanes' = g.l
       /\ disk' = IF Persisted(g.s) # Persisted(sched) THEN Persisted(g.s) ELSE disk

\* What a refreshed slot knows: refresh_workers, one slot.
Released(slot) ==
  /\ slot.assigned /\ slot.base = NoBase
  /\ slot.snap.phase \in {"Success", "Paused", "FatalError"}

\* Mutant of RefreshSlot: the request counter need not have advanced.
RefreshSlotTooSoon(slot, view) ==
  LET seen == [slot EXCEPT !.snap = view,
                 !.base = IF @ # NoBase /\ view.done >= @ THEN NoBase ELSE @]
  IN [seen EXCEPT !.assigned = @ /\ ~Released(seen)]

RefreshSlot(slot, view) ==
  LET seen == [slot EXCEPT !.snap = view,
                 !.base = IF @ # NoBase /\ view.done > @ THEN NoBase ELSE @]
  IN [seen EXCEPT !.assigned = @ /\ ~Released(seen)]

\* Nothing more to start.
HeadIsBusy ==
  /\ sched.pending # << >> /\ Head(sched.pending).target \in DOMAIN sched.slots
  /\ Active(sched.slots[Head(sched.pending).target])
Settled == sched.pending = << >> \/ AtLimit(sched) \/ HeadIsBusy

\* After a command, and at the poll.
RefreshWorkers ==
  /\ pc \in {"loop", "refresh"} /\ pc' = "dispatch"
  /\ sched' = [sched EXCEPT !.slots =
                 [i \in DOMAIN @ |-> RefreshSlot(@[i], lanes[i].view)]]
  /\ UNCHANGED <<lanes, disk, left>>

\* dispatch_pending: one turn of its loop.
MayDispatch == pc = "dispatch" /\ sched.pending # << >> /\ ~AtLimit(sched)
First == Head(sched.pending)

\* Mutant of Popped: the entry stays.
PoppedNot == [s |-> sched, l |-> lanes]

Popped == [s |-> [sched EXCEPT !.pending = Tail(@)], l |-> lanes]

\* The head is bound to a conversation that is gone.
Detach ==
  /\ MayDispatch /\ First.target \notin DOMAIN sched.slots \cup {None}
  /\ sched' = [sched EXCEPT !.pending[1] = [@ EXCEPT !.target = None,
                                                     !.resume = FALSE]]
  /\ UNCHANGED <<pc, lanes, disk, left>>

DispatchTarget ==
  /\ MayDispatch /\ First.target \in DOMAIN sched.slots /\ ~HeadIsBusy
  /\ LET i == First.target
         c == IF First.resume THEN Cmd("resume", None, None)
                              ELSE Cmd("start", First.task, First.request)
         g == Send(Reserve([Popped EXCEPT !.s.slots[i].origin = First.id], i), i, c)
     IN sched' = g.s /\ lanes' = g.l
  /\ UNCHANGED <<pc, disk, left>>

DispatchNew ==
  /\ MayDispatch /\ First.target = None /\ Fits(sched)
  /\ LET g == AssignNewTask(Popped, First.task, First.request, First.id)
     IN sched' = g.s /\ lanes' = g.l
  /\ UNCHANGED <<pc, disk, left>>

\* The end of the loop: persist_scheduler, and publish.
DispatchDone ==
  /\ pc = "dispatch" /\ pc' = "loop"
  /\ Settled
  /\ disk' = Persisted(sched)
  /\ UNCHANGED <<sched, lanes, left>>

-----------------------------------------------------------------------------
\* The user, whose window need not know what the scheduler does (Window.tla has
\* the one that does).  A submission uses up a text, any other command counts
\* against MaxCommands.

Possible(kind) ==
  CASE kind \in {"new", "submit"} -> {left.fresh} \cap Tasks
    [] kind = "select"  -> DOMAIN sched.slots \ {sched.selected}
    [] kind = "dismiss" -> DOMAIN sched.slots
    [] kind = "cancel"  -> {e.id : e \in Range(sched.pending)}
    [] kind = "limit"   -> Limits \ {sched.limit}
    [] OTHER            -> {None}

TypesAhead(kind) == kind = "submit" /\ sched.selected \in ActiveIn(sched)

UserActs ==
  \E kind \in Asked \ {"typeAhead"} : \E arg \in Possible(kind) :
    /\ TypesAhead(kind) => "typeAhead" \in Asked
    /\ Receive([kind |-> kind, arg |-> arg])
    /\ IF kind \in {"new", "submit"} THEN left' = [left EXCEPT !.fresh = @ + 1]
       ELSE left.commands > 0 /\ left' = [left EXCEPT !.commands = @ - 1]

-----------------------------------------------------------------------------
\* The workers, each a Tokio task of its own.

\* While the scheduler dispatches it reads nothing of its workers, so a step of
\* theirs can be taken to come before or after.
LaneMoves(i, next) ==
  /\ pc # "dispatch"
  /\ \E l \in next : lanes' = [lanes EXCEPT ![i] = l]
  /\ UNCHANGED <<pc, sched, disk, left>>

TakeCommand(i)   == LaneMoves(i, Taken(lanes[i]))
FinishCommand(i) == LaneMoves(i, Finished(lanes[i]))
RunTask(i)       == LaneMoves(i, Progressed(lanes[i]))

\* The task that dismiss_session spawned: the worker has ended, or three
\* seconds have passed, and its folder is removed.  A worker that is still up
\* may write it again.
RemoveSession(i) ==
  /\ ~Quitting /\ lanes[i].saved /\ i \notin DOMAIN sched.slots
  /\ LaneMoves(i, {[lanes[i] EXCEPT !.saved = FALSE]})

-----------------------------------------------------------------------------
\* Crash and restart.

\* initialize, which runs before any command is taken: the queue is restored,
\* the first conversation always, any other only if it has work to recover,
\* and running ones beyond the limit are paused.  holding are the failed
\* workers that still hold a turn; limit is what config.json says.
Kept(i, holding) == RequiresRecovery(lanes[i], i \in holding)

Initialize(holding, limit) ==
  LET ids     == {1} \cup {i \in Sessions : Kept(i, holding)}
      ran(i)  == Kept(i, holding) /\ lanes[i].view.phase = "Running"
      before(i) == {j \in ids : j < i /\ ran(j)}
      over(i) == ran(i) /\ i # 1 /\ Cardinality(before(i)) >= limit
      lane(i) == IF Kept(i, holding) THEN Restored(lanes[i], over(i))
                 ELSE [NoLane EXCEPT !.up = TRUE, !.saved = TRUE, !.conf = lanes[1].conf]
      slot(i) == NewSlot(lane(i).view, ran(i) /\ ~over(i),
                         Cardinality({j \in ids : j <= i}))
      queue   == [k \in DOMAIN disk.pending |->
                    [disk.pending[k] EXCEPT !.id = k, !.request = None]]
  IN /\ lanes' = [i \in Sessions |-> IF i \in ids THEN lane(i) ELSE NoLane]
     /\ sched' = [slots |-> [i \in ids |-> slot(i)],
                  pending |-> queue,
                  selected |-> IF disk.selected \in ids THEN disk.selected ELSE 1,
                  nextSession |-> Max(ids \cup {Larger(disk.next, 2) - 1}) + 1,
                  nextPending |-> Len(queue) + 1,
                  counter |-> Cardinality(ids),
                  limit |-> limit, accepted |-> None, processed |-> None,
                  placed |-> [request |-> None, session |-> None, pending |-> 0]]

\* Longwatch is killed and started again.  A crash between sending a task to
\* its worker and the saves of both is left out: see the README.
InFlight(i) == lanes[i].inbox # << >>
CrashAndRestart ==
  /\ pc = "loop" /\ \A i \in Sessions : ~InFlight(i)
  /\ left.crashes > 0 /\ left' = [left EXCEPT !.crashes = @ - 1]
  /\ \E holding \in SUBSET {i \in Sessions : lanes[i].view.phase = "FatalError"},
        limit \in Limits : Initialize(holding, limit)
  /\ UNCHANGED <<pc, disk>>

-----------------------------------------------------------------------------
\* Quitting.

\* shutdown_all, after its workers have ended: nothing is left on disk.
ShutdownAll ==
  /\ pc = "closing" /\ \A i \in Sessions : ~lanes[i].up
  /\ pc' = "off"
  /\ lanes' = [i \in Sessions |-> NoLane]
  /\ UNCHANGED <<sched, disk, left>>

-----------------------------------------------------------------------------
SchedInit ==
  /\ pc = "loop"
  /\ lanes = [i \in Sessions |-> IF i = 1 THEN [SpawnLane(None) EXCEPT !.saved = TRUE]
                                 ELSE NoLane]
  /\ \E n \in Limits :
       sched = [slots |-> [i \in {1} |-> NewSlot(Blank, FALSE, 1)],
                pending |-> << >>, selected |-> 1, nextSession |-> 2,
                nextPending |-> 1, counter |-> 1, limit |-> n,
                accepted |-> None, processed |-> None,
                placed |-> [request |-> None, session |-> None, pending |-> 0]]
  /\ disk = [selected |-> 1, next |-> 2, pending |-> << >>]
  /\ left = [fresh |-> 1, commands |-> MaxCommands, crashes |-> MaxCrashes]

\* run, without the commands.
Dispatching == Detach \/ DispatchTarget \/ DispatchNew \/ DispatchDone
Serve(i) == TakeCommand(i) \/ FinishCommand(i)
LaneSteps(i) == Serve(i) \/ RunTask(i) \/ RemoveSession(i)
Turning == RefreshWorkers \/ Dispatching \/ ShutdownAll

SchedNext ==
  \/ UserActs
  \/ Turning
  \/ \E i \in Sessions : LaneSteps(i)
  \/ CrashAndRestart

SchedSpec == SchedInit /\ [][SchedNext]_schedVars

\* Tokio runs a task that is ready: the scheduler's poll, and the workers'
\* commands, whose every wait has a timeout.  Nothing is assumed of running
\* tasks.
SchedFairness ==
  /\ WF_schedVars(RefreshWorkers) /\ WF_schedVars(Dispatching)
  /\ \A i \in Sessions : SF_schedVars(Serve(i))

FairSchedSpec == SchedSpec /\ SchedFairness

-----------------------------------------------------------------------------
\* Properties.

\* The workers that run, or will when they have read their commands.
WillRun(l) ==
  LET decisive == {k \in DOMAIN l.inbox : l.inbox[k].kind \notin
                     {"queue", "withdraw", "configure"}}
  IN IF decisive = {} THEN Running(l.view)
     ELSE l.inbox[Max(decisive)].kind \in {"start", "new", "resume"}
Live == {i \in Sessions : lanes[i].up /\ WillRun(lanes[i])}

\* The limit holds for the workers themselves, not only for the scheduler's
\* idea of them: no start is sent that makes more of them run than
\* max_concurrent_sessions (dispatch_pending, reserve_for_start and
\* refresh_workers together).
StartsAnother == ~(Live' \subseteq Live)
WithinLimit == [][StartsAnother => Cardinality(Live') <= sched'.limit]_schedVars

\* A conversation that the user dismissed, or that was pruned, does not come
\* back: once its worker has ended, nothing it left would be restored
\* (dismiss_session, handle_shutdown, initialize).
DismissedStaysAway ==
  \A i \in Sessions \ DOMAIN sched.slots :
    ~Quitting /\ ~InFlight(i) => ~Kept(i, Sessions)

\* A conversation that runs, or waits for its user, is in the list: the user
\* can reach it (initialize, dismiss_session, prune_finished_sessions).
NothingHidden ==
  \A i \in Sessions :
    lanes[i].up /\ lanes[i].view.phase \in {"Running", "Paused"} /\ ~InFlight(i)
      => i \in DOMAIN sched.slots

\* The queue moves: work does not wait for ever while nothing runs
\* (dispatch_pending, and the release of slots in refresh_workers).
QueueMoves == []<>(sched.pending = << >> \/ Live # {})

\* The scheduler implements LaneQueue.
Entry(e) == [task |-> e.task, target |-> e.target, resume |-> e.resume]
Promise == INSTANCE LaneQueue WITH
  waiting <- [k \in DOMAIN sched.pending |-> Entry(sched.pending[k])],
  busy    <- ActiveIn(sched),
  limit   <- sched.limit,
  Lanes   <- Sessions,
  Bounds  <- Limits,
  Entries <- [task : MaybeTask, target : Sessions \cup {None}, resume : BOOLEAN],
  Target  <- LAMBDA e : e.target,
  Free    <- None,
  Unbound <- LAMBDA e : [e EXCEPT !.target = None, !.resume = FALSE]
ServesInOrder == Promise!Spec
=============================================================================
