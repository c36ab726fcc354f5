------------------------------- MODULE Window -------------------------------
(***************************************************************************)
(* The window, QueueView in src/src/ui.rs, in front of the scheduler.      *)
(*                                                                         *)
(* The window decides by the last snapshot it received (window.view) and   *)
(* sends commands through a channel (cmds) that it never waits for.  The   *)
(* scheduler publishes a snapshot at the end of every turn of its loop;    *)
(* snapshots overwrite each other until the window takes one.  A command   *)
(* other than a selection names no conversation: it goes to the one that   *)
(* the scheduler has selected when it arrives.                             *)
(***************************************************************************)
EXTENDS Scheduler

CONSTANTS
  Channel,   \* capacity of the command channel
  MaxHaste   \* bound: acts of the user before his window is up to date

ASSUME WindowAssumption == Channel \in Nat \ {0} /\ MaxHaste \in Nat

VARIABLES
  window,   \* QueueView
  cmds,     \* the channel from the window to the scheduler
  ghost     \* history: where the user meant his texts to go, his hasty acts

winVars == <<pc, sched, lanes, disk, left, window, cmds, ghost>>

Selection == [kind : {"New", "Session", "Pending"}, id : Nat]
Page(kind, id) == [kind |-> kind, id |-> id]
NewPage == Page("New", None)

\* publish: the snapshot, as far as the window decides by it.
Summary == [phase : Phases, active : BOOLEAN, history : BOOLEAN, origin : Nat]
Shown(s) == IF s.selected \in DOMAIN s.slots THEN s.selected ELSE Min(DOMAIN s.slots)
Published ==
  LET i == Shown(sched) IN
  [session   |-> i,
   phase     |-> sched.slots[i].snap.phase,
   queued    |-> sched.slots[i].snap.queued,
   list      |-> [j \in DOMAIN sched.slots |->
                    [phase   |-> sched.slots[j].snap.phase,
                     active  |-> Active(sched.slots[j]),
                     history |-> HasHistory(sched.slots[j]),
                     origin  |-> sched.slots[j].origin]],
   waiting   |-> [k \in DOMAIN sched.pending |->
                    [id |-> sched.pending[k].id, target |-> sched.pending[k].target]],
   accepted  |-> Larger(sched.accepted, sched.slots[i].snap.accepted),
   processed |-> sched.processed,
   placed    |-> sched.placed]

\* The conversation asked for is never the one that is shown: a selection that
\* has landed can be asked for again (requested_session).
WindowTypeOK ==
  /\ window.requested # window.view.session
  /\ cmds \in Seq(UserCommand) /\ Len(cmds) <= Channel
  /\ window.selection \in Selection
  /\ window.requested \in Sessions \cup {None}
  /\ window.clearing \in MaybeTask /\ window.back \in MaybeTask
  /\ window.awaiting \in MaybeTask
  /\ window.initial \in BOOLEAN /\ window.closed \in BOOLEAN
  /\ window.limit \in Limits
  /\ window.view.list \in [DOMAIN window.view.list -> Summary]
  /\ ghost.meant \in [Tasks -> Sessions \cup {None}]
  /\ ghost.follows \in MaybeTask /\ ghost.stopped \in BOOLEAN /\ ghost.haste \in 0..MaxHaste

-----------------------------------------------------------------------------
\* What the window reads off its snapshot.

Listed(w) == {i \in DOMAIN w.view.list : w.view.list[i].history}
Waiting(w) == {w.view.waiting[k].id : k \in DOMAIN w.view.waiting}
FollowUps(w, i) ==
  {w.view.waiting[k].id : k \in {j \in DOMAIN w.view.waiting : w.view.waiting[j].target = i}}
SessionIsFinished(x) == x.history /\ ~x.active /\ x.phase \in {"Success", "Idle"}

On(w, i) == w.selection = Page("Session", i)

\* composer_target
ComposerTarget(w) ==
  IF w.selection.kind # "Session" THEN "NewTask"
  ELSE IF \/ w.view.session # w.selection.id
          \/ w.view.phase \in {"Paused", "FatalError"}
          \/ w.view.queued # None
          \/ FollowUps(w, w.selection.id) # {}
       THEN "Blocked" ELSE "FollowUp"

\* A handler of the window is a function of its state and the channel:
\* h = [w |-> window, q |-> cmds].  try_send drops what does not fit.
HasRoomFor(h) == Len(h.q) < Channel
TrySend(h, kind, arg) ==
  IF HasRoomFor(h) THEN [h EXCEPT !.q = Append(@, [kind |-> kind, arg |-> arg])] ELSE h

\* request_runtime_selection
RequestRuntimeSelection(h, i) ==
  IF h.w.view.session = i \/ h.w.requested = i \/ ~HasRoomFor(h) THEN h
  ELSE [TrySend(h, "select", i) EXCEPT !.w.requested = i]

\* select
SelectPage(h, page) ==
  LET moved == [h EXCEPT !.w.selection = page, !.w.initial = FALSE] IN
  IF page.kind = "Session" THEN RequestRuntimeSelection(moved, page.id) ELSE moved

\* run_selected
RunSelected(h, kind) ==
  TrySend(RequestRuntimeSelection(h, h.w.selection.id), kind, None)

\* The buttons of render_session_header.
HeaderActions(x) ==
  IF x.active THEN {"pause", "stop"}
  ELSE CASE x.phase = "Paused"     -> {"resume", "stop"}
         [] x.phase = "FatalError" -> {"resume"}
         [] OTHER                  -> {}

\* cancel_pending
CancelEntry(h, id) ==
  LET sent == TrySend(h, "cancel", id) IN
  IF h.w.selection = Page("Pending", id) THEN SelectPage(sent, NewPage) ELSE sent

-----------------------------------------------------------------------------
\* update_snapshot, in its order: the answer to the last submission, the
\* place of a new task, the snapshot itself, the selection.

\* The answer: the text is gone for good, or comes back into the composer.
AnswerSubmission(w, v) ==
  CASE w.clearing = None          -> w
    [] w.clearing # None /\ v.accepted >= w.clearing  -> [w EXCEPT !.clearing = None]
    [] w.clearing # None /\ v.accepted < w.clearing /\ v.processed >= w.clearing ->
         [w EXCEPT !.clearing = None, !.back = w.clearing]
    [] OTHER                      -> w

FollowPlacement(w, v) ==
  IF w.awaiting = None THEN w
  ELSE IF v.placed.request = w.awaiting
  THEN [w EXCEPT !.awaiting = None,
                 !.selection = CASE v.placed.session # None -> Page("Session", v.placed.session)
                                 [] v.placed.pending # 0    -> Page("Pending", v.placed.pending)
                                 [] OTHER                   -> @]
  ELSE IF v.processed >= w.awaiting /\ v.accepted < w.awaiting
  THEN [w EXCEPT !.awaiting = None] ELSE w

\* The first selection after the start: the last of the running ones.
SelectInitial(w) ==
  LET running == {i \in Listed(w) : w.view.list[i].active}
      best    == IF running # {} THEN Max(running) ELSE Max(Listed(w))
      moved   == [w EXCEPT !.initial = FALSE]
  IN IF ~w.initial THEN w
     ELSE IF w.selection = NewPage /\ Listed(w) # {}
     THEN [moved EXCEPT !.selection = Page("Session", best)] ELSE moved

ReconcileSelection(w) ==
  LET id == w.selection.id
      started == {i \in DOMAIN w.view.list : w.view.list[i].origin = id}
  IN CASE w.selection.kind = "Session" /\ id \notin Listed(w) ->
            [w EXCEPT !.selection = NewPage]
       [] w.selection.kind = "Pending" /\ id \notin Waiting(w) ->
            [w EXCEPT !.selection = IF started = {} THEN NewPage
                                    ELSE Page("Session", Min(started))]
       [] OTHER -> w

\* Mutant of ViewUpdated: what has arrived is still awaited.
ViewUpdatedStillAsked(w, v) == [w EXCEPT !.view = v]

ViewUpdated(w, v) ==
  [w EXCEPT !.view = v, !.requested = IF v.session = @ THEN None ELSE @]

UpdateSnapshot(h, v) ==
  LET answered == FollowPlacement(AnswerSubmission(h.w, v), v)
      w        == ReconcileSelection(SelectInitial(ViewUpdated(answered, v)))
      g        == [h EXCEPT !.w = w]
  IN IF w.selection.kind = "Session" THEN RequestRuntimeSelection(g, w.selection.id)
     ELSE g

-----------------------------------------------------------------------------
\* The steps of the window.

Sched == <<pc, sched, lanes, disk>>
Window0 == [w |-> window, q |-> cmds]

Becomes(h) == window' = h.w /\ cmds' = h.q

\* Between two turns the scheduler's state is what it published.
ReceiveSnapshot ==
  /\ pc = "loop" /\ ~window.closed /\ window.view # Published
  /\ Becomes(UpdateSnapshot(Window0, Published))
  /\ UNCHANGED <<Sched, left, ghost>>

\* The window knows all there is to know.
InStep == pc = "loop" /\ cmds = << >> /\ window.view = Published

\* The user acts: follows is the task that the window should stay with.
Heeds(kind, meant, follows) ==
  /\ InStep \/ ghost.haste < MaxHaste
  /\ ghost' = [ghost EXCEPT !.meant = meant, !.follows = follows,
                             !.stopped = @ \/ kind = "stop",
                             !.haste = IF InStep THEN @ ELSE @ + 1]

\* submit.  A submission that does not fit the channel changes nothing.
Submit ==
  LET t    == left.fresh
      kind == ComposerTarget(window)
      h    == IF kind = "FollowUp"
              THEN RequestRuntimeSelection(Window0, window.selection.id) ELSE Window0
  IN /\ ~window.closed /\ t \in Tasks /\ kind # "Blocked" /\ HasRoomFor(h)
     /\ Becomes(TrySend([h EXCEPT !.w.clearing = t, !.w.back = None,
                                  !.w.awaiting = IF kind = "NewTask" THEN t ELSE @],
                        IF kind = "NewTask" THEN "new" ELSE "submit", t))
     /\ left' = [left EXCEPT !.fresh = @ + 1]
     /\ Heeds("submit", IF kind = "FollowUp" /\ InStep
              THEN [ghost.meant EXCEPT ![t] = window.selection.id] ELSE ghost.meant,
              IF kind = "NewTask" THEN t ELSE None)
     /\ UNCHANGED Sched

\* Any other act of the user.  He may do kind if Asked says so; some make him
\* look elsewhere.
Acts(kind, h, stays) ==
  /\ ~window.closed /\ kind \in Asked /\ left.commands > 0
  /\ left' = [left EXCEPT !.commands = @ - 1]
  /\ Becomes(h)
  /\ Heeds(kind, ghost.meant, IF stays THEN ghost.follows ELSE None)
  /\ UNCHANGED Sched

SelectRow ==
  \E page \in {NewPage} \cup {Page("Session", i) : i \in Listed(window)}
               \cup {Page("Pending", p) : p \in Waiting(window)} :
    page # window.selection /\ Acts("select", SelectPage(Window0, page), FALSE)

PressHeader ==
  \E i \in Listed(window) : \E kind \in HeaderActions(window.view.list[i]) :
    On(window, i) /\ Acts(kind, RunSelected(Window0, kind), TRUE)

\* render_staged_message: the message typed ahead, or the follow-up that waits.
WithdrawMessage ==
  \E i \in Listed(window) :
    /\ On(window, i) /\ window.view.session = i
    /\ IF window.view.queued # None
       THEN Acts("withdraw", RunSelected(Window0, "withdraw"), TRUE)
       ELSE \E id \in FollowUps(window, i) :
              Acts("withdraw", CancelEntry(Window0, id), TRUE)

DismissSelected ==
  \E i \in Listed(window) :
    /\ On(window, i) /\ ~window.view.list[i].active
    /\ Acts("dismiss", SelectPage(TrySend(Window0, "dismiss", i), NewPage), FALSE)

CancelWaiting ==
  \E id \in Waiting(window) :
    /\ window.selection = Page("Pending", id)
    /\ Acts("cancel", CancelEntry(Window0, id), FALSE)

ClearList ==
  LET finished == {i \in Listed(window) : SessionIsFinished(window.view.list[i])}
      sent     == TrySend(Window0, "clear", None)
      leaves   == \E i \in finished : On(window, i)
  IN /\ finished # {}
     /\ Acts("clear", IF leaves THEN SelectPage(sent, NewPage) ELSE sent, FALSE)

AdjustConcurrency ==
  \E n \in Limits \ {window.limit} :
    Acts("limit", TrySend([Window0 EXCEPT !.w.limit = n], "limit", n), TRUE)

\* The window is closed, with or without the dialog, and run sends Shutdown,
\* for which it does wait.
Close ==
  /\ HasRoomFor(Window0)
  /\ Acts("quit", TrySend([Window0 EXCEPT !.w.closed = TRUE], "quit", None), TRUE)

\* The scheduler takes the next command.
TakeUserCommand ==
  /\ cmds # << >> /\ Receive(Head(cmds)) /\ cmds' = Tail(cmds)
  /\ UNCHANGED <<left, window, ghost>>

-----------------------------------------------------------------------------
WindowInit ==
  /\ SchedInit
  /\ cmds = << >>
  /\ window = [view |-> Published, selection |-> NewPage, requested |-> None,
               clearing |-> None, back |-> None, awaiting |-> None,
               initial |-> TRUE, closed |-> FALSE, limit |-> sched.limit]
  /\ ghost = [meant |-> [t \in Tasks |-> None], follows |-> None, haste |-> 0,
            stopped |-> FALSE]

UserMoves ==
  \/ Submit \/ SelectRow \/ PressHeader \/ WithdrawMessage \/ DismissSelected
  \/ CancelWaiting \/ ClearList \/ AdjustConcurrency \/ Close

Background ==
  /\ Turning \/ \E i \in Sessions : LaneSteps(i)
  /\ UNCHANGED <<window, cmds, ghost>>

WindowNext == UserMoves \/ ReceiveSnapshot \/ TakeUserCommand \/ Background

WindowSpec == WindowInit /\ [][WindowNext]_winVars

-----------------------------------------------------------------------------
\* Properties.

\* The conversations that hold a text, or have been sent it.
HoldsText(i, t) ==
  \/ lanes[i].view.task = t \/ lanes[i].view.queued = t
  \/ \E k \in DOMAIN lanes[i].inbox :
       lanes[i].inbox[k].task = t /\ lanes[i].inbox[k].kind \in {"start", "new", "queue"}
Holders(t) == {i \in Sessions : HoldsText(i, t)}
Entries(t) == {k \in DOMAIN sched.pending : sched.pending[k].task = t
                                            /\ ~sched.pending[k].resume}

\* A text is in one place: it waits, or one conversation has it.  Stale
\* settings (configure), a queue that is served while the user withdraws from
\* it, or a dismissal do not make a second copy of it.
OnePlace ==
  \A t \in Tasks : Cardinality(Holders(t)) + Cardinality(Entries(t)) <= 1

\* A follow-up reaches the conversation it was typed into, however long it
\* waits, if the window was up to date when it was typed (composer_target,
\* start_configured, dispatch_pending, dismiss_session).
FollowUpsArrive ==
  \A t \in Tasks : ghost.meant[t] # None =>
    /\ Holders(t) \subseteq {ghost.meant[t]}
    /\ \A k \in Entries(t) : sched.pending[k].target = ghost.meant[t]

\* The window stays with the task the user submitted last, from the queue into
\* its conversation, until he looks elsewhere or clears the list; a user who has
\* stopped a conversation may lose sight of the next (last_submission,
\* origin_pending_id, reconcile_selection).
WindowFollowsTask ==
  InStep /\ ~ghost.stopped /\ ghost.follows # None /\ window.awaiting = None =>
    LET sel == window.selection IN
    /\ \A i \in Holders(ghost.follows) : sel = Page("Session", i)
    /\ \A k \in Entries(ghost.follows) : sel = Page("Pending", sched.pending[k].id)

\* Every submission is answered: when nothing is under way between the window
\* and the scheduler, the composer knows what became of its text, whatever the
\* worker does (processed_request_id, update_snapshot).  The place of a new task
\* stays unknown only if a later submission overwrote it before the window saw
\* it (last_submission).
SubmissionAnswered ==
  InStep => /\ window.clearing = None
            /\ window.awaiting # None => sched.placed.request > window.awaiting

\* The text of a submission comes back only if it was refused: it is not
\* waiting or running somewhere (ui.rs: "Submission whose text was cleared
\* optimistically, restored if rejected").
TextReturnedIfRefused ==
  window.back # None => Holders(window.back) \cup Entries(window.back) = {}
=============================================================================
