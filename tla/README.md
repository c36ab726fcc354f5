# Longwatch, modelled and verified

Longwatch for Codex keeps one or more Codex conversations going without a person
watching: it submits a task to `codex app-server`, waits for the turn, and retries,
reconnects, resumes and recovers until the task is answered or needs its user. This
directory holds TLA+ models of that logic, the TLC runs that check them on small
instances and the TLAPS proofs of what holds for every instance. Paths below are
relative to the repository (`src/runtime.rs` and so on).

Contents: [The system](#the-system) · [What makes it hard](#what-makes-it-hard) ·
[Modules](#modules) · [The worker](#the-worker) · [The scheduler](#the-scheduler) ·
[The window](#the-window) · [The transport](#the-transport) ·
[Timers, documents, decisions](#timers-documents-decisions) · [Runs](#runs) ·
[Bounds](#bounds) · [Fairness](#fairness) · [Proofs](#proofs) ·
[What the runs found](#what-the-runs-found) ·
[Met while modelling](#met-while-modelling) · [Not modelled](#not-modelled) ·
[Plan](#plan)

## The system

| Component | State it keeps | Operations | Talks to |
| --- | --- | --- | --- |
| Queue machine, `src/queue.rs` | phase, thread and turn id, uncertainty marker, client message id, follow-up flag, typed-ahead message, next attempt, empty-reply count | pure transitions (`begin_sending`, `set_active_turn`, `schedule_retry`, `succeed`, ...) | called by the worker only |
| Worker `QueueRuntime`, `src/runtime.rs` 213-1612 | the machine, `config`, `started`, `connected`, `turn_deadline`, `resume_requested` | one Tokio task: commands, transport events, a wake poll and one timer in a `select!` | transport, its own config and state files, a watch channel to the scheduler |
| Scheduler `MultiSessionRuntime`, `src/runtime.rs` 1614-2704 | slots, pending queue, selection, `scheduler.json` | start, queue, dispatch, cancel, dismiss, prune, restore, shut down; a poll that reads the workers' snapshots | one command channel per worker, the window |
| Transport, `src/app_server.rs`, `src/transport.rs` | child process, pending requests, the writer's mutex, event channel of 128, cache of final messages | JSON-RPC requests with a 45 s timeout, a reader task, a watcher of the child, history reads | Codex |
| Classifier, `src/classifier.rs` | none | error or finished turn -> success, retry, internal retry, pause | called by the worker |
| Timing, `src/backoff.rs` | attempt ledger, wake detector | delay of the next attempt, detection of a sleep | called by the worker |
| Store, `src/config.rs` | `config.json`, `state.json`, `scheduler.json`, `sessions/<id>/` | atomic write, load, migrate, quarantine | worker and scheduler |
| Window, `src/ui.rs` | composer, pending submission, requested selection | submit and wait for the acknowledgement, choose the command a phase offers, shut down | scheduler |
| Platform crate, `crates/gpui_platform` | tray, notifications, sounds | the tray's exit (its other commands are disabled, `src/ui.rs:1117`) | window |
| Start-up, diagnostics, packaging | - | run once, or never read by the others | - |

What makes each correct:

- **Queue machine and worker.** A task whose answer exists is not sent again; one turn
  per conversation; a reported answer is the answer to the task; the text is sent to a
  conversation once and then continued; whatever may have reached Codex is recorded
  before it leaves; a task that was stopped stays stopped; a task that runs can be
  recovered; a task never waits for something that nothing will deliver; it comes to rest.
- **Scheduler.** Never more workers than `max_concurrent_sessions`; no queued task lost,
  duplicated or overtaken, also by a restart; a dismissed session stays away; what runs
  is in the list; the queue moves.
- **Transport.** Every request ends, no answer reaches the wrong waiter, events keep
  their order and none that decides a task is lost, the reader cannot be blocked for ever.
- **Classifier and timing.** A fatal error is never retried; attempts keep their
  spacing; a sleep is noticed, and nothing else is taken for one.
- **Store.** A crash at any step leaves a complete old or new file, and settings survive
  migrations.
- **Window.** A submission is answered once, its text is in one place, and a follow-up
  reaches the conversation it was typed into.

## What makes it hard

Each task of the program is sequential, but what it decides by is old: the worker's
events are about turns that may be over, the scheduler reads its workers' snapshots of a
moment ago, the window those of the scheduler, and commands travel the other way
through channels and name no conversation. Between two awaits Codex starts, ends or
loses turns, answers are lost with the pipe, another Codex client uses the same thread,
saves fail, the machine sleeps, and the process is killed between two saves.
`PROJECT.json` lists the hazards at their lines; the few without a property are known
to go wrong, or tell what the code chose (see their notes).

## Modules

| Module | Models | Depends on |
| --- | --- | --- |
| `QueueMachine.tla` | `src/queue.rs`: every transition as an operator on a record | - |
| `Worker.tla` | `QueueRuntime` with Codex, its event channel, the disk, faults and crashes | `QueueMachine` |
| `Lane.tla` | a worker as the scheduler sees it: command channel, snapshot, what a restart would find | - |
| `Scheduler.tla` | `MultiSessionRuntime`: slots, queue, limit, `scheduler.json`, restart | `Lane` |
| `LaneQueue.tla` | abstract specification: a queue served in order by a limited number of lanes | - |
| `Window.tla` | `QueueView` and the channel to the scheduler, composed with scheduler and workers | `Scheduler` |
| `Transport.tla` | `AppServerTransport`: calls, reader, watcher, pipes, the server | - |
| `Timing.tla` | delays, timers and wake detection of the worker's loop under two clocks | - |
| `Store.tla` | `ConfigStore`: one document through starts, saves, crashes, migrations | - |
| `Outcome.tla` | the classifier and what the worker does with its decisions | - |
| `MCWorker`, `MCScheduler`, `MCWindow`, `MCTransport`, `MCRules` | instances for TLC; `MCRules` checks `Timing`, `Store` and `Outcome`, one per behaviour | |
| `WorkerProofs`, `SchedulerProofs`, `TransportProofs`, `TimingProofs`, `StoreProofs`, `OutcomeProofs` | theorems | the module they name, TLAPS |
| `WindowProofs` | theorems about window, scheduler and workers together | `Window`, `SchedulerProofs` |
| `OnceProofs` | theorems about turns and answers: one at a time, each text once, and each answer to its task | `WorkerProofs` |

The worker is modelled three times, at three distances: from inside with Codex
(`Worker`), by its timers (`Timing`), and from outside as a lane (`Lane`). The lane may
do whatever the inner worker may do to its phase, its text, its counters and its files;
a refinement between them is not stated, because the inner worker submits a text once
and has no request counters.

A definition whose comment says "Mutant of" is not part of any specification: it is
the form the definition below it would take with a plausible bug, kept to show that
the property named for it in `PROJECT.json` fails then.

## The worker

**State.** `w` is the worker's memory: the machine `w.m`, the fields of `QueueRuntime`
that steer it, and `w.pc`, the await it stands at (`"loop"` is the `select!`). `disk` is
the session's `config.json` (`prompt`) and `state.json` (`state`, `digest`). `events` is
the transport's channel. `turns` is what Codex knows: a turn's id is its index, and it
carries its thread, its client message id, the task, whether it was sent as the original
text or as a continuation, and its outcome. `wire` is the `turn/start` under way.
`reported` and `userStopped` are history variables.

**Actions.** One per command (`StartConfigured`, `StartNewConfigured`, `Resume`,
`QueueMessage`, `ClearQueued`, `PauseTask`, `Stop`, `Reset`, `Shutdown`, `Configure`,
`SaveAgain`), one per reply the worker awaits (`ConnectReply`, `CreateReply`,
`ResumeReply`, `ResumeFails`, `SubmitReply`, `SubmitFails`, `InterruptReply`), one per
event (`OnTurnStarted`, `OnError`, `OnTurnCompleted`, `OnSystemError`,
`OnDisconnected`), the timer (`HandleDeadline`) and the restart. A handler is one action
up to its next await. Two places are split although nothing is awaited there, because a
crash between their saves matters: before the write-ahead marker (`Mark`) and between
the two saves of a typed-ahead message (`Handover`). The split leaves a step where
another actor may move; what Codex does there is also possible just before or after.

**Codex** accepts what is on the wire, ends turns, sends notices, breaks threads
(`systemError`) and may be used by another client. After a crash, a request already
written may still be accepted until the restart, and a turn may go on: a superset of
what a killed app-server can do.

**Faults** are drawn from a budget (`MaxFaults`), each one of `FaultNames`. Continue and
Quit are counted in the same budget, since the user could otherwise repeat them for ever.
A timer that ends a turn Codex will say no more about is not a fault; one that ends a
turn that would still speak is (`expire`).

**Abstractions.** Time is not measured here: a timer may fire as soon as it is set.
A task text is a model value and submitted at most once, so the shortcut of
`handle_configure` for an unchanged configuration is not exercised. Turn ends are the
classes that `classify_turn_completion` and the retry bookkeeping tell apart.
`NotConnected` cannot reach `handle_transport_failure`, because `connected` follows the
transport's flag. `ScheduleRetry` keeps that a next attempt is set, not when. The
`"unoffered"` command lets an outdated window send commands in phases in which the
window does not offer them.

## The scheduler

**State.** `sched` is the scheduler's memory: `slots` with the snapshot it last copied
(`snap`), `assigned`, the request counter it waits to see exceeded (`base`), the queue
entry it serves (`origin`); the queue; the selection; the limit; the last accepted and
processed request. `lanes` are the workers with their command channels and files, `disk`
is `scheduler.json`, and `pc` says where a turn of `run` is.

**One turn** is: a command (`Receive`, with one operator per command) or the poll;
`RefreshWorkers`; `dispatch_pending`, one entry of the queue per step (`Detach`,
`DispatchTarget`, `DispatchNew`); `DispatchDone`, which saves. The workers move between
these steps but not while the scheduler dispatches: it reads nothing of theirs then, so
that such a step can be taken to come before or after. The commands do not overlap with
anything inside the scheduler; they overlap with the workers, whose answer to a command
is seen only by a later `RefreshWorkers`.

**A lane** takes a command (`Taken`, up to the handler's first await), returns from it
(`Finished`), or its task ends (`Progressed`). What Codex does is in how a running task
may end. Snapshots are published at once and copied late.

**The abstract specification** `LaneQueue` has three variables: what waits, which lanes
run as far as the scheduler knows, the limit. Only the head may leave to be started, only
into its own lane or any if it is free, and only within the limit; entries leave otherwise only
because they are withdrawn; a restart keeps the queue. `ServesInOrder` is the refinement
(`INSTANCE LaneQueue WITH`), checked by TLC on every step of the scheduler. It is about the
scheduler's idea of its workers; `WithinLimit` ties that idea to the workers themselves.

**Restart.** `CrashAndRestart` happens between two turns, when no command is under way
to a worker; the crash in the middle is left out, see [Met while modelling](#met-while-modelling).
`Initialize` is `initialize` and `spawn_runtime` over all sessions.

## The window

`window` is what `QueueView` keeps: the last snapshot it took, its selection, the
selection it has asked for, the request of the cleared text (`clearing`), of the task it
waits to see placed (`awaiting`), and the text that came back (`back`). Snapshots
overwrite each other: `ReceiveSnapshot` takes the newest. `cmds` is the bounded channel
to the scheduler; `try_send` drops what does not fit.

`UpdateSnapshot` is `update_snapshot` in its order: answer to the submission, place of
the new task, the snapshot itself, first selection, reconciliation. The user's acts are
one action each. They are made on what the window shows; how many of them come before it
is up to date is bounded by `MaxHaste`. `ghost` is history: which conversation the user
typed a text into, which task he follows.

## The transport

Per connection, `rpc` is Longwatch's side (pending requests, the writer's mutex, the cache
of completed messages, the event channel, where reader and watcher are) and `srv` the
child: what is in its stdin and stdout, whether a line was cut short, what it has said.
`caller` is the worker: it makes one call at a time, in the stages locking, writing and
waiting, and takes events when it has no call. An interrupt may be dropped at any of them
(`GiveUp`: the five seconds of `interrupt_turn` in the worker). Connecting is a call, then a
notification; shutting down takes the mutex, closes stdin, kills the child and clears.

The server answers in its own time or never, says what its theme allows, asks, and may end
at any moment; it is external, modelled from how `src/` uses it. A line that cannot be read
ends the reader while the child lives on (`ReadBroken`, `src/app_server.rs` 310-317): it
sends `Disconnected` with the error, then the one that follows every end of the reader
(`ReaderEof`), then fails what is pending.

## Timers, documents, decisions

`Timing` has two clocks; sleep moves the wall clock on and, depending on the platform, the
monotonic one (`clock.counted`). A retry is due by the wall clock, a turn is given up by
the monotonic one, and the loop's timer counts by the monotonic one. `loop.at` says which
await the loop is in, `base` is the baseline of the wake detector. Every handler that
resets the baseline does so here, and those that do not do not. A turn that completes, in an
event, after its text was looked for or when a thread is resumed, ends in rest, in a retry or
in the next task: `QueuedMessage` is `start_queued_message`, which sends at once on a
connection that is there. `loop.tried` is `last_attempt_started`; it is set by `HandleDeadline` alone, as it is in the code by
`ensure_connection_and_thread` alone, and what a message typed ahead begins leaves it as it
was.

`Store` follows one document of one kind from directory to directory: found, loaded or
quarantined, migrated, changed, and written by the four steps of `atomic_write_json`, each
of which may fail or be the last before a crash. A loss of power takes what was not
synced, and a renamed file may come back under its old name because the directory is not
synced (`disk.maybe`).

`Outcome` has the classifier's three entry points over every combination of signs that
an error can carry, and the counter of empty replies that the worker keeps for it.

The three have nothing in common but the worker that `Worker` models; `MCRules` checks
them in one run, each behaviour belonging to one of them. The theorems are about
`TimingSpec`, `StoreSpec` and `OutcomeSpec`, whose steps are those of `MCRules`.

## Runs

| Run | Question | Properties |
| --- | --- | --- |
| `worker_faults` | Two of any faults but a crash, every command, including those not offered | `TypeOK`, `NoStall`, `NeverDies`, `WriteAhead` |
| `worker_once` | Crashes, lost replies, lost notifications, interruptions by the user | `NoRepeatAfterAnswer`, `AtMostOneInFlight`, `StaysStopped`, `Recoverable` |
| `worker_answers` | Failures of Codex and the connection, with fairness | `AnswerBelongsToTask`, `NeverVerbatimTwice`, `Settles` |
| `scheduler` | Submissions, resumes, dismissals, quitting, a crash, under limits of one and two | `TypeOK`, `WithinLimit`, `ServesInOrder`, `DismissedStaysAway`, `NothingHidden`, `QueueMoves` |
| `window` | Window, channel, scheduler and workers, with a user one act ahead of his window | `WindowTypeOK`, `OnePlace`, `FollowUpsArrive`, `WindowFollowsTask`, `SubmissionAnswered` |
| `transport` | Timeouts, late answers, dropped interrupts, a full channel, unreadable lines, a dying child, two connections, two turns with items of every phase | `TransportTypeOK`, `OwnAnswer`, `NothingLost`, `StreamIsHistory`, `CallsEnd`, `AsksAnswered` |
| `rules` | Timers under sleep, a document under crashes, decisions on errors | `SpacingKept`, `WakeRespected`, `NoFalseWake`, `DocumentWhole`, `SettingsStick`, `FatalStops`, `EmptyBounded` |
| `resend_after_busy` | violation | `NoRepeatAfterAnswer` |
| `older_answer` | violation | `AnswerBelongsToTask` |
| `lost_text` | violation | `Recoverable` |
| `continue_stuck` | violation | `ContinueCarriesOn` |
| `text_returned` | violation | `TextReturnedIfRefused` |

What the passing runs leave out on purpose:

- `worker_faults` leaves out the crash, which the proofs of its properties include.
- `worker_once` leaves out the retryable RPC error (`busy`, see `resend_after_busy`), a
  task started by `StartNewConfigured` (see `lost_text`), failing saves, with which
  nothing is recoverable, messages typed ahead, whose two saves a crash may come between
  (see below), and `unread`, `system`, `foreign`, `deleted` and `oldServer`. With `unread`
  a history that cannot be read after a failed interrupt lets a second turn be sent beside
  the first.
- `worker_answers` leaves out `stop`, after which a new submission may adopt the old turn
  when the interrupt failed; the crash (see `older_answer`); `foreign`, the turn of another
  client, which a submission may adopt as well; and timeouts and `system`, after which
  the text is sent again verbatim (see below).
- `scheduler` leaves out Stop and messages typed ahead, with which the limit can be
  exceeded (see below); the other commands are in `window`, without the crash.

So each of these properties holds under the listed faults and not under all. The ones
that hold under all are proved, and `StaysStopped`, `Recoverable`, `AtMostOneInFlight`,
`AnswerBelongsToTask`, `NeverVerbatimTwice`, `NoRepeatAfterAnswer`, `WithinLimit` and
`ServesInOrder` for all but those that break them.

Some properties have a condition of their own. `FollowUpsArrive` is about texts typed
while the window was up to date. `SubmissionAnswered` excepts the place, not the answer, of
a new task that a later submission overtook. `WindowFollowsTask` excepts a user who has stopped a
conversation. `StreamIsHistory` excepts turns that mix partial answers with messages
without a phase, where the two rules of the code really differ. `AsksAnswered` excepts a
connection whose pipe holds half a line, and one whose reader has ended, where only the
worker's shutdown frees the child. `SpacingKept` is about the attempts that
`ensure_connection_and_thread` begins, also when a message typed ahead was sent between
them; of the attempt that `start_queued_message` begins it does not hold (see
[Met while modelling](#met-while-modelling)). It excepts a second attempt that the user asked
for with Retry now, and that of a message typed ahead for which there is no connection, which
is due at once. `NoFalseWake` excepts the two awaits after which the code does not reset the
baseline (`hist.excused`).

## Bounds

**Worker.** Two tasks are enough for an earlier answer to be mistaken for a later one and
for a message typed ahead; two faults for every finding below, and for a fault while
recovering from a fault; `worker_once` takes three. `MaxEmpty = 1` lets one empty reply be retried and the second
pause. Tasks are symmetric in the safety runs; `worker_answers` checks liveness and
uses no symmetry.

**Scheduler and window.** Three texts (`MaxTask`) fill two lanes and leave one waiting, or
one lane and leave two waiting; `MaxSession = 4` is one conversation per text and one
more, so that ids never run out before texts do; limits of one and two, changeable in
`window` and by the restart; `MaxFinished = 1` instead of the program's number lets pruning
happen. One command besides the submissions and one crash; `Channel = 2` lets a command
be dropped; `MaxHaste = 1` is one act on an outdated window. A task ends by its answer
(`Endings`). The `scheduler` run has 290 330 states. Larger instances were checked once,
without a cfg here: safety of the scheduler with all endings and two commands (897 681
states), and the window with two commands and other mixes of `Asked` (9.2, 3.6 and 2.7
million states), and with two and three hasty acts (3.6 and 9.5 million states), where a
place that the window awaits can be overwritten by that of a later submission; the
theorems hold for any number of them.

**Transport.** `EventRoom = 1` instead of 128, so that the channel is full after one event;
two connections, so that a late answer finds a later one; `MaxTurn = 2`, so that a message
or a completion of an earlier turn can be taken for one of a later one; all four phases an
item may have. `MCThemes` says what one behaviour has of everything else, because all of it
together is too much: three calls, so that a call follows one that was given up, while
the server says two things that are events and deltas, or questions, events and lines
that cannot be read; two messages of the agent before a completion, on one call, where the
rule of the stream and that of the history are compared over every pair of phases; and
messages and completions over two calls. The run has 1 302 281 states.

**Rules.** The durations are scaled but keep the order of the program's:
`Spacing < Poll <= Tolerance < Gap < WakeDelay`. `Sleeps` has one sleep below the gap and one
above; `MaxTime` leaves room for a sleep, the wake delay and an attempt after it, and for
several turns and messages typed ahead without a sleep. The run has 3.9 million states. Two
saves and three starts would repeat what one save and three starts show: first start of a new
release, restart, restart after a crash.

`CHECK_DEADLOCK FALSE`: a worker at rest with no fault and no new text left really has
no step; quitting stops the scheduler and the window; the bounds on calls, time, starts
and failures stop the others.

## Fairness

- `FairSpec` (worker): weak fairness of `WorkerStep` (Tokio keeps scheduling a task that
  is ready, and a restarted Longwatch runs), of `ServerAccepts` and of `TurnEnds` (Codex
  answers and finishes turns). A request that gets no answer times out; writing it has no
  timeout, so that this assumes that the pipe takes a line in the end. Nothing is assumed
  of the user, of events arriving or of faults, whose number is bounded. `Settles` needs
  the turn deadline: without it (a mutant) a turn whose end is not announced is waited
  for indefinitely.
- `FairSchedSpec`: weak fairness of `RefreshWorkers` (the poll) and of `Dispatching`; for
  each worker strong fairness of taking and finishing commands, because its steps are
  disabled while the scheduler dispatches, which Tokio's threads do not do to it. Nothing
  is assumed of running tasks: `QueueMoves` holds although a task may run for ever.
- `FairTransportSpec`: weak fairness of the current call (time passes), of a shutdown, of
  taking events and of the readers; of the server only that it takes a line in the end.

## Proofs

All proofs are for every value of the constants that the named assumptions allow, which
TLC evaluates on every run.

`WorkerProofs.tla`, for every set of tasks, commands and faults and every bound:

- `TypeCorrect`: `Spec => []TypeOK`. First every operator of `QueueMachine` and every
  pure step of the worker is shown to keep its type, then every action.
- `WriteAheadCorrect`: `Spec => []WriteAhead`. `WriteAhead` alone is not inductive: a
  save by another handler while a request is under way could erase the marker.
  `WriteAheadInv` adds that a request is on the wire only while the worker awaits its
  answer or is dead, when nothing is saved.
- `NoStallCorrect` and `NeverDiesCorrect`, from one invariant `ReadyInv`. `Ready(w)` says
  what each await needs of the memory: a known thread and no active turn before a
  submission, no started task behind an interrupt. `Placed` says that every event is
  about a turn Codex has and that every turn is in a thread that has a name; without it a
  finished turn could hand over to a worker without a thread, which would then wait
  without a timer.

In the same module, what survives on disk: for every set of tasks and every bound, and all
faults but a disk that refuses to save, with which neither can hold:

- `StaysStoppedCorrect`, from `StoppedInv`: after Pause, Stop, Reset or Quit the worker
  is in one of five places (`loop`, the three interrupts, down), with no request on the
  wire and no running phase in memory or on disk. The disk is the part that
  `StaysStopped` lacks: a restart picks up what it finds there. That nothing is under way
  when the user's command is taken is `WriteAheadInv`.
- `RecoverableCorrect`, also without `StartNewConfigured` (see `lost_text`), from
  `KeptInv`, which adds that the text in memory is the one in `config.json` while a
  task is not running either, except after a restart that found nothing to recover
  (`Empty`). `Settled` and `Fine` say what each handler must leave; that a message typed
  ahead saves its text before its state is the one case between them. `ReadyInv` is
  needed, because a worker that died would keep a task that no restart picks up.

`OnceProofs.tla`, for every set of tasks and every bound:

- `AtMostOneCorrect`, for every command and every fault but `unread`, from `SingleInv`.
  Nothing in the code says that a worker sends only into an idle conversation: it knows of
  one turn, and Codex may have lost its notices. `Sure` says when the worker does know,
  wherever it stands at a submission, in a retry or in front of a timer: no turn of its own
  runs in its conversation but the one it holds. `LastRunning` says that a running turn is
  the last of its conversation, which is why reading the latest one tells all, and
  `EndingsTrue` that an end in the event channel is a real one. With `unread` the reading
  that `Sure` rests on fails.
- `AnswersCorrect`: `AnswerBelongsToTask`, for every command but Stop and those of an
  outdated window, and every fault but `foreign`, `oldServer`, `disk` and `crash`, from
  `AnswerInv`. `Serves` says that what the worker can tell a turn by (the id it holds, the
  client message id, being the one that runs) leads to a turn of the task in memory;
  `Stage` where in the handlers it may stand with which of them, above all that a
  new text is taken only in an idle conversation and without the earlier text's
  id; `Wired` that the request on the wire is of that text. Timeouts, lost notices, refused
  and repeated requests, deleted threads and unreadable histories are all allowed. Each
  of the six exclusions is necessary: with any one of them back, TLC finds an answer
  reported for another task (three faults are enough).
- `NeverVerbatimTwiceCorrect`, for every command the window offers and every fault but
  `timeout`, `garbled`, `system` and `crash`, and without `disk` and `shutdown` together,
  from `VerbatimInv`. Nothing records that Codex has the text: the worker repeats it
  unless `retry_as_follow_up` is set, which some handlers do when they give up a turn.
  `GoesOn` says why a text that Codex has (`SentIn`) is never repeated, wherever the
  worker stands: the flag is set, or a turn is held that sets it when it is given
  up, or the request on the wire became that turn, or the task is over. `Unsent` says
  that the texts still to come (typed ahead, replacing the task, not yet submitted) are
  not in any conversation, so that they need no flag. The other faults, also `foreign`,
  `unread`, `deleted`, `oldServer` and `disk`, are allowed. Each exclusion is
  necessary: with any one of them back, and with `disk` and `shutdown` together, TLC finds
  a text sent twice (three faults for `garbled`, two for the others).
- `NoRepeatAfterAnswerCorrect`, for every command the window offers, through timeouts,
  garbled answers, lost notices, refused requests, reconnections, old servers and crashes,
  from `RepeatInv`. Here a text may be sent again (`NeverVerbatimTwice` fails with
  `timeout`), but not while an earlier turn for it is answered or still running (`Alive`):
  `Bygone`, which is stronger than the property, since an answer may come after the second
  text. `Minds` says why: the flag is set, or the one turn that is alive is the
  latest of its conversation, carries the client id in memory and is asked about first
  (`Owes`). `Heeds` says what each stage of a submission may rely on, `OnWire` that a
  request which is not a turn yet has no rival, and `Filed` that what a restart would read
  minds the same turns, and names the request on the wire before Codex has it: the
  write-ahead protocol as an invariant. With crashes, the theorem leaves out messages
  typed ahead and Start new, whose text and state are saved one after the other;
  `KeptInv` says that in all other handlers the two belong together. The other exclusions are
  `busy`, `unread`, `system`, `foreign`, `deleted` and `disk`. Each is necessary: with any
  one of them back, or with `crash` and either of the two commands, TLC finds an answered
  text sent again (four faults for `disk`, with a shutdown; at most three for the others).

`TimingProofs.tla`, for all durations in the assumed order, any number and length of sleeps
and both kinds of monotonic clock: `SpacingKeptCorrect`, `WakeRespectedCorrect`,
`NoFalseWakeCorrect`, from `TimingInv`. The difficulty is that a retry is due by one clock
and waited for by the other. The wall clock never advances less than the monotonic one, so
the timer is never shorter than what is left by the wall clock (`TimerRight`), and a retry
that was spaced by the monotonic clock is spaced by the wall clock (`RetrySpaced`,
`AttemptKnown`). `SpacingKeptCorrect` claims no more than `SpacingKept` does: the attempt of
a message typed ahead is not one of those that `retry_delay` counts from. For sleep, the invariant says what the detector will still see of it, or
that the delay has already been added (`WakeKnown`), and that the baseline is no older than
a poll.

`StoreProofs.tla`: `DocumentWholeCorrect`, from `StoreInv`: every copy that a start may
find, the one in place and those that a loss of power may bring back, is whole, synced and
of a version that can be read, and so is the temporary file once it may be renamed.
`SettingsStickCorrect`, from `StickInv`: the file that the next start takes means what the
last save left, and settings that are written and read again are unchanged (`Stable`), so
that a migration is not applied twice.

`TransportProofs.tla`: `OwnAnswerCorrect`, from `TransportInv`: an id is used once, so that
the line that carries it, the server's answer to that line and the call that waits for it
have one serial number, in every pipe and on every connection.

In the same module `TransportTypeCorrect`, and `NothingLostCorrect` from two more
invariants. `Links` says which parts of a connection are still alive, so that the reader of
a connected worker was never cut off and nobody else takes from its pipe; `Streamed`,
that what the worker heard, what the channel holds and what is still to be read are
together what Codex said. They are compared by their gist (`Brief`), a recursive
function on sequences; what it makes of `Append`, `Tail` and `\o` is derived from its
definition by induction on an interval (`UpTo`).

`StreamIsHistoryCorrect` adds `AllWell`, of every connection, in use or aborted. The reader
keeps one text and one flag per turn, the history has all the items; so the invariant says
up to which place `n` of what was said the reader has come (`Remembered`). What it keeps of
a turn is the last final answer up to `n`, or else the last item that is no comment
(`Kept`), and the pipe holds the rest in order, with nothing of a turn behind its completion
(`Piped`). A turn whose completion has been read is forgotten and not asked for again. When
the completion is read, every item of its turn has been, so `Kept` chooses what
`ExtractFinalMessage` does unless phases are mixed (`KeptIsHistory`); an event that was sent
stays true, because nothing is said of a turn after its completion (`TellsOn`).

`SchedulerProofs.tla`, for any number of conversations, tasks, commands and crashes, every
set of limits and every bound on finished conversations:

- `TypeCorrect`, `NothingHiddenCorrect` and `DismissedStaysAwayCorrect`, for every command,
  from `Standing`. `TypeOK` says that every slot has a live worker; what makes it inductive
  is that no such worker has been told to end (`Housed`), and that every worker without a
  slot has, or has ended with nothing left to recover (`Away`). Of the queue, that its ids
  are below the next one (`Numbered`).
- `WithinLimitCorrect` and `ServesInOrderCorrect`, the refinement of `LaneQueue`, for every
  command but Stop and messages typed ahead, from `Watched` and `Backed`. The scheduler
  decides by old snapshots, so the invariant has to say what an old snapshot is still worth:
  a slot that waits for its worker's request counter (`base`) has exactly one start
  outstanding, or a counter that is one further and nothing outstanding, and a slot that
  waits for nothing has a worker to whom no start is under way (`Attended`). So a worker
  that runs or will is one whose slot is taken (`LiveActive`), and the limit on slots is
  one on workers. `Backed`, that `scheduler.json` holds the queue whenever a turn ends, is
  what makes a restart a step of `LaneQueue`. The two exceptions are necessary: with either
  of them TLC finds both violated: a slot is freed while a start is under way (see
  [Met while modelling](#met-while-modelling)).

The handlers are functions from the scheduler's memory and its workers to the next, and
each is shown once to do one of the few things `LaneQueue` allows (`Outcome`).

`WindowProofs.tla`, about the window, the channel, the scheduler and all its workers at
once, for every number of texts, conversations, commands and hasty acts, every command
including Stop and messages typed ahead, and every capacity of the channel:
`WindowTypeCorrect`, `OnePlaceCorrect`, `FollowUpsArriveCorrect` and
`SubmissionAnsweredCorrect`, from one invariant, `Inv`. It needs `Standing` and `Backed`
of the scheduler, but nothing of what the slots tell of the workers: a text is in its
place whether or not the scheduler knows what its worker does. `Whole` says the rest:

- `Single`, that a text is in one place. A conversation has a text (`Has`) also when only
  the scheduler's copy of its snapshot does, because Configure sends that text to the worker
  again; `OnePlace` without this is not inductive. Every handler is shown to do one of
  three things to the texts: to let some go (`Drops`), to give one to a conversation
  (`Gives`), or to append one entry to the queue (`Queues`). A submission `Travels`: what
  arrives was nowhere before, which is `Frontier`.
- `Frontier`: texts are numbered as they are typed, the scheduler answers them in this
  order, and has none beyond the last that it answered.
- `Awaits`: what the window waits for, its snapshot does not answer, and the scheduler
  either has answered it or will find it in the channel.
- `Homes`: a follow-up that was meant for a conversation is there or waits for it, or it
  is the next command and that conversation is still selected: between the two, the
  window can only append.
- `Bound`: the selection and the targets of the queue are conversations in the list.
  Dismissal and pruning withdraw the entries of what they remove, so that without a restart
  `dispatch_pending` never meets a target that is gone (`Detach`).

The theorems are about one start of the program, as `WindowNext` is: a restart empties
the window.

`OutcomeProofs.tla`: `EmptyBoundedCorrect` (the worker's count includes every empty answer
that was sent again) and `FatalStopsCorrect`.

Each invariant was checked by TLC before it was proved.

Only model-checked:

- `WithinLimit` and `ServesInOrder` of a user who types ahead; they fail, as said above.
- `WindowFollowsTask`, which relates the selection to what every snapshot on the way showed,
  and excepts users who stop a conversation. Its invariant would have to say which
  conversation every selection and Resume in the channel will meet, and what each worker
  still has in its inbox; `Whole` only follows the texts.
- All liveness, which rests on ENABLED.

## What the runs found

1. **`resend_after_busy`.** A `turn/start` times out after Codex accepted it. The worker
   reconnects, and `thread/resume` is refused with a retryable error. `schedule_retry`
   clears the uncertainty marker, so the following resume owes no outcome and the
   answered task is sent again. `README.md:258` says it never runs twice.
2. **`older_answer`.** The crash between the two saves of `send_attempt` leaves a
   follow-up in phase `Sending` without a client message id. The restart cannot tell
   whose the latest turn is and reports the previous task's answer, which `README.md:211`
   excludes.
3. **`lost_text`.** `handle_start_new_configured` does not save the configuration.
   `README.md:238` says the text is there for a restart.
4. **`continue_stuck`.** After a turn that failed with a quota or unknown error, Continue
   (`README.md:99`) only reads the same failed turn again and pauses.
5. **`text_returned`.** The scheduler publishes a submission as processed as soon as it has
   passed it on; the window takes "processed and not accepted" for a refusal and puts the
   text back into the composer, while the worker is still connecting for it
   (`src/ui.rs:1013`, `src/ui.rs:284`). Sent again, it would run twice.

## Met while modelling

Without a run of their own, because they are consequences of a choice, need a step the
models leave out, are small, or contradict no text of the repository.

*Worker.* `ThreadSystemError` clears the active turn before `schedule_retry` looks for it,
so the retry repeats the whole text (`src/runtime.rs:1012`, against the comment at 2743;
`NeverVerbatimTwice` fails with the fault `system` alone). A history that cannot be read
counts as one without a turn (`src/runtime.rs:754-763`): after an interrupt that failed, the
next attempt is sent beside the running turn (`AtMostOneInFlight` with `expire`, `interrupt`
and `unread`, against `README.md:258`). A typed-ahead text is saved as the prompt before the
state that no longer has it is (`src/runtime.rs:1155`): a crash between them, on a state
that waits for a retry, leaves it as both, and it is sent, answered and sent again
(`NoRepeatAfterAnswer` with `timeout` and `crash`, three faults, against `README.md:257-258`). A
submission after Stop adopts a turn whose interrupt failed. A failed turn without text
counts as an empty reply. A late `systemError` hits whatever turn is active then.

*Scheduler.*
- A message typed ahead can reach a worker whose task has just ended. The worker refuses
  it but counts the request. If the scheduler has meanwhile, on a snapshot that says
  Success, reserved the slot with the old counter and sent a start, `refresh_workers`
  takes the refusal for the start and frees the slot while the start is still under way:
  more conversations run than the limit says (against the comment on
  `assignment_processed_count`, `src/runtime.rs` 1698-1702). Stop frees the slot at once,
  on an old snapshot, with the same effect. A message typed ahead and then Stop leaves it
  stranded.
- A crash between a dispatch and the save of `scheduler.json` (`src/runtime.rs:2399`) loses
  the entry if the worker had not yet saved, or starts it twice if it had.
- A Resume that an idle worker refuses still counts as an assignment until its snapshot
  shows an end, so that an Idle one keeps its slot.
- An error of saving `scheduler.json` leaves `run` through `?`, without `shutdown_all`.
- A head of the queue that is bound to a busy conversation holds everything behind it up,
  although `StartNewConfigured` of a new task may overtake it.
- Configure carries the text of the last snapshot, which may be an older one.
- A command that arrives before the first poll after a restart is served before the
  restored queue.
- `ClearFinished` removes failed conversations too (`src/runtime.rs:1728`); the window's
  button and `README.md:87` speak of finished ones (`src/ui.rs:2882`).

*Window.* Commands name no conversation: a selection that is dropped or still under way
sends the next command to another one (`src/ui.rs:333-334`, 383-390), which is what
`MaxHaste` and the condition of `FollowUpsArrive` are about. A second submission
overwrites the pending answer of the first, and its placement that of the first
(`last_submission`): a window that missed the first placement goes on waiting for it.

*Transport.*
- The worker gives up an interrupt after five seconds; if it was being written, half a
  line stays in the pipe and the next request is glued to it (`srv.torn`), against the
  comment near `src/app_server.rs:380`. A dropped interrupt also leaves its entry in `pending`.
- A reader that waits for room in the event channel delivers no answers, while the worker
  that would make room waits for one: the request times out although it was answered
  (`src/app_server.rs:1045`).
- Writing has no timeout: if the server in turn does not read, worker, reader and server
  wait for each other, and a shutdown waits for the writer's mutex.
- The watcher's `Disconnected` may overtake events that are still in stdout.
- The stream and the history choose differently between a partial answer and a message
  without a phase.

*Timing.*
- When a turn succeeds, the message typed ahead is sent by `start_queued_message`
  (`src/runtime.rs:1157`), which does not renew `last_attempt_started`. If its request fails
  at once, `retry_delay` counts from the turn before, which may be long ago, and the next
  attempt follows without a pause, against `README.md:228` and 261 and the comment at
  `src/backoff.rs:8`, by which two attempts of a task are at least 2 seconds apart. It happens
  once per message, since that next attempt renews the time. `SpacingKept` leaves the
  attempt of such a message out; if `HandedOver` sets `hist.attempt` as well, TLC finds
  `SpacingKept` violated in seven states. With no connection the message's attempt is due at
  once in the same way.
- A sleep during an await is swallowed by `reset_wake_baseline`: a retry follows at once
  after the wake. So does one whose turn fails before the wake was seen
  (`src/runtime.rs:1383`, `README.md:46`, 230, 273).
- `fetch_turn_message` and the fallback for a missing thread do not reset the baseline: a slow
  answer looks like a wake and delays the retry by a minute.
- `RuntimeCommand::Wake` is never sent. A step of the wall clock moves a retry.

*Classifier.* Interrupted and failed turns without text count as empty replies
(`src/runtime.rs` 1102-1105), and only a success resets the count, so that the first really
empty reply may pause the task with a message that speaks of several in a row
(`src/classifier.rs:87`, `README.md:158`, 224).

*Store.* The directory is not synced after the rename: a loss of power may bring the
previous document back. `SettingsStick` allows that.

## Not modelled

- `Start`, `StartConfigured` and `Wake` of the scheduler, which the window never sends;
  `RetryNow` in `Scheduler` and `Window`, where it is only passed on to the selected worker
  (`Timing` has it there; in `Worker` a timer may fire as soon as it is set); `OpenResult`,
  which changes no state;
  `auto_send_default_prompt`; the displayed conversation, notices and alerts;
  `AttemptLedger`, which feeds a display.
- The crash between the two saves of `handle_configure`, and that inside a turn of the
  scheduler.
- Building requests, finding the executable, the model catalogue, stderr; validation of
  settings.
- Tray, notifications, sounds, drawing, settings pages, diagnostics, packaging: calls into
  the operating system and wording, with no protocol of their own.

## Plan

Done: `QueueMachine`, `Worker`, `Scheduler` with `LaneQueue`, `Window`, `Transport`,
`Timing`, `Store`, `Outcome`, and the proofs above. What could follow, in this order:

1. A proof of `WindowFollowsTask`.
2. A crash inside a turn of the scheduler, as a run of its own.
3. The refinement between `Worker` and `Lane`, which needs request counters in `Worker`.
