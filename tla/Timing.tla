------------------------------- MODULE Timing -------------------------------
(***************************************************************************)
(* When a worker attempts again: RetryPolicy, retry_delay and WakeDetector *)
(* in src/src/backoff.rs, and the timers of QueueRuntime's loop in         *)
(* src/src/runtime.rs.                                                     *)
(*                                                                         *)
(* Two clocks run.  A suspended machine moves the wall clock on; whether   *)
(* it moves the monotonic one depends on the platform.  A retry is due by  *)
(* the wall clock, a turn is given up by the monotonic one, and the loop,  *)
(* which is prompt, sleeps by the monotonic one.                           *)
(***************************************************************************)
EXTENDS Integers, FiniteSetsExt

CONSTANTS Spacing,      \* MIN_RETRY_SPACING (2 s)
          Poll,         \* wake_poll (10 s)
          Tolerance,    \* of WakeDetector (20 s)
          Gap,          \* max_normal_observation_gap (45 s)
          WakeDelay,    \* wake_delay (60 s or more)
          RequestTime,  \* REQUEST_TIMEOUT (45 s)
          TurnTime,     \* turn_timeout_secs (60 s or more)
          Sleeps,       \* bound: how long the machine may sleep
          MaxSleep,     \* bound: how often
          MaxTime       \* bound: the wall clock

ASSUME TimingAssumption ==
  /\ Spacing \in Nat /\ Poll \in Nat /\ Tolerance \in Nat /\ Gap \in Nat
  /\ WakeDelay \in Nat /\ RequestTime \in Nat /\ TurnTime \in Nat
  /\ Spacing <= Poll /\ Poll <= Tolerance /\ Tolerance < Gap /\ Gap < WakeDelay
  /\ Sleeps \subseteq Nat /\ MaxSleep \in Nat /\ MaxTime \in Nat

VARIABLES
  clock,  \* the two clocks, and whether the monotonic one counts sleep
  loop,   \* the worker: where its loop is, its phase and its timers
  hist    \* history: when ensure_connection_and_thread last began an attempt,
          \* whether the user asked since, the last sleep, what excuses a wake

timingVars == <<clock, loop, hist>>

Never == -1

\* How long the loop may await in each place.  At "select" it awaits everything.
Await == [connect |-> RequestTime, thread |-> RequestTime, fallback |-> RequestTime,
          send |-> RequestTime, fetch |-> 2 * RequestTime, interrupt |-> Poll \div 2]
Places == DOMAIN Await

-----------------------------------------------------------------------------
\* Mutant of RetryDelay: a failed attempt is followed at once.
RetryDelayNone == 0

\* retry_delay, by the monotonic clock.
RetryDelay ==
  IF loop.tried = Never THEN 0 ELSE Max({0, Spacing - (clock.mono - loop.tried)})

\* WakeDetector::observe: what it says, and its new baseline.
WakeSeen ==
  LET wall == clock.wall - loop.base.wall
      mono == clock.mono - loop.base.mono
  IN wall > mono + Tolerance \/ wall > Gap
Observed(l) == [l EXCEPT !.base = [wall |-> clock.wall, mono |-> clock.mono]]

\* Mutant of ResetWakeBaseline: the time spent waiting for an answer counts.
ResetWakeBaselineNot(l) == l

\* reset_wake_baseline
ResetWakeBaseline(l) == Observed(l)

\* apply_wake_delay: a retry waits, and so does the deadline of a turn.
ApplyWakeDelay(l) ==
  IF l.phase = "Waiting"
  THEN [l EXCEPT !.deadline = Max({@, clock.mono + WakeDelay})]
  ELSE [l EXCEPT !.next = Max({@, clock.wall + WakeDelay})]

\* next_deadline, worked out again whenever the loop comes round.
NextDeadline(l) ==
  IF l.deadline # Never THEN l.deadline
  ELSE clock.mono + Max({0, l.next - clock.wall})
ToSelect(l) == [l EXCEPT !.at = "select", !.timer = NextDeadline(l)]

\* schedule_retry and schedule_connection_retry: phases Backoff and Connecting
\* wait in the same way.
ScheduleRetry(l) ==
  ToSelect([l EXCEPT !.phase = "Backoff", !.deadline = Never,
                     !.next = clock.wall + RetryDelay])

\* The turn runs, and its deadline with it.
TurnRuns(l) ==
  ToSelect([l EXCEPT !.phase = "Waiting", !.next = Never,
                     !.deadline = clock.mono + TurnTime])

\* The task succeeded, was paused or cannot go on.
AtRest(l) == ToSelect([l EXCEPT !.phase = "Done", !.deadline = Never])
Begin(l, place) == [l EXCEPT !.at = place, !.left = Await[place], !.timer = Never]

Excused(h) == [h EXCEPT !.excused = FALSE]
Settled(h) == [h EXCEPT !.woke = Never]

\* start_queued_message: a message typed ahead is sent at once, or is due at once
\* if there is no connection.  Neither is a new attempt to retry_delay, which
\* goes by the last one that ensure_connection_and_thread began.
QueuedMessage(l) ==
  LET m == [l EXCEPT !.phase = "Backoff", !.deadline = Never, !.next = clock.wall] IN
  IF l.connected THEN Begin(m, "send") ELSE ToSelect(m)
HandedOver(h) == IF loop.connected THEN h ELSE [h EXCEPT !.asked = TRUE]

\* handle_completed_turn
Completed(l, h) ==
  \/ loop' \in {AtRest(l), ScheduleRetry(l)} /\ hist' = h
  \/ loop' = QueuedMessage(l) /\ hist' = HandedOver(h)

-----------------------------------------------------------------------------
\* The branches of select!.  It takes any that is ready.

Selecting == loop.at = "select"
PollDue  == Selecting /\ clock.mono >= loop.tick
TimerDue == Selecting /\ loop.phase # "Done" /\ clock.mono >= loop.timer

\* observe_wake in the branch of wake_poll.
WakePoll ==
  /\ PollDue
  /\ LET l == [Observed(loop) EXCEPT !.tick = clock.mono + Poll] IN
     loop' = ToSelect(IF WakeSeen /\ l.phase # "Done" THEN ApplyWakeDelay(l) ELSE l)
  /\ hist' = Excused(hist)
  /\ UNCHANGED clock

\* handle_deadline: the next attempt, from ensure_connection_and_thread on, or
\* the end of the turn.
HandleDeadline ==
  IF loop.phase = "Backoff"
  THEN /\ loop' = [Begin(Observed(loop), IF loop.connected THEN "thread" ELSE "connect")
                     EXCEPT !.tried = clock.mono]
       /\ hist' = [Settled(Excused(hist)) EXCEPT !.attempt = clock.wall, !.asked = FALSE]
  ELSE /\ loop' = Begin(Observed(loop), "interrupt")
       /\ hist' = Settled(Excused(hist))

\* Mutant of DeadlinePassed: it does not ask whether the machine has slept.
DeadlinePassedUnobserved == TimerDue /\ HandleDeadline /\ UNCHANGED clock

DeadlinePassed ==
  /\ TimerDue
  /\ IF WakeSeen
     THEN loop' = ToSelect(ApplyWakeDelay(Observed(loop))) /\ hist' = Excused(hist)
     ELSE HandleDeadline
  /\ UNCHANGED clock

\* handle_retry_now
RetryNow ==
  /\ Selecting /\ loop.phase = "Backoff"
  /\ loop' = ToSelect([loop EXCEPT !.next = clock.wall])
  /\ hist' = [Settled(hist) EXCEPT !.asked = TRUE]
  /\ UNCHANGED clock

\* handle_event: the turn fails, or the connection goes.
TurnFails(connected) ==
  /\ Selecting /\ loop.phase = "Waiting"
  /\ loop' = ScheduleRetry([loop EXCEPT !.connected = connected])
  /\ hist' = Settled(hist)
  /\ UNCHANGED clock

\* handle_disconnect keeps the time of a retry that is waiting.
Disconnect ==
  /\ Selecting /\ loop.phase = "Backoff" /\ loop.connected
  /\ loop' = ToSelect([loop EXCEPT !.connected = FALSE])
  /\ UNCHANGED <<clock, hist>>

\* A turn that completes has its text, or is looked for in the history.
TurnCompletes(fetched) ==
  /\ Selecting /\ loop.phase = "Waiting"
  /\ IF fetched THEN loop' = Begin(loop, "fetch") /\ hist' = Settled(hist)
     ELSE Completed(loop, Settled(hist))
  /\ UNCHANGED clock

-----------------------------------------------------------------------------
\* The awaits of an attempt.  Each ends with an answer, or with an error at the
\* latest when its time is over.

Answers(place) == loop.at = place /\ UNCHANGED clock

\* connect
ConnectEnds ==
  /\ Answers("connect")
  /\ LET l == ResetWakeBaseline(loop) IN
     loop' \in {Begin([l EXCEPT !.connected = TRUE], "thread"), ScheduleRetry(l), AtRest(l)}
  /\ hist' = Excused(hist)

\* handle_transport_failure: an error of the connection shuts it down, one of a
\* request does not, and one that the user must see ends the attempts.
Failed(l) == {ScheduleRetry(l), ScheduleRetry([l EXCEPT !.connected = FALSE]), AtRest(l)}

\* resume_thread or start_thread; the thread may be missing, and a turn that is
\* still owed may run on or have ended.
ThreadEnds ==
  /\ Answers("thread")
  /\ LET l == ResetWakeBaseline(loop) IN
     \/ /\ loop' \in {Begin(l, "send"), Begin(l, "fallback"), TurnRuns(l)} \cup Failed(l)
        /\ hist' = Excused(hist)
     \/ Completed(l, Excused(hist))

\* start_thread in place of a missing thread: the baseline stays as it was.
FallbackEnds ==
  /\ Answers("fallback")
  /\ loop' \in {Begin(loop, "send")} \cup Failed(loop)
  /\ hist' = [hist EXCEPT !.excused = TRUE]

\* start_turn
SendEnds ==
  /\ Answers("send")
  /\ LET l == ResetWakeBaseline(loop) IN
     loop' \in Failed(l) \cup {TurnRuns(l)}
  /\ hist' = Excused(hist)

\* fetch_turn_message: the baseline stays as it was.
FetchEnds ==
  /\ Answers("fetch")
  /\ Completed(loop, [hist EXCEPT !.excused = TRUE])

\* The turn was interrupted, or could not be.
InterruptEnds ==
  /\ Answers("interrupt")
  /\ loop' = ScheduleRetry(ResetWakeBaseline(loop))
  /\ hist' = Excused(hist)

-----------------------------------------------------------------------------
\* Time.  The loop serves its timers when they are due.
TimePasses ==
  /\ clock.wall < MaxTime /\ ~PollDue /\ ~TimerDue /\ loop.phase # "Done"
  /\ loop.at # "select" => loop.left > 0
  /\ clock' = [clock EXCEPT !.wall = @ + 1, !.mono = @ + 1]
  /\ loop' = IF Selecting THEN loop ELSE [loop EXCEPT !.left = @ - 1]
  /\ UNCHANGED hist

\* The machine sleeps.  What has an answer to wait for by the monotonic clock
\* waits on if that clock stood still.  hist.woke is when it woke from a sleep
\* too long to be missed, while a retry or a turn waited in the loop.
Suspend(d) ==
  /\ clock.sleeps < MaxSleep /\ clock.wall + d <= MaxTime /\ loop.phase # "Done"
  /\ LET counted == IF clock.counted THEN d ELSE 0 IN
     /\ clock' = [clock EXCEPT !.wall = @ + d, !.mono = @ + counted, !.sleeps = @ + 1]
     /\ loop' = IF Selecting THEN loop ELSE [loop EXCEPT !.left = Max({0, @ - counted})]
  /\ hist' = [hist EXCEPT !.excused = TRUE,
                          !.woke = IF Selecting /\ d > Gap THEN clock.wall + d ELSE @]

TimingStart(counted, due) ==
  /\ clock = [wall |-> 0, mono |-> 0, counted |-> counted, sleeps |-> 0]
  /\ loop = [at |-> "select", phase |-> "Backoff", connected |-> FALSE, next |-> due,
             deadline |-> Never, timer |-> due, tick |-> 0, tried |-> Never, left |-> 0,
             base |-> [wall |-> 0, mono |-> 0]]
  /\ hist = [attempt |-> Never, asked |-> FALSE, woke |-> Never, excused |-> FALSE]

\* A new task is due at once; a restored one may have to wait for its retry.
TimingInit == \E counted \in BOOLEAN, due \in {0, Spacing + 1} : TimingStart(counted, due)

TimingNext ==
  \/ WakePoll \/ DeadlinePassed \/ RetryNow \/ Disconnect
  \/ \E kept \in BOOLEAN : TurnFails(kept) \/ TurnCompletes(kept)
  \/ ConnectEnds \/ ThreadEnds \/ FallbackEnds \/ SendEnds \/ FetchEnds \/ InterruptEnds
  \/ TimePasses \/ \E d \in Sleeps : Suspend(d)

TimingSpec == TimingInit /\ [][TimingNext]_timingVars

-----------------------------------------------------------------------------
\* Properties.

Attempts == Selecting /\ loop'.at \in {"connect", "thread"}
GivesUp  == Selecting /\ loop'.at = "interrupt"

\* Attempts that ensure_connection_and_thread begins are at least Spacing apart,
\* whatever came between them, a failed turn, a message typed ahead or a sleep,
\* unless the user asked for the second one, by Retry now or with a message that
\* must first be connected (MIN_RETRY_SPACING, retry_delay, next_deadline).  The
\* attempt of start_queued_message is not one of them: retry_delay does not count
\* from it, so that its failure may be followed by the next attempt at once.
SpacingKept ==
  [][Attempts /\ hist.attempt # Never /\ ~hist.asked
       => clock.wall - hist.attempt >= Spacing]_timingVars

\* A retry that waits when the machine falls asleep is made WakeDelay after it
\* wakes or later, and a turn that runs then is not given up before, by either
\* kind of clock and whichever branch of the loop is first (observe_wake,
\* apply_wake_delay, the branch of the deadline).
WakeRespected ==
  [][(Attempts \/ GivesUp) /\ hist.woke # Never
       => clock.wall - hist.woke >= WakeDelay]_timingVars

\* A machine that did not sleep is not taken to have woken: the time spent
\* waiting for Codex does not look like sleep, except where the baseline is not
\* reset after it, for a missing thread and for the text of a turn
\* (reset_wake_baseline, WakeDetector::observe).
NoFalseWake == Selecting /\ WakeSeen => hist.excused
=============================================================================
