---------------------------- MODULE TimingProofs -----------------------------
(***************************************************************************)
(* Proofs about Timing: for all durations that satisfy TimingAssumption,   *)
(* however often and however long the machine sleeps, and for both kinds   *)
(* of monotonic clock.                                                     *)
(*                                                                         *)
(* A timer counts by the monotonic clock what is due by the wall clock.    *)
(* The argument rests on the wall clock never advancing less than the      *)
(* monotonic one, so that a timer which is over means a time that is past. *)
(***************************************************************************)
EXTENDS Timing, TLAPS

LoopPlaces == {"select", "connect", "thread", "fallback", "send", "fetch", "interrupt"}
Clocks == [wall : Nat, mono : Nat, counted : BOOLEAN, sleeps : Nat]
Loops == [at : LoopPlaces, phase : {"Backoff", "Waiting", "Done"}, connected : BOOLEAN,
          next : Int, deadline : Int, timer : Int, tick : Int, tried : Int, left : Int,
          base : [wall : Int, mono : Int]]
Histories == [attempt : Int, asked : BOOLEAN, woke : Int, excused : BOOLEAN]
TimingType == clock \in Clocks /\ loop \in Loops /\ hist \in Histories

\* A timer that is set: by the monotonic clock it is no shorter than what is
\* left by the wall clock, and a turn has its deadline.
TimerRight ==
  loop.at = "select" =>
    /\ loop.phase = "Backoff" =>
         loop.deadline = Never /\ loop.timer - clock.mono >= loop.next - clock.wall
    /\ loop.phase = "Waiting" =>
         loop.deadline # Never /\ loop.timer = loop.deadline
PlacePhase ==
  /\ loop.at \in {"connect", "thread", "fallback", "send"} => loop.phase = "Backoff"
  /\ loop.at \in {"fetch", "interrupt"} => loop.phase = "Waiting"

\* The last attempt by both clocks, and the retry that follows it.
AttemptKnown ==
  hist.attempt # Never =>
    loop.tried # Never /\ clock.wall - hist.attempt >= clock.mono - loop.tried
RetrySpaced ==
  loop.at = "select" /\ loop.phase = "Backoff" /\ hist.attempt # Never /\ ~hist.asked
    => loop.next >= hist.attempt + Spacing

\* A wake is either still to be seen, or has been answered.
BaseBehind == loop.base.wall <= clock.wall /\ loop.base.mono <= clock.mono
WakeKnown ==
  hist.woke # Never =>
    /\ loop.at = "select" /\ loop.phase # "Done" /\ hist.woke <= clock.wall
    /\ \/ clock.wall - loop.base.wall > Gap
       \/ loop.phase = "Backoff" /\ loop.next >= hist.woke + WakeDelay
       \/ loop.phase = "Waiting" /\ loop.deadline - clock.mono
                                      >= hist.woke + WakeDelay - clock.wall

\* Without sleep the baseline is no older than one poll.
BaseFresh ==
  /\ loop.tick <= loop.base.mono + Poll
  /\ loop.at = "select" /\ ~hist.excused =>
       /\ clock.wall - loop.base.wall = clock.mono - loop.base.mono
       /\ clock.mono <= loop.base.mono + Poll

TimingInv ==
  /\ TimingType /\ TimerRight /\ PlacePhase
  /\ AttemptKnown /\ RetrySpaced
  /\ BaseBehind /\ WakeKnown
  /\ BaseFresh

LEMMA MaxOfTwo ==
  ASSUME NEW a \in Int, NEW b \in Int
  PROVE  /\ Max({a, b}) \in {a, b}
         /\ Max({a, b}) >= a /\ Max({a, b}) >= b
<1>1. \E m \in {a, b} : \A y \in {a, b} : m >= y
  <2>1. CASE a >= b
    BY <2>1
  <2>2. CASE b >= a
    BY <2>2
  <2> QED
    BY <2>1, <2>2
<1>2. /\ Max({a, b}) \in {a, b}
      /\ \A y \in {a, b} : Max({a, b}) >= y
  BY <1>1 DEF Max
<1> QED
  BY <1>2

LEMMA NeverType == Never \in Int
  BY DEF Never

LEMMA AwaitType == \A place \in LoopPlaces \ {"select"} : Await[place] \in Int
  BY TimingAssumption DEF Await, LoopPlaces

\* The delay before a retry.
LEMMA DelayType ==
  ASSUME TimingType
  PROVE  /\ RetryDelay \in Int /\ RetryDelay >= 0
         /\ loop.tried # Never => RetryDelay >= Spacing - (clock.mono - loop.tried)
<1> DEFINE x == Spacing - (clock.mono - loop.tried)
           rest == Max({0, x})
<1>1. x \in Int
  BY TimingAssumption DEF TimingType, Clocks, Loops
<1>2. RetryDelay = IF loop.tried = Never THEN 0 ELSE rest
  BY DEF RetryDelay
<1>3. rest \in Int /\ rest >= 0 /\ rest >= x
  <2> HIDE DEF x
  <2>1. 0 \in Int
    OBVIOUS
  <2> QED
    BY <1>1, <2>1, MaxOfTwo
<1> HIDE DEF rest
<1>4. /\ RetryDelay \in Int /\ RetryDelay >= 0
      /\ loop.tried # Never => RetryDelay >= x
  BY <1>2, <1>3
<1> QED
  BY <1>4

\* The timer that ToSelect sets.
LEMMA DeadlineOf ==
  ASSUME NEW l \in Loops, TimingType
  PROVE  /\ NextDeadline(l) \in Int
         /\ l.deadline # Never => NextDeadline(l) = l.deadline
         /\ l.deadline = Never => NextDeadline(l) - clock.mono >= l.next - clock.wall
<1> DEFINE x == l.next - clock.wall
           rest == Max({0, x})
<1>1. x \in Int /\ clock.mono \in Nat /\ l.deadline \in Int
  BY DEF TimingType, Clocks, Loops
<1>2. NextDeadline(l) = IF l.deadline # Never THEN l.deadline ELSE clock.mono + rest
  BY DEF NextDeadline
<1>3. rest \in Int /\ rest >= x
  <2> HIDE DEF x
  <2>1. 0 \in Int
    OBVIOUS
  <2> QED
    BY <1>1, <2>1, MaxOfTwo
<1> HIDE DEF rest
<1>4. /\ NextDeadline(l) \in Int
      /\ l.deadline # Never => NextDeadline(l) = l.deadline
      /\ l.deadline = Never => NextDeadline(l) - clock.mono >= x
  <2> HIDE DEF x
  <2> QED
    BY <1>1, <1>2, <1>3
<1> QED
  BY <1>4

LEMMA ToSelectType ==
  ASSUME NEW l \in Loops, TimingType
  PROVE  /\ ToSelect(l) \in Loops
         /\ ToSelect(l) = [l EXCEPT !.at = "select", !.timer = NextDeadline(l)]
         /\ ToSelect(l).at = "select"
         /\ ToSelect(l).timer = NextDeadline(l)
         /\ ToSelect(l).phase = l.phase /\ ToSelect(l).next = l.next
         /\ ToSelect(l).deadline = l.deadline /\ ToSelect(l).tried = l.tried
         /\ ToSelect(l).base = l.base /\ ToSelect(l).tick = l.tick
<1>1. NextDeadline(l) \in Int
  BY DeadlineOf
<1> HIDE DEF NextDeadline
<1> QED
  BY <1>1 DEF ToSelect, Loops, LoopPlaces

LEMMA BeginType ==
  ASSUME NEW l \in Loops, NEW place \in LoopPlaces \ {"select"}
  PROVE  /\ Begin(l, place) \in Loops
         /\ Begin(l, place).at = place
         /\ Begin(l, place).phase = l.phase /\ Begin(l, place).next = l.next
         /\ Begin(l, place).deadline = l.deadline /\ Begin(l, place).tried = l.tried
         /\ Begin(l, place).base = l.base /\ Begin(l, place).tick = l.tick
<1>1. Await[place] \in Int
  BY AwaitType
<1> HIDE DEF Await
<1> QED
  BY <1>1, NeverType DEF Begin, Loops, LoopPlaces

LEMMA ObservedType ==
  ASSUME NEW l \in Loops, TimingType
  PROVE  /\ Observed(l) \in Loops
         /\ Observed(l).base = [wall |-> clock.wall, mono |-> clock.mono]
         /\ Observed(l).at = l.at /\ Observed(l).phase = l.phase
         /\ Observed(l).next = l.next /\ Observed(l).deadline = l.deadline
         /\ Observed(l).tried = l.tried /\ Observed(l).tick = l.tick
         /\ Observed(l).connected = l.connected
  BY DEF Observed, TimingType, Clocks, Loops

\* What a retry that is scheduled from l looks like.
LEMMA ScheduleRetryType ==
  ASSUME NEW l \in Loops, TimingType
  PROVE  /\ ScheduleRetry(l) \in Loops
         /\ ScheduleRetry(l).at = "select" /\ ScheduleRetry(l).phase = "Backoff"
         /\ ScheduleRetry(l).deadline = Never
         /\ ScheduleRetry(l).next = clock.wall + RetryDelay
         /\ ScheduleRetry(l).timer - clock.mono >= ScheduleRetry(l).next - clock.wall
         /\ ScheduleRetry(l).tried = l.tried
         /\ ScheduleRetry(l).base = l.base /\ ScheduleRetry(l).tick = l.tick
<1> DEFINE n == clock.wall + RetryDelay
           r == [l EXCEPT !.phase = "Backoff", !.deadline = Never, !.next = n]
<1>1. n \in Int
  BY DelayType DEF TimingType, Clocks
<1>2. /\ r \in Loops /\ r.phase = "Backoff" /\ r.deadline = Never
      /\ r.next = n
      /\ r.tried = l.tried /\ r.base = l.base /\ r.tick = l.tick
  <2> HIDE DEF n
  <2> QED
    BY <1>1, NeverType DEF Loops
<1>3. ScheduleRetry(l) = ToSelect(r)
  BY DEF ScheduleRetry
<1> HIDE DEF r
<1>4. NextDeadline(r) - clock.mono >= r.next - clock.wall
  BY <1>2, DeadlineOf
<1> HIDE DEF n
<1>5. /\ ToSelect(r) \in Loops /\ ToSelect(r).at = "select" /\ ToSelect(r).phase = "Backoff"
      /\ ToSelect(r).deadline = Never /\ ToSelect(r).next = n
      /\ ToSelect(r).timer = NextDeadline(r)
      /\ ToSelect(r).tried = l.tried
      /\ ToSelect(r).base = l.base /\ ToSelect(r).tick = l.tick
  BY <1>2, ToSelectType
<1> QED
  BY <1>2, <1>3, <1>4, <1>5 DEF n

LEMMA ApplyWakeType ==
  ASSUME NEW l \in Loops, TimingType
  PROVE  /\ ApplyWakeDelay(l) \in Loops
         /\ ApplyWakeDelay(l).at = l.at /\ ApplyWakeDelay(l).phase = l.phase
         /\ ApplyWakeDelay(l).tried = l.tried
         /\ ApplyWakeDelay(l).base = l.base /\ ApplyWakeDelay(l).tick = l.tick
         /\ l.phase = "Waiting" =>
              /\ ApplyWakeDelay(l).deadline >= l.deadline
              /\ ApplyWakeDelay(l).deadline >= clock.mono + WakeDelay
         /\ l.phase # "Waiting" =>
              /\ ApplyWakeDelay(l).deadline = l.deadline
              /\ ApplyWakeDelay(l).next >= l.next
              /\ ApplyWakeDelay(l).next >= clock.wall + WakeDelay
<1>1. /\ l.deadline \in Int /\ l.next \in Int
      /\ clock.mono + WakeDelay \in Int /\ clock.wall + WakeDelay \in Int
  BY TimingAssumption DEF TimingType, Clocks, Loops
<1> DEFINE d == Max({l.deadline, clock.mono + WakeDelay})
           n == Max({l.next, clock.wall + WakeDelay})
<1>2. d \in Int /\ d >= l.deadline /\ d >= clock.mono + WakeDelay
  BY <1>1, MaxOfTwo
<1>3. n \in Int /\ n >= l.next /\ n >= clock.wall + WakeDelay
  BY <1>1, MaxOfTwo
<1>4. ApplyWakeDelay(l) = IF l.phase = "Waiting" THEN [l EXCEPT !.deadline = d]
                                                  ELSE [l EXCEPT !.next = n]
  BY DEF ApplyWakeDelay
<1> HIDE DEF d, n
<1>5. CASE l.phase = "Waiting"
  BY <1>2, <1>4, <1>5 DEF Loops
<1>6. CASE l.phase # "Waiting"
  BY <1>3, <1>4, <1>6 DEF Loops
<1> QED
  BY <1>5, <1>6

LEMMA ExcusedType ==
  ASSUME NEW h \in Histories
  PROVE  /\ Excused(h) \in Histories /\ ~Excused(h).excused
         /\ Excused(h).attempt = h.attempt /\ Excused(h).asked = h.asked
         /\ Excused(h).woke = h.woke
  BY DEF Excused, Histories

LEMMA SettledType ==
  ASSUME NEW h \in Histories
  PROVE  /\ Settled(h) \in Histories /\ Settled(h).woke = Never
         /\ Settled(h).attempt = h.attempt /\ Settled(h).asked = h.asked
         /\ Settled(h).excused = h.excused
  BY NeverType DEF Settled, Histories

-----------------------------------------------------------------------------
\* What the steps have in common.  A step out of the loop, or from one await to
\* the next, cares for the phase, the last attempt and the baseline only.
LEMMA AwayKeeps ==
  ASSUME TimingInv, clock' = clock, loop' \in Loops, loop'.at # "select", PlacePhase',
         AttemptKnown', hist' \in Histories, hist'.woke = Never, loop'.tick = loop.tick,
         loop'.base \in {loop.base, [wall |-> clock.wall, mono |-> clock.mono]}
  PROVE  TimingInv'
<1>1. TimingType'
  BY DEF TimingInv, TimingType
<1>2. TimerRight' /\ RetrySpaced' /\ WakeKnown'
  BY DEF TimerRight, RetrySpaced, WakeKnown
<1>3. BaseBehind' /\ BaseFresh'
  BY TimingAssumption DEF TimingInv, TimingType, Clocks, Loops, BaseBehind, BaseFresh
<1> QED
  BY <1>1, <1>2, <1>3 DEF TimingInv

\* A retry is scheduled from l, which has the last attempt of loop.
LEMMA RetryKeeps ==
  ASSUME TimingInv, clock' = clock, NEW l \in Loops, loop' = ScheduleRetry(l),
         l.tried = loop.tried, l.tick = loop.tick,
         hist' \in Histories, hist'.attempt = hist.attempt, hist'.woke = Never,
         \/ l.base = [wall |-> clock.wall, mono |-> clock.mono]
         \/ l.base = loop.base /\ hist'.excused
         \/ l.base = loop.base /\ hist'.excused = hist.excused /\ loop.at = "select"
  PROVE  TimingInv'
<1>1. TimingType
  BY DEF TimingInv
<1>2. /\ loop' \in Loops /\ loop'.at = "select" /\ loop'.phase = "Backoff"
      /\ loop'.deadline = Never /\ loop'.next = clock.wall + RetryDelay
      /\ loop'.timer - clock.mono >= loop'.next - clock.wall
      /\ loop'.tried = loop.tried /\ loop'.base = l.base /\ loop'.tick = loop.tick
  BY <1>1, ScheduleRetryType
<1>3. /\ RetryDelay \in Int
      /\ loop.tried # Never => RetryDelay >= Spacing - (clock.mono - loop.tried)
  BY <1>1, DelayType
<1>4. TimingType'
  BY <1>1, <1>2 DEF TimingType
<1>5. TimerRight' /\ PlacePhase' /\ WakeKnown' /\ AttemptKnown'
  BY <1>2 DEF TimingInv, TimerRight, PlacePhase, WakeKnown, AttemptKnown
<1>6. RetrySpaced'
  BY <1>1, <1>2, <1>3, TimingAssumption
     DEF TimingInv, TimingType, Clocks, Loops, Histories, AttemptKnown, RetrySpaced
<1>7. BaseBehind' /\ BaseFresh'
  BY <1>1, <1>2, TimingAssumption
     DEF TimingInv, TimingType, Clocks, Loops, BaseBehind, BaseFresh
<1> QED
  BY <1>4, <1>5, <1>6, <1>7 DEF TimingInv

-----------------------------------------------------------------------------
\* The steps.

LEMMA StartInv == TimingInit => TimingInv
<1> SUFFICES ASSUME NEW counted \in BOOLEAN, NEW due \in {0, Spacing + 1},
                    TimingStart(counted, due)
             PROVE  TimingInv
  BY DEF TimingInit
<1>1. due \in Int /\ Never \in Int /\ Never # 0
  BY TimingAssumption DEF Never
<1>2. TimingType
  BY <1>1 DEF TimingStart, TimingType, Clocks, Loops, LoopPlaces, Histories
<1>3. TimerRight /\ PlacePhase /\ AttemptKnown /\ RetrySpaced /\ WakeKnown
  BY <1>1 DEF TimingStart, TimerRight, PlacePhase, AttemptKnown, RetrySpaced, WakeKnown
<1>4. BaseBehind /\ BaseFresh
  BY <1>1, TimingAssumption DEF TimingStart, BaseBehind, BaseFresh
<1> QED
  BY <1>2, <1>3, <1>4 DEF TimingInv

LEMMA DisconnectInv == TimingInv /\ Disconnect => TimingInv'
<1> SUFFICES ASSUME TimingInv, Disconnect PROVE TimingInv'
  OBVIOUS
<1> DEFINE l == [loop EXCEPT !.connected = FALSE]
<1>1. TimingType
  BY DEF TimingInv
<1>2. /\ l \in Loops /\ l.at = "select" /\ l.phase = "Backoff" /\ l.next = loop.next
      /\ l.deadline = loop.deadline /\ l.tried = loop.tried
      /\ l.base = loop.base /\ l.tick = loop.tick
  BY <1>1 DEF TimingType, Loops, Disconnect, Selecting
<1>3. loop' = ToSelect(l) /\ clock' = clock /\ hist' = hist
  BY DEF Disconnect
<1> HIDE DEF l
<1>4. /\ loop' \in Loops /\ loop'.at = "select" /\ loop'.phase = "Backoff"
      /\ loop'.next = loop.next /\ loop'.deadline = loop.deadline /\ loop'.tried = loop.tried
      /\ loop'.base = loop.base /\ loop'.tick = loop.tick
      /\ loop'.timer = NextDeadline(l)
  BY <1>1, <1>2, <1>3, ToSelectType
<1>5. loop.at = "select" /\ loop.phase = "Backoff" /\ loop.deadline = Never
  BY DEF Disconnect, Selecting, TimingInv, TimerRight
<1>6. loop'.timer - clock.mono >= loop'.next - clock.wall
  BY <1>1, <1>2, <1>4, <1>5, DeadlineOf
<1> QED
  BY <1>1, <1>3, <1>4, <1>5, <1>6
     DEF TimingInv, TimingType, TimerRight, PlacePhase, AttemptKnown, RetrySpaced,
         BaseBehind, WakeKnown, BaseFresh

LEMMA RetryNowInv == TimingInv /\ RetryNow => TimingInv'
<1> SUFFICES ASSUME TimingInv, RetryNow PROVE TimingInv'
  OBVIOUS
<1> DEFINE n == clock.wall
           l == [loop EXCEPT !.next = n]
<1>1. TimingType /\ n \in Int
  BY DEF TimingInv, TimingType, Clocks
<1>2. /\ l \in Loops /\ l.at = "select" /\ l.phase = "Backoff" /\ l.next = n
      /\ l.deadline = loop.deadline /\ l.tried = loop.tried
      /\ l.base = loop.base /\ l.tick = loop.tick
  <2> HIDE DEF n
  <2> QED
    BY <1>1 DEF TimingType, Loops, RetryNow, Selecting
<1>3. /\ loop' = ToSelect(l) /\ clock' = clock
      /\ hist' = [Settled(hist) EXCEPT !.asked = TRUE]
  BY DEF RetryNow
<1> HIDE DEF l
<1>4. /\ loop' \in Loops /\ loop'.at = "select" /\ loop'.phase = "Backoff"
      /\ loop'.next = n /\ loop'.deadline = loop.deadline /\ loop'.tried = loop.tried
      /\ loop'.base = loop.base /\ loop'.tick = loop.tick
      /\ loop'.timer = NextDeadline(l)
  BY <1>1, <1>2, <1>3, ToSelectType
<1>5. loop.at = "select" /\ loop.phase = "Backoff" /\ loop.deadline = Never
  BY DEF RetryNow, Selecting, TimingInv, TimerRight
<1>6. loop'.timer - clock.mono >= loop'.next - clock.wall
  BY <1>1, <1>2, <1>4, <1>5, DeadlineOf
<1>7. /\ hist' \in Histories /\ hist'.asked /\ hist'.woke = Never
      /\ hist'.attempt = hist.attempt /\ hist'.excused = hist.excused
  <2> DEFINE h == Settled(hist)
  <2>1. /\ h \in Histories /\ h.woke = Never /\ h.attempt = hist.attempt
        /\ h.excused = hist.excused
    BY <1>1, SettledType DEF TimingType
  <2>2. hist' = [h EXCEPT !.asked = TRUE]
    BY <1>3
  <2> HIDE DEF h
  <2> QED
    BY <2>1, <2>2 DEF Histories
<1> QED
  BY <1>1, <1>3, <1>4, <1>5, <1>6, <1>7
     DEF TimingInv, TimingType, TimerRight, PlacePhase, AttemptKnown, RetrySpaced,
         BaseBehind, WakeKnown, BaseFresh

LEMMA TurnFailsInv ==
  ASSUME TimingInv, NEW kept \in BOOLEAN, TurnFails(kept) PROVE TimingInv'
<1> DEFINE l == [loop EXCEPT !.connected = kept]
<1>1. TimingType
  BY DEF TimingInv
<1>2. l \in Loops /\ l.tried = loop.tried /\ l.base = loop.base /\ l.tick = loop.tick
  BY <1>1 DEF TimingType, Loops
<1>3. loop' = ScheduleRetry(l) /\ hist' = Settled(hist) /\ clock' = clock /\ loop.at = "select"
  BY DEF TurnFails, Selecting
<1> HIDE DEF l
<1> QED
  BY <1>1, <1>2, <1>3, SettledType, RetryKeeps DEF TimingType

\* A turn that is done needs no timer.
LEMMA DoneKeeps ==
  ASSUME TimingInv, clock' = clock, hist' \in Histories, hist'.attempt = hist.attempt,
         hist'.woke = Never, NEW l \in Loops, loop' = ToSelect(l), l.phase = "Done",
         l.tried = loop.tried, l.tick = loop.tick,
         \/ l.base = [wall |-> clock.wall, mono |-> clock.mono]
         \/ l.base = loop.base /\ hist'.excused
         \/ l.base = loop.base /\ hist'.excused = hist.excused /\ loop.at = "select"
  PROVE  TimingInv'
<1>1. TimingType
  BY DEF TimingInv
<1>2. /\ loop' \in Loops /\ loop'.at = "select" /\ loop'.phase = "Done"
      /\ loop'.tried = loop.tried /\ loop'.base = l.base /\ loop'.tick = loop.tick
  BY <1>1, ToSelectType
<1>3. TimingType' /\ TimerRight' /\ PlacePhase' /\ AttemptKnown' /\ RetrySpaced' /\ WakeKnown'
  BY <1>1, <1>2
     DEF TimingInv, TimingType, TimerRight, PlacePhase, AttemptKnown, RetrySpaced, WakeKnown
<1>4. BaseBehind' /\ BaseFresh'
  BY <1>1, <1>2, TimingAssumption
     DEF TimingInv, TimingType, Clocks, Loops, BaseBehind, BaseFresh
<1> QED
  BY <1>3, <1>4 DEF TimingInv

\* The task ends at l.
LEMMA RestKeeps ==
  ASSUME TimingInv, clock' = clock, hist' \in Histories, hist'.attempt = hist.attempt,
         hist'.woke = Never, NEW l \in Loops, loop' = AtRest(l),
         l.tried = loop.tried, l.tick = loop.tick,
         \/ l.base = [wall |-> clock.wall, mono |-> clock.mono]
         \/ l.base = loop.base /\ hist'.excused
         \/ l.base = loop.base /\ hist'.excused = hist.excused /\ loop.at = "select"
  PROVE  TimingInv'
<1> DEFINE d == [l EXCEPT !.phase = "Done", !.deadline = Never]
<1>1. loop' = ToSelect(d)
  BY DEF AtRest
<1>2. /\ d \in Loops /\ d.phase = "Done" /\ d.tried = loop.tried
      /\ d.base = l.base /\ d.tick = loop.tick
  BY NeverType DEF Loops
<1> HIDE DEF d
<1> QED
  BY <1>1, <1>2, DoneKeeps

\* A turn runs from l, which is observed now.
LEMMA TurnRunsKeeps ==
  ASSUME TimingInv, clock' = clock, hist' \in Histories, hist'.attempt = hist.attempt,
         hist'.woke = Never, NEW l \in Loops, loop' = TurnRuns(l),
         l.tried = loop.tried, l.tick = loop.tick,
         l.base = [wall |-> clock.wall, mono |-> clock.mono]
  PROVE  TimingInv'
<1> DEFINE d == clock.mono + TurnTime
           t == [l EXCEPT !.phase = "Waiting", !.next = Never, !.deadline = d]
<1>1. TimingType /\ loop' = ToSelect(t)
  BY DEF TimingInv, TurnRuns
<1>2. d \in Int /\ d # Never
  BY <1>1, TimingAssumption DEF TimingType, Clocks, Never
<1>3. /\ t \in Loops /\ t.phase = "Waiting" /\ t.deadline = d
      /\ t.tried = loop.tried /\ t.base = l.base /\ t.tick = loop.tick
  <2> HIDE DEF d
  <2> QED
    BY <1>2, NeverType DEF Loops
<1> HIDE DEF d, t
<1>4. /\ loop' \in Loops /\ loop'.at = "select" /\ loop'.phase = "Waiting"
      /\ loop'.deadline = d /\ loop'.timer = d
      /\ loop'.tried = loop.tried /\ loop'.base = l.base /\ loop'.tick = loop.tick
  <2>1. NextDeadline(t) = d
    BY <1>1, <1>2, <1>3, DeadlineOf
  <2> QED
    BY <1>1, <1>3, <2>1, ToSelectType
<1>5. TimingType' /\ TimerRight' /\ PlacePhase' /\ AttemptKnown' /\ RetrySpaced' /\ WakeKnown'
  BY <1>1, <1>2, <1>4
     DEF TimingInv, TimingType, TimerRight, PlacePhase, AttemptKnown, RetrySpaced, WakeKnown
<1>6. BaseBehind' /\ BaseFresh'
  BY <1>1, <1>4, TimingAssumption
     DEF TimingInv, TimingType, Clocks, Loops, BaseBehind, BaseFresh
<1> QED
  BY <1>5, <1>6 DEF TimingInv

\* A message typed ahead is sent from l at once, or is due when there is a
\* connection again.
LEMMA QueuedKeeps ==
  ASSUME TimingInv, clock' = clock, NEW h \in Histories, hist' = HandedOver(h),
         h.attempt = hist.attempt, h.woke = Never,
         NEW l \in Loops, loop' = QueuedMessage(l), l.connected = loop.connected,
         l.tried = loop.tried, l.tick = loop.tick,
         \/ l.base = [wall |-> clock.wall, mono |-> clock.mono]
         \/ l.base = loop.base /\ h.excused
         \/ l.base = loop.base /\ h.excused = hist.excused /\ loop.at = "select"
  PROVE  TimingInv'
<1> DEFINE n == clock.wall
           m == [l EXCEPT !.phase = "Backoff", !.deadline = Never, !.next = n]
<1>1. TimingType /\ n \in Int
  BY DEF TimingInv, TimingType, Clocks
<1>2. loop' = IF l.connected THEN Begin(m, "send") ELSE ToSelect(m)
  BY DEF QueuedMessage
<1>3. hist' = IF loop.connected THEN h ELSE [h EXCEPT !.asked = TRUE]
  BY DEF HandedOver
<1> HIDE DEF n
<1>4. /\ m \in Loops /\ m.phase = "Backoff" /\ m.deadline = Never /\ m.next = n
      /\ m.tried = loop.tried /\ m.base = l.base /\ m.tick = loop.tick
  BY <1>1, NeverType DEF Loops
<1> HIDE DEF m
<1>5. /\ hist' \in Histories /\ hist'.attempt = hist.attempt /\ hist'.woke = Never
      /\ hist'.excused = h.excused /\ (~loop.connected => hist'.asked)
  BY <1>1, <1>3 DEF Histories
<1>6. CASE l.connected
  <2>1. /\ loop' \in Loops /\ loop'.at = "send" /\ loop'.phase = "Backoff"
        /\ loop'.tried = loop.tried /\ loop'.base = l.base /\ loop'.tick = loop.tick
    BY <1>2, <1>4, <1>6, BeginType DEF LoopPlaces
  <2>2. PlacePhase' /\ AttemptKnown'
    BY <1>5, <2>1 DEF TimingInv, PlacePhase, AttemptKnown
  <2> QED
    BY <1>5, <2>1, <2>2, AwayKeeps
<1>7. CASE ~l.connected
  <2>1. loop' = ToSelect(m) /\ hist'.asked
    BY <1>2, <1>5, <1>7
  <2>2. /\ loop' \in Loops /\ loop'.at = "select" /\ loop'.phase = "Backoff"
        /\ loop'.deadline = Never /\ loop'.next = n /\ loop'.timer = NextDeadline(m)
        /\ loop'.tried = loop.tried /\ loop'.base = l.base /\ loop'.tick = loop.tick
    BY <1>1, <1>4, <2>1, ToSelectType
  <2>3. loop'.timer - clock.mono >= loop'.next - clock.wall
    BY <1>1, <1>4, <2>2, DeadlineOf
  <2>4. TimingType' /\ TimerRight' /\ PlacePhase'
    BY <1>1, <1>5, <2>2, <2>3 DEF TimingType, TimerRight, PlacePhase
  <2>5. AttemptKnown' /\ RetrySpaced' /\ WakeKnown'
    BY <1>5, <2>1, <2>2 DEF TimingInv, AttemptKnown, RetrySpaced, WakeKnown
  <2>6. BaseBehind' /\ BaseFresh'
    BY <1>1, <1>5, <2>2, TimingAssumption
       DEF TimingInv, TimingType, Clocks, Loops, BaseBehind, BaseFresh
  <2> QED
    BY <2>4, <2>5, <2>6 DEF TimingInv
<1> QED
  BY <1>6, <1>7

\* A completed turn.
LEMMA CompletedKeeps ==
  ASSUME TimingInv, clock' = clock, NEW h \in Histories, h.attempt = hist.attempt,
         h.woke = Never, NEW l \in Loops, Completed(l, h), l.connected = loop.connected,
         l.tried = loop.tried, l.tick = loop.tick,
         \/ l.base = [wall |-> clock.wall, mono |-> clock.mono]
         \/ l.base = loop.base /\ h.excused
         \/ l.base = loop.base /\ h.excused = hist.excused /\ loop.at = "select"
  PROVE  TimingInv'
<1>1. CASE loop' = AtRest(l) /\ hist' = h
  BY <1>1, RestKeeps
<1>2. CASE loop' = ScheduleRetry(l) /\ hist' = h
  BY <1>2, RetryKeeps
<1>3. CASE loop' = QueuedMessage(l) /\ hist' = HandedOver(h)
  BY <1>3, QueuedKeeps
<1> QED
  BY <1>1, <1>2, <1>3 DEF Completed

LEMMA TurnCompletesInv ==
  ASSUME TimingInv, NEW fetched \in BOOLEAN, TurnCompletes(fetched) PROVE TimingInv'
<1>1. TimingType /\ loop \in Loops /\ loop.phase = "Waiting" /\ loop.at = "select"
  BY DEF TimingInv, TimingType, TurnCompletes, Selecting
<1> DEFINE h == Settled(hist)
<1>2. clock' = clock /\ h \in Histories /\ h.woke = Never
      /\ h.attempt = hist.attempt /\ h.excused = hist.excused
  BY <1>1, SettledType DEF TurnCompletes, TimingType
<1>3. /\ fetched => loop' = Begin(loop, "fetch") /\ hist' = h
      /\ ~fetched => Completed(loop, h)
  BY DEF TurnCompletes
<1> HIDE DEF h
<1>4. CASE fetched
  <2>1. /\ loop' \in Loops /\ loop'.at = "fetch" /\ loop'.phase = "Waiting"
        /\ loop'.tried = loop.tried /\ loop'.base = loop.base /\ loop'.tick = loop.tick
    BY <1>1, <1>3, <1>4, BeginType DEF LoopPlaces
  <2>2. PlacePhase' /\ AttemptKnown'
    BY <1>2, <1>3, <1>4, <2>1 DEF TimingInv, PlacePhase, AttemptKnown
  <2> QED
    BY <1>2, <1>3, <1>4, <2>1, <2>2, AwayKeeps
<1>5. CASE ~fetched
  BY <1>1, <1>2, <1>3, <1>5, CompletedKeeps
<1> QED
  BY <1>4, <1>5

LEMMA FetchEndsInv == TimingInv /\ FetchEnds => TimingInv'
<1> SUFFICES ASSUME TimingInv, FetchEnds PROVE TimingInv'
  OBVIOUS
<1>1. TimingType /\ loop \in Loops /\ hist \in Histories /\ loop.at = "fetch"
  BY DEF TimingInv, TimingType, FetchEnds, Answers
<1>2. hist.woke = Never
  BY <1>1 DEF TimingInv, WakeKnown
<1> DEFINE h == [hist EXCEPT !.excused = TRUE]
<1>3. /\ clock' = clock /\ h \in Histories /\ h.woke = Never
      /\ h.attempt = hist.attempt /\ h.excused
  BY <1>1, <1>2 DEF FetchEnds, Answers, Histories
<1>4. Completed(loop, h)
  BY DEF FetchEnds
<1> HIDE DEF h
<1> QED
  BY <1>1, <1>3, <1>4, CompletedKeeps

\* The awaits end with the baseline reset, or with an excuse.
LEMMA InterruptEndsInv == TimingInv /\ InterruptEnds => TimingInv'
<1> SUFFICES ASSUME TimingInv, InterruptEnds PROVE TimingInv'
  OBVIOUS
<1>1. TimingType /\ loop \in Loops /\ hist \in Histories /\ loop.at = "interrupt"
  BY DEF TimingInv, TimingType, InterruptEnds, Answers
<1>2. hist.woke = Never
  BY <1>1 DEF TimingInv, WakeKnown
<1> DEFINE l == Observed(loop)
<1>3. clock' = clock /\ hist' = Excused(hist) /\ loop' = ScheduleRetry(l)
  BY DEF InterruptEnds, Answers, ResetWakeBaseline
<1>4. /\ l \in Loops /\ l.tried = loop.tried /\ l.tick = loop.tick
      /\ l.base = [wall |-> clock.wall, mono |-> clock.mono]
  BY <1>1, ObservedType
<1>5. hist' \in Histories /\ hist'.woke = Never /\ hist'.attempt = hist.attempt
  BY <1>1, <1>2, <1>3, ExcusedType
<1> HIDE DEF l
<1> QED
  BY <1>3, <1>4, <1>5, RetryKeeps

LEMMA ConnectEndsInv == TimingInv /\ ConnectEnds => TimingInv'
<1> SUFFICES ASSUME TimingInv, ConnectEnds PROVE TimingInv'
  OBVIOUS
<1>1. /\ TimingType /\ loop \in Loops /\ hist \in Histories
      /\ loop.at = "connect" /\ loop.phase = "Backoff"
  BY DEF TimingInv, TimingType, PlacePhase, ConnectEnds, Answers
<1>2. hist.woke = Never
  BY <1>1 DEF TimingInv, WakeKnown
<1> DEFINE l == Observed(loop)
           c == [l EXCEPT !.connected = TRUE]
<1>3. /\ clock' = clock /\ hist' = Excused(hist)
      /\ loop' \in {Begin(c, "thread"), ScheduleRetry(l), AtRest(l)}
  BY DEF ConnectEnds, Answers, ResetWakeBaseline
<1>4. /\ l \in Loops /\ l.tried = loop.tried /\ l.tick = loop.tick /\ l.phase = "Backoff"
      /\ l.base = [wall |-> clock.wall, mono |-> clock.mono]
  BY <1>1, ObservedType
<1>5. /\ hist' \in Histories /\ hist'.woke = Never /\ hist'.attempt = hist.attempt
  BY <1>1, <1>2, <1>3, ExcusedType
<1>6. /\ c \in Loops /\ c.tried = loop.tried /\ c.tick = loop.tick /\ c.phase = "Backoff"
      /\ c.base = l.base
  <2> HIDE DEF l
  <2> QED
    BY <1>4 DEF Loops
<1> HIDE DEF l, c
<1>7. CASE loop' = ScheduleRetry(l)
  BY <1>3, <1>4, <1>5, <1>7, RetryKeeps
<1>8. CASE loop' = Begin(c, "thread")
  <2>1. /\ loop' \in Loops /\ loop'.at = "thread" /\ loop'.phase = "Backoff"
        /\ loop'.tried = loop.tried /\ loop'.base = l.base /\ loop'.tick = loop.tick
    BY <1>6, <1>8, BeginType DEF LoopPlaces
  <2>2. PlacePhase' /\ AttemptKnown'
    BY <1>3, <1>5, <2>1 DEF TimingInv, PlacePhase, AttemptKnown
  <2> QED
    BY <1>3, <1>4, <1>5, <2>1, <2>2, AwayKeeps
<1>9. CASE loop' = AtRest(l)
  BY <1>3, <1>4, <1>5, <1>9, RestKeeps
<1> QED
  BY <1>3, <1>7, <1>8, <1>9

\* The way from one await of an attempt to the next, or to a retry.
LEMMA AttemptKeeps ==
  ASSUME TimingInv, clock' = clock, NEW l \in Loops,
         loop.at \in {"connect", "thread", "fallback", "send"},
         l.tried = loop.tried, l.tick = loop.tick, l.phase = "Backoff",
         hist' \in Histories, hist'.attempt = hist.attempt, hist'.woke = Never,
         \/ l.base = [wall |-> clock.wall, mono |-> clock.mono]
         \/ l.base = loop.base /\ hist'.excused,
         \/ loop' \in Failed(l)
         \/ \E place \in {"thread", "fallback", "send"} : loop' = Begin(l, place)
  PROVE  TimingInv'
<1> DEFINE c == [l EXCEPT !.connected = FALSE]
<1>1. /\ c \in Loops /\ c.tried = loop.tried /\ c.tick = loop.tick
      /\ c.phase = "Backoff" /\ c.base = l.base
  BY DEF Loops
<1>2. loop' \in Failed(l) => loop' \in {ScheduleRetry(l), ScheduleRetry(c), AtRest(l)}
  BY DEF Failed
<1> HIDE DEF c
<1>3. CASE loop' = ScheduleRetry(l)
  BY <1>3, RetryKeeps
<1>4. CASE loop' = ScheduleRetry(c)
  BY <1>1, <1>4, RetryKeeps
<1>5. ASSUME NEW place \in {"thread", "fallback", "send"}, loop' = Begin(l, place)
      PROVE  TimingInv'
  <2>1. /\ loop' \in Loops /\ loop'.at = place /\ loop'.phase = "Backoff"
        /\ loop'.tried = loop.tried /\ loop'.base = l.base /\ loop'.tick = loop.tick
    BY <1>5, BeginType DEF LoopPlaces
  <2>2. PlacePhase' /\ AttemptKnown'
    BY <2>1 DEF TimingInv, PlacePhase, AttemptKnown
  <2> QED
    BY <2>1, <2>2, AwayKeeps
<1>6. CASE loop' = AtRest(l)
  BY <1>6, RestKeeps
<1> QED
  BY <1>2, <1>3, <1>4, <1>5, <1>6

LEMMA ThreadEndsInv == TimingInv /\ ThreadEnds => TimingInv'
<1> SUFFICES ASSUME TimingInv, ThreadEnds PROVE TimingInv'
  OBVIOUS
<1>1. /\ TimingType /\ loop \in Loops /\ hist \in Histories
      /\ loop.at = "thread" /\ loop.phase = "Backoff"
  BY DEF TimingInv, TimingType, PlacePhase, ThreadEnds, Answers
<1>2. hist.woke = Never
  BY <1>1 DEF TimingInv, WakeKnown
<1> DEFINE l == Observed(loop)
           h == Excused(hist)
<1>3. /\ clock' = clock
      /\ \/ /\ loop' \in {Begin(l, "send"), Begin(l, "fallback"), TurnRuns(l)} \cup Failed(l)
            /\ hist' = h
         \/ Completed(l, h)
  BY DEF ThreadEnds, Answers, ResetWakeBaseline
<1>4. /\ l \in Loops /\ l.tried = loop.tried /\ l.tick = loop.tick /\ l.phase = "Backoff"
      /\ l.base = [wall |-> clock.wall, mono |-> clock.mono]
      /\ l.connected = loop.connected
  BY <1>1, ObservedType
<1>5. h \in Histories /\ h.woke = Never /\ h.attempt = hist.attempt
  BY <1>1, <1>2, ExcusedType
<1> HIDE DEF l, h
<1>6. CASE Completed(l, h)
  BY <1>3, <1>4, <1>5, <1>6, CompletedKeeps
<1>7. CASE loop' = TurnRuns(l) /\ hist' = h
  BY <1>3, <1>4, <1>5, <1>7, TurnRunsKeeps
<1>8. CASE loop' \in {Begin(l, "send"), Begin(l, "fallback")} \cup Failed(l) /\ hist' = h
  <2>1. \/ loop' \in Failed(l)
        \/ \E place \in {"thread", "fallback", "send"} : loop' = Begin(l, place)
    BY <1>8
  <2> QED
    BY <1>1, <1>3, <1>4, <1>5, <1>8, <2>1, AttemptKeeps
<1> QED
  BY <1>3, <1>6, <1>7, <1>8

LEMMA FallbackEndsInv == TimingInv /\ FallbackEnds => TimingInv'
<1> SUFFICES ASSUME TimingInv, FallbackEnds PROVE TimingInv'
  OBVIOUS
<1>1. /\ TimingType /\ loop \in Loops /\ hist \in Histories
      /\ loop.at = "fallback" /\ loop.phase = "Backoff"
  BY DEF TimingInv, TimingType, PlacePhase, FallbackEnds, Answers
<1>2. hist.woke = Never
  BY <1>1 DEF TimingInv, WakeKnown
<1>3. /\ clock' = clock /\ hist' \in Histories /\ hist'.woke = Never
      /\ hist'.attempt = hist.attempt /\ hist'.excused
  BY <1>1, <1>2 DEF FallbackEnds, Answers, Histories
<1>4. \/ loop' \in Failed(loop)
      \/ \E place \in {"thread", "fallback", "send"} : loop' = Begin(loop, place)
  BY DEF FallbackEnds
<1> QED
  BY <1>1, <1>3, <1>4, AttemptKeeps

LEMMA SendEndsInv == TimingInv /\ SendEnds => TimingInv'
<1> SUFFICES ASSUME TimingInv, SendEnds PROVE TimingInv'
  OBVIOUS
<1>1. /\ TimingType /\ loop \in Loops /\ hist \in Histories
      /\ loop.at = "send" /\ loop.phase = "Backoff"
  BY DEF TimingInv, TimingType, PlacePhase, SendEnds, Answers
<1>2. hist.woke = Never
  BY <1>1 DEF TimingInv, WakeKnown
<1> DEFINE l == Observed(loop)
<1>3. /\ clock' = clock /\ hist' = Excused(hist)
      /\ loop' \in Failed(l) \cup {TurnRuns(l)}
  BY DEF SendEnds, Answers, ResetWakeBaseline
<1>4. /\ l \in Loops /\ l.tried = loop.tried /\ l.tick = loop.tick /\ l.phase = "Backoff"
      /\ l.base = [wall |-> clock.wall, mono |-> clock.mono]
  BY <1>1, ObservedType
<1>5. /\ hist' \in Histories /\ hist'.woke = Never /\ hist'.attempt = hist.attempt
  BY <1>1, <1>2, <1>3, ExcusedType
<1> HIDE DEF l
<1>6. CASE loop' \in Failed(l)
  BY <1>1, <1>3, <1>4, <1>5, <1>6, AttemptKeeps
<1>7. CASE loop' = TurnRuns(l)
  BY <1>3, <1>4, <1>5, <1>7, TurnRunsKeeps
<1> QED
  BY <1>3, <1>6, <1>7

\* The loop goes on waiting from l, which is loop observed now: a wake that is
\* seen is answered with the delay.
LEMMA WaitKeeps ==
  ASSUME TimingInv, Selecting, clock' = clock, hist' = Excused(hist), NEW l \in Loops,
         l.at = "select", l.phase = loop.phase, l.next = loop.next,
         l.deadline = loop.deadline, l.tried = loop.tried,
         l.base = [wall |-> clock.wall, mono |-> clock.mono],
         l.tick <= clock.mono + Poll,
         \/ loop' = ToSelect(l) /\ (~WakeSeen \/ loop.phase = "Done")
         \/ loop' = ToSelect(ApplyWakeDelay(l)) /\ loop.phase # "Done"
  PROVE  TimingInv'
<1>1. /\ TimingType /\ loop \in Loops /\ hist \in Histories /\ clock \in Clocks
      /\ loop.at = "select"
  BY DEF TimingInv, TimingType, Selecting
<1> DEFINE w == ApplyWakeDelay(l)
<1>2. PICK m \in {l, w} :
        /\ loop' = ToSelect(m)
        /\ \/ m = l /\ (~WakeSeen \/ loop.phase = "Done")
           \/ m = w /\ loop.phase # "Done"
  <2> HIDE DEF WakeSeen
  <2> QED
    OBVIOUS
<1>3. /\ w \in Loops /\ w.at = l.at /\ w.phase = l.phase /\ w.tried = l.tried
      /\ w.base = l.base /\ w.tick = l.tick
      /\ l.phase = "Waiting" => w.deadline >= l.deadline /\ w.deadline >= clock.mono + WakeDelay
      /\ l.phase # "Waiting" => /\ w.deadline = l.deadline /\ w.next >= l.next
                                /\ w.next >= clock.wall + WakeDelay
  BY <1>1, ApplyWakeType
<1> HIDE DEF w
<1>4. /\ m \in Loops /\ m.phase = loop.phase /\ m.tried = loop.tried
      /\ m.base = [wall |-> clock.wall, mono |-> clock.mono] /\ m.tick <= clock.mono + Poll
  BY <1>2, <1>3
<1>5. /\ m.phase = "Backoff" => m.next >= loop.next /\ m.deadline = loop.deadline
      /\ m.phase = "Waiting" => m.deadline >= loop.deadline /\ m.deadline # Never
      /\ \/ ~WakeSeen \/ loop.phase = "Done"
         \/ /\ m.phase = "Backoff" => m.next >= clock.wall + WakeDelay
            /\ m.phase = "Waiting" => m.deadline >= clock.mono + WakeDelay
  BY <1>1, <1>2, <1>3, TimingAssumption
     DEF TimingInv, TimerRight, Clocks, Loops, Never
<1>6. /\ loop' \in Loops /\ loop'.at = "select" /\ loop'.phase = loop.phase
      /\ loop'.next = m.next /\ loop'.deadline = m.deadline /\ loop'.tried = loop.tried
      /\ loop'.base = m.base /\ loop'.tick = m.tick /\ loop'.timer = NextDeadline(m)
  BY <1>1, <1>2, <1>4, ToSelectType
<1>7. /\ m.deadline # Never => loop'.timer = loop'.deadline
      /\ m.deadline = Never => loop'.timer - clock.mono >= loop'.next - clock.wall
  BY <1>1, <1>4, <1>6, DeadlineOf
<1>8. /\ hist' \in Histories /\ ~hist'.excused /\ hist'.attempt = hist.attempt
      /\ hist'.asked = hist.asked /\ hist'.woke = hist.woke
  BY <1>1, ExcusedType
<1>9. TimingType' /\ TimerRight' /\ PlacePhase' /\ AttemptKnown'
  BY <1>1, <1>4, <1>5, <1>6, <1>7, <1>8
     DEF TimingInv, TimingType, TimerRight, PlacePhase, AttemptKnown
<1>10. RetrySpaced'
  BY <1>1, <1>4, <1>5, <1>6, <1>8, TimingAssumption
     DEF TimingInv, Loops, Histories, RetrySpaced
<1>11. WakeKnown'
  <2>1. ~WakeSeen => ~(clock.wall - loop.base.wall > Gap)
    BY DEF WakeSeen
  <2> QED
    BY <1>1, <1>4, <1>5, <1>6, <1>8, <2>1, TimingAssumption
       DEF TimingInv, Clocks, Loops, Histories, WakeKnown
<1>12. BaseBehind' /\ BaseFresh'
  BY <1>1, <1>4, <1>6, TimingAssumption DEF Clocks, Loops, BaseBehind, BaseFresh
<1> QED
  BY <1>9, <1>10, <1>11, <1>12 DEF TimingInv

LEMMA WakePollInv == TimingInv /\ WakePoll => TimingInv'
<1> SUFFICES ASSUME TimingInv, WakePoll PROVE TimingInv'
  OBVIOUS
<1>1. /\ TimingType /\ loop \in Loops /\ clock \in Clocks /\ Selecting /\ loop.at = "select"
  BY DEF TimingInv, TimingType, WakePoll, PollDue, Selecting
<1> DEFINE o == Observed(loop)
           t == clock.mono + Poll
           l == [o EXCEPT !.tick = t]
<1>2. /\ clock' = clock /\ hist' = Excused(hist)
      /\ loop' = ToSelect(IF WakeSeen /\ l.phase # "Done" THEN ApplyWakeDelay(l) ELSE l)
  BY DEF WakePoll
<1>3. /\ o \in Loops /\ o.at = "select" /\ o.phase = loop.phase /\ o.next = loop.next
      /\ o.deadline = loop.deadline /\ o.tried = loop.tried
      /\ o.base = [wall |-> clock.wall, mono |-> clock.mono]
  BY <1>1, ObservedType
<1>4. t \in Int /\ t <= clock.mono + Poll
  BY <1>1, TimingAssumption DEF Clocks
<1>5. /\ l \in Loops /\ l.at = "select" /\ l.phase = loop.phase /\ l.next = loop.next
      /\ l.deadline = loop.deadline /\ l.tried = loop.tried
      /\ l.base = [wall |-> clock.wall, mono |-> clock.mono] /\ l.tick = t
  <2> HIDE DEF o, t
  <2> QED
    BY <1>3, <1>4 DEF Loops
<1> HIDE DEF l, t
<1>6. CASE WakeSeen /\ l.phase # "Done"
  <2>1. loop' = ToSelect(ApplyWakeDelay(l))
    BY <1>2, <1>6
  <2> QED
    BY <1>1, <1>2, <1>4, <1>5, <1>6, <2>1, WaitKeeps
<1>7. CASE ~(WakeSeen /\ l.phase # "Done")
  <2>1. loop' = ToSelect(l) /\ (~WakeSeen \/ loop.phase = "Done")
    BY <1>2, <1>5, <1>7
  <2> QED
    BY <1>1, <1>2, <1>4, <1>5, <2>1, WaitKeeps
<1> QED
  BY <1>6, <1>7

\* An attempt begins, or a turn is given up.
LEMMA HandleDeadlineInv ==
  ASSUME TimingInv, TimerDue, HandleDeadline, UNCHANGED clock PROVE TimingInv'
<1>1. /\ TimingType /\ loop \in Loops /\ hist \in Histories /\ clock \in Clocks
      /\ loop.at = "select" /\ loop.phase \in {"Backoff", "Waiting"}
  BY DEF TimingInv, TimingType, TimerDue, Selecting, Loops
<1> DEFINE o == Observed(loop)
           h == Settled(Excused(hist))
<1>2. /\ o \in Loops /\ o.phase = loop.phase /\ o.tried = loop.tried /\ o.tick = loop.tick
      /\ o.base = [wall |-> clock.wall, mono |-> clock.mono]
  BY <1>1, ObservedType
<1>3. h \in Histories /\ h.woke = Never /\ h.attempt = hist.attempt
  BY <1>1, ExcusedType, SettledType
<1>4. CASE loop.phase = "Backoff"
  <2> DEFINE place == IF loop.connected THEN "thread" ELSE "connect"
             b == Begin(o, place)
             n == clock.mono
             w == clock.wall
  <2>1. loop' = [b EXCEPT !.tried = n] /\ hist' = [h EXCEPT !.attempt = w, !.asked = FALSE]
    BY <1>4 DEF HandleDeadline
  <2>2. place \in {"thread", "connect"} /\ n \in Int /\ w \in Int /\ n # Never
    BY <1>1 DEF Clocks, Never
  <2> HIDE DEF place, n, w, h, o
  <2>3. /\ b \in Loops /\ b.at = place /\ b.phase = "Backoff" /\ b.base = o.base
        /\ b.tick = loop.tick
    BY <1>2, <1>4, <2>2, BeginType DEF LoopPlaces
  <2> HIDE DEF b
  <2>4. /\ loop' \in Loops /\ loop'.at = place /\ loop'.phase = "Backoff"
        /\ loop'.tick = loop.tick /\ loop'.tried = n
        /\ loop'.base = [wall |-> clock.wall, mono |-> clock.mono]
    BY <1>2, <2>1, <2>2, <2>3 DEF Loops
  <2>5. hist' \in Histories /\ hist'.woke = Never /\ hist'.attempt = w
    BY <1>3, <2>1, <2>2 DEF Histories
  <2>6. PlacePhase' /\ loop'.at # "select"
    BY <2>2, <2>4 DEF PlacePhase
  <2>7. AttemptKnown'
    BY <1>1, <2>2, <2>4, <2>5 DEF AttemptKnown, Clocks, n, w
  <2> QED
    BY <2>4, <2>5, <2>6, <2>7, AwayKeeps
<1>5. CASE loop.phase = "Waiting"
  <2>1. loop' = Begin(o, "interrupt") /\ hist' = h
    BY <1>5 DEF HandleDeadline
  <2> HIDE DEF o, h
  <2>2. /\ loop' \in Loops /\ loop'.at = "interrupt" /\ loop'.phase = "Waiting"
        /\ loop'.tried = loop.tried /\ loop'.base = o.base /\ loop'.tick = loop.tick
    BY <1>2, <1>5, <2>1, BeginType DEF LoopPlaces
  <2>3. PlacePhase' /\ AttemptKnown'
    BY <1>3, <2>1, <2>2 DEF TimingInv, PlacePhase, AttemptKnown
  <2> QED
    BY <1>2, <1>3, <2>1, <2>2, <2>3, AwayKeeps
<1> QED
  BY <1>1, <1>4, <1>5

LEMMA DeadlinePassedInv == TimingInv /\ DeadlinePassed => TimingInv'
<1> SUFFICES ASSUME TimingInv, DeadlinePassed PROVE TimingInv'
  OBVIOUS
<1>1. CASE ~WakeSeen
  BY <1>1, HandleDeadlineInv DEF DeadlinePassed
<1>2. CASE WakeSeen
  <2>1. /\ TimingType /\ loop \in Loops /\ clock \in Clocks /\ Selecting
        /\ loop.at = "select" /\ loop.phase # "Done"
    BY DEF TimingInv, TimingType, DeadlinePassed, TimerDue, Selecting
  <2> DEFINE l == Observed(loop)
  <2>2. clock' = clock /\ hist' = Excused(hist) /\ loop' = ToSelect(ApplyWakeDelay(l))
    BY <1>2 DEF DeadlinePassed
  <2>3. /\ l \in Loops /\ l.at = "select" /\ l.phase = loop.phase /\ l.next = loop.next
        /\ l.deadline = loop.deadline /\ l.tried = loop.tried /\ l.tick = loop.tick
        /\ l.base = [wall |-> clock.wall, mono |-> clock.mono]
    BY <2>1, ObservedType
  <2>4. loop.tick <= clock.mono + Poll
    BY <2>1, TimingAssumption DEF TimingInv, BaseFresh, BaseBehind, Clocks, Loops
  <2> HIDE DEF l
  <2> QED
    BY <2>1, <2>2, <2>3, <2>4, WaitKeeps
<1> QED
  BY <1>1, <1>2

LEMMA TimePassesInv == TimingInv /\ TimePasses => TimingInv'
<1> SUFFICES ASSUME TimingInv, TimePasses PROVE TimingInv'
  OBVIOUS
<1>1. /\ TimingType /\ loop \in Loops /\ hist \in Histories /\ clock \in Clocks
  BY DEF TimingInv, TimingType
<1>2. /\ clock' \in Clocks /\ hist' = hist
      /\ clock'.wall = clock.wall + 1 /\ clock'.mono = clock.mono + 1
  <2> DEFINE w == clock.wall + 1
             m == clock.mono + 1
  <2>1. clock' = [clock EXCEPT !.wall = w, !.mono = m] /\ w \in Nat /\ m \in Nat
    BY <1>1 DEF TimePasses, Clocks
  <2>2. clock' \in Clocks /\ clock'.wall = w /\ clock'.mono = m
    <3> HIDE DEF w, m
    <3> QED
      BY <1>1, <2>1 DEF Clocks
  <2> QED
    BY <2>2 DEF TimePasses
<1>3. /\ loop' \in Loops /\ loop'.at = loop.at /\ loop'.phase = loop.phase
      /\ loop'.next = loop.next /\ loop'.deadline = loop.deadline /\ loop'.tried = loop.tried
      /\ loop'.base = loop.base /\ loop'.tick = loop.tick /\ loop'.timer = loop.timer
  <2>1. CASE Selecting
    BY <1>1, <2>1 DEF TimePasses
  <2>2. CASE ~Selecting
    <3> DEFINE n == loop.left - 1
    <3>1. n \in Int /\ loop' = [loop EXCEPT !.left = n]
      BY <1>1, <2>2 DEF TimePasses, Loops
    <3> HIDE DEF n
    <3> QED
      BY <1>1, <3>1 DEF Loops
  <2> QED
    BY <2>1, <2>2
<1>4. loop.at = "select" => clock.mono < loop.tick
  BY <1>1 DEF TimePasses, PollDue, Selecting, Clocks, Loops
<1>5. TimingType' /\ PlacePhase' /\ RetrySpaced'
  BY <1>1, <1>2, <1>3 DEF TimingInv, TimingType, PlacePhase, RetrySpaced
<1>6. TimerRight' /\ AttemptKnown'
  BY <1>1, <1>2, <1>3
     DEF TimingInv, TimerRight, AttemptKnown, Clocks, Loops, Histories
<1>7. WakeKnown'
  BY <1>1, <1>2, <1>3, TimingAssumption
     DEF TimingInv, WakeKnown, Clocks, Loops, Histories
<1>8. BaseBehind' /\ BaseFresh'
  BY <1>1, <1>2, <1>3, <1>4, TimingAssumption
     DEF TimingInv, BaseBehind, BaseFresh, Clocks, Loops
<1> QED
  BY <1>5, <1>6, <1>7, <1>8 DEF TimingInv

LEMMA SuspendInv ==
  ASSUME TimingInv, NEW d \in Sleeps, Suspend(d) PROVE TimingInv'
<1>1. /\ TimingType /\ loop \in Loops /\ hist \in Histories /\ clock \in Clocks /\ d \in Nat
      /\ loop.phase # "Done"
  BY TimingAssumption DEF TimingInv, TimingType, Suspend
<1> DEFINE counted == IF clock.counted THEN d ELSE 0
           w == clock.wall + d
           m == clock.mono + counted
           n == clock.sleeps + 1
<1>2. counted \in Nat /\ counted <= d
  BY <1>1
<1>3. /\ clock' = [clock EXCEPT !.wall = w, !.mono = m, !.sleeps = n]
      /\ w \in Nat /\ m \in Nat /\ n \in Nat
  <2>1. w \in Nat /\ m \in Nat /\ n \in Nat
    BY <1>1, <1>2 DEF Clocks
  <2> QED
    BY <2>1 DEF Suspend
<1>4. /\ clock' \in Clocks /\ clock'.wall = w /\ clock'.mono = m
  <2> HIDE DEF w, m, n
  <2> QED
    BY <1>1, <1>3 DEF Clocks
<1>5. /\ loop' \in Loops /\ loop'.at = loop.at /\ loop'.phase = loop.phase
      /\ loop'.next = loop.next /\ loop'.deadline = loop.deadline /\ loop'.tried = loop.tried
      /\ loop'.base = loop.base /\ loop'.tick = loop.tick /\ loop'.timer = loop.timer
  <2>1. CASE Selecting
    BY <1>1, <2>1 DEF Suspend
  <2>2. CASE ~Selecting
    <3> DEFINE x == loop.left - counted
               left == Max({0, x})
    <3>1. loop' = [loop EXCEPT !.left = left]
      BY <2>2 DEF Suspend
    <3>2. x \in Int /\ 0 \in Int
      BY <1>1, <1>2 DEF Loops
    <3> HIDE DEF x
    <3>3. left \in Int
      BY <3>2, MaxOfTwo
    <3> HIDE DEF left
    <3> QED
      BY <1>1, <3>1, <3>3 DEF Loops
  <2> QED
    BY <2>1, <2>2
<1>6. /\ hist' \in Histories /\ hist'.excused
      /\ hist'.attempt = hist.attempt /\ hist'.asked = hist.asked
      /\ hist'.woke = IF Selecting /\ d > Gap THEN w ELSE hist.woke
  <2> DEFINE v == IF Selecting /\ d > Gap THEN w ELSE hist.woke
  <2>1. hist' = [hist EXCEPT !.excused = TRUE, !.woke = v] /\ v \in Int
    BY <1>1, <1>3 DEF Suspend, Histories
  <2>2. /\ hist' \in Histories /\ hist'.excused /\ hist'.woke = v
        /\ hist'.attempt = hist.attempt /\ hist'.asked = hist.asked
    <3> HIDE DEF v
    <3> QED
      BY <1>1, <2>1 DEF Histories
  <2> QED
    BY <2>2
<1> HIDE DEF counted
<1>7. clock'.wall = clock.wall + d /\ clock'.mono = clock.mono + counted
  BY <1>4
<1> HIDE DEF w, m, n
<1>8. TimingType' /\ PlacePhase' /\ RetrySpaced'
  BY <1>1, <1>4, <1>5, <1>6 DEF TimingInv, TimingType, PlacePhase, RetrySpaced
<1>9. TimerRight' /\ AttemptKnown'
  BY <1>1, <1>2, <1>5, <1>6, <1>7
     DEF TimingInv, TimerRight, AttemptKnown, Clocks, Loops, Histories
<1>10. WakeKnown'
  <2>1. CASE Selecting /\ d > Gap
    <3>1. clock'.wall - loop'.base.wall > Gap /\ hist'.woke = clock'.wall
      BY <1>1, <1>4, <1>5, <1>6, <1>7, <2>1, TimingAssumption
         DEF TimingInv, BaseBehind, Clocks, Loops
    <3> QED
      BY <1>1, <1>4, <1>5, <2>1, <3>1 DEF WakeKnown, Selecting, Clocks
  <2>2. CASE ~(Selecting /\ d > Gap)
    <3>1. hist'.woke = hist.woke
      BY <1>6, <2>2
    <3> QED
      BY <1>1, <1>2, <1>5, <1>7, <3>1, TimingAssumption
         DEF TimingInv, WakeKnown, Clocks, Loops, Histories
  <2> QED
    BY <2>1, <2>2
<1>11. BaseBehind' /\ BaseFresh'
  BY <1>1, <1>2, <1>5, <1>6, <1>7
     DEF TimingInv, BaseBehind, BaseFresh, Clocks, Loops
<1> QED
  BY <1>8, <1>9, <1>10, <1>11 DEF TimingInv

LEMMA StutterInv == TimingInv /\ UNCHANGED timingVars => TimingInv'
  BY DEF timingVars, TimingInv, TimingType, TimerRight, PlacePhase, AttemptKnown,
         RetrySpaced, BaseBehind, WakeKnown, BaseFresh

LEMMA StepInv == TimingInv /\ [TimingNext]_timingVars => TimingInv'
<1> SUFFICES ASSUME TimingInv, [TimingNext]_timingVars PROVE TimingInv'
  OBVIOUS
<1>1. ASSUME NEW kept \in BOOLEAN, TurnFails(kept) PROVE TimingInv'
  BY <1>1, TurnFailsInv
<1>2. ASSUME NEW fetched \in BOOLEAN, TurnCompletes(fetched) PROVE TimingInv'
  BY <1>2, TurnCompletesInv
<1>3. ASSUME NEW d \in Sleeps, Suspend(d) PROVE TimingInv'
  BY <1>3, SuspendInv
<1> QED
  BY <1>1, <1>2, <1>3, WakePollInv, DeadlinePassedInv, RetryNowInv, DisconnectInv,
     ConnectEndsInv, ThreadEndsInv, FallbackEndsInv, SendEndsInv, FetchEndsInv,
     InterruptEndsInv, TimePassesInv, StutterInv
  DEF TimingNext

LEMMA InvAlways == TimingSpec => []TimingInv
  BY StartInv, StepInv, PTL DEF TimingSpec

-----------------------------------------------------------------------------
\* An attempt and a turn that is given up are the work of DeadlinePassed, at a
\* moment when no wake is to be seen.  Every other step of the loop stays in it,
\* waits for the text of a turn or sends a message that was typed ahead.
LEMMA OnlyDeadline ==
  ASSUME TimingInv, TimingNext, Attempts \/ GivesUp
  PROVE  /\ clock.mono >= loop.timer /\ ~WakeSeen /\ loop.phase \in {"Backoff", "Waiting"}
         /\ Attempts => loop.phase = "Backoff"
         /\ GivesUp => loop.phase = "Waiting"
<1>1. /\ TimingType /\ loop \in Loops /\ clock \in Clocks /\ loop.at = "select" /\ Selecting
      /\ loop'.at \in {"connect", "thread", "interrupt"}
  BY DEF TimingInv, TimingType, Attempts, GivesUp, Selecting
<1> DEFINE o == Observed(loop)
<1>2. o \in Loops /\ o.phase = loop.phase
  BY <1>1, ObservedType
<1>3. /\ \A l \in Loops : ToSelect(l).at = "select" /\ ApplyWakeDelay(l) \in Loops
      /\ \A l \in Loops : ScheduleRetry(l).at = "select"
  BY <1>1, ToSelectType, ApplyWakeType, ScheduleRetryType
<1>4. ~WakePoll
  <2> DEFINE t == clock.mono + Poll
             l == [o EXCEPT !.tick = t]
  <2>1. t \in Int
    BY <1>1, TimingAssumption DEF Clocks
  <2>2. l \in Loops
    <3> HIDE DEF o, t
    <3> QED
      BY <1>2, <2>1 DEF Loops
  <2>3. WakePoll => loop' \in {ToSelect(l), ToSelect(ApplyWakeDelay(l))}
    BY DEF WakePoll
  <2> HIDE DEF l
  <2> QED
    BY <1>1, <1>3, <2>2, <2>3
<1>5. ~RetryNow
  <2> DEFINE n == clock.wall
             l == [loop EXCEPT !.next = n]
  <2>1. n \in Int
    BY <1>1 DEF Clocks
  <2>2. l \in Loops
    <3> HIDE DEF n
    <3> QED
      BY <1>1, <2>1 DEF Loops
  <2>3. RetryNow => loop' = ToSelect(l)
    BY DEF RetryNow
  <2> HIDE DEF l
  <2> QED
    BY <1>1, <1>3, <2>2, <2>3
<1>6. ~Disconnect
  <2> DEFINE l == [loop EXCEPT !.connected = FALSE]
  <2>1. l \in Loops
    BY <1>1 DEF Loops
  <2>2. Disconnect => loop' = ToSelect(l)
    BY DEF Disconnect
  <2> HIDE DEF l
  <2> QED
    BY <1>1, <1>3, <2>1, <2>2
<1>7. ASSUME NEW kept \in BOOLEAN, TurnFails(kept) PROVE FALSE
  <2> DEFINE l == [loop EXCEPT !.connected = kept]
  <2>1. l \in Loops
    BY <1>1 DEF Loops
  <2>2. loop' = ScheduleRetry(l)
    BY <1>7 DEF TurnFails
  <2> HIDE DEF l
  <2> QED
    BY <1>1, <1>3, <2>1, <2>2
<1>8. ASSUME NEW fetched \in BOOLEAN, TurnCompletes(fetched) PROVE FALSE
  <2> DEFINE n == clock.wall
             d == [loop EXCEPT !.phase = "Done", !.deadline = Never]
             m == [loop EXCEPT !.phase = "Backoff", !.deadline = Never, !.next = n]
  <2>1. n \in Int
    BY <1>1 DEF Clocks
  <2>2. d \in Loops /\ m \in Loops
    <3> HIDE DEF n
    <3> QED
      BY <1>1, <2>1, NeverType DEF Loops
  <2>3. loop' \in {Begin(loop, "fetch"), ToSelect(d), ScheduleRetry(loop),
                  Begin(m, "send"), ToSelect(m)}
    BY <1>8 DEF TurnCompletes, Completed, AtRest, QueuedMessage
  <2> HIDE DEF d, m
  <2>4. Begin(loop, "fetch").at = "fetch" /\ Begin(m, "send").at = "send"
    BY <1>1, <2>2, BeginType DEF LoopPlaces
  <2> QED
    BY <1>1, <1>3, <2>2, <2>3, <2>4
<1>9. ~ConnectEnds /\ ~ThreadEnds /\ ~FallbackEnds /\ ~SendEnds /\ ~FetchEnds /\ ~InterruptEnds
  BY <1>1 DEF ConnectEnds, ThreadEnds, FallbackEnds, SendEnds, FetchEnds, InterruptEnds, Answers
<1>10. ~TimePasses /\ \A d \in Sleeps : ~Suspend(d)
  BY <1>1 DEF TimePasses, Suspend
<1>11. DeadlinePassed
  BY <1>4, <1>5, <1>6, <1>7, <1>8, <1>9, <1>10 DEF TimingNext
<1>12. ~WakeSeen /\ TimerDue /\ HandleDeadline
  <2>1. DeadlinePassed /\ WakeSeen => loop' = ToSelect(ApplyWakeDelay(o))
    BY DEF DeadlinePassed
  <2> HIDE DEF o
  <2> QED
    BY <1>1, <1>2, <1>3, <1>11, <2>1 DEF DeadlinePassed
<1>13. clock.mono >= loop.timer /\ loop.phase \in {"Backoff", "Waiting"}
  BY <1>1, <1>12 DEF TimerDue, Loops
<1>14. Attempts => loop.phase = "Backoff"
  <2>1. HandleDeadline /\ loop.phase # "Backoff" => loop' = Begin(o, "interrupt")
    BY DEF HandleDeadline
  <2> HIDE DEF o
  <2>2. Begin(o, "interrupt").at = "interrupt"
    BY <1>2, BeginType DEF LoopPlaces
  <2> QED
    BY <1>12, <2>1, <2>2 DEF Attempts
<1>15. GivesUp => loop.phase = "Waiting"
  <2> SUFFICES ASSUME loop.phase = "Backoff" PROVE ~GivesUp
    BY <1>13
  <2> DEFINE place == IF loop.connected THEN "thread" ELSE "connect"
             b == Begin(o, place)
             n == clock.mono
  <2>1. loop' = [b EXCEPT !.tried = n] /\ place \in {"thread", "connect"}
    BY <1>12 DEF HandleDeadline
  <2> HIDE DEF place, n, o
  <2>2. b \in Loops /\ b.at = place
    BY <1>2, <2>1, BeginType DEF LoopPlaces
  <2> HIDE DEF b
  <2>3. loop'.at = place
    BY <2>1, <2>2 DEF Loops
  <2> QED
    BY <2>1, <2>3 DEF GivesUp
<1> QED
  BY <1>12, <1>13, <1>14, <1>15

\* Two attempts that ensure_connection_and_thread begins are Spacing apart, unless
\* the user asks for the second: whatever came between them, a message typed ahead
\* too, the retry is as far from the first by the wall clock as retry_delay makes it
\* by the monotonic clock, or further.  Of an attempt that start_queued_message
\* begins this is not so: its retry is counted from the attempt before.
THEOREM SpacingKeptCorrect == TimingSpec => SpacingKept
<1>1. ASSUME TimingInv, TimingNext, Attempts, hist.attempt # Never, ~hist.asked
      PROVE  clock.wall - hist.attempt >= Spacing
  <2>1. /\ loop \in Loops /\ clock \in Clocks /\ hist \in Histories /\ loop.at = "select"
    BY <1>1 DEF TimingInv, TimingType, Attempts, Selecting
  <2>2. clock.mono >= loop.timer /\ loop.phase = "Backoff"
    BY <1>1, OnlyDeadline
  <2>3. /\ loop.timer - clock.mono >= loop.next - clock.wall
        /\ loop.next >= hist.attempt + Spacing
    BY <1>1, <2>1, <2>2 DEF TimingInv, TimerRight, RetrySpaced
  <2> QED
    BY <2>1, <2>2, <2>3, TimingAssumption DEF Clocks, Loops, Histories
<1>2. TimingInv /\ [TimingNext]_timingVars =>
        [Attempts /\ hist.attempt # Never /\ ~hist.asked
           => clock.wall - hist.attempt >= Spacing]_timingVars
  BY <1>1
<1> QED
  BY <1>2, InvAlways, PTL DEF TimingSpec, SpacingKept

\* What waited through a long sleep is not done before WakeDelay has passed since
\* the machine woke: until then the wake is to be seen, and is seen before the
\* attempt, or the delay has been added to what the loop waits for.
THEOREM WakeRespectedCorrect == TimingSpec => WakeRespected
<1>1. ASSUME TimingInv, TimingNext, Attempts \/ GivesUp, hist.woke # Never
      PROVE  clock.wall - hist.woke >= WakeDelay
  <2>1. /\ loop \in Loops /\ clock \in Clocks /\ hist \in Histories /\ loop.at = "select"
    BY <1>1 DEF TimingInv, TimingType, Attempts, GivesUp, Selecting
  <2>2. /\ clock.mono >= loop.timer /\ ~WakeSeen /\ loop.phase \in {"Backoff", "Waiting"}
    BY <1>1, OnlyDeadline
  <2>3. ~(clock.wall - loop.base.wall > Gap)
    BY <2>2 DEF WakeSeen
  <2>4. CASE loop.phase = "Backoff"
    <3>1. loop.timer - clock.mono >= loop.next - clock.wall
      BY <1>1, <2>1, <2>4 DEF TimingInv, TimerRight
    <3>2. loop.next >= hist.woke + WakeDelay
      BY <1>1, <2>3, <2>4 DEF TimingInv, WakeKnown
    <3> QED
      BY <2>1, <2>2, <3>1, <3>2, TimingAssumption DEF Clocks, Loops, Histories
  <2>5. CASE loop.phase = "Waiting"
    <3>1. loop.timer = loop.deadline
      BY <1>1, <2>1, <2>5 DEF TimingInv, TimerRight
    <3>2. loop.deadline - clock.mono >= hist.woke + WakeDelay - clock.wall
      BY <1>1, <2>3, <2>5 DEF TimingInv, WakeKnown
    <3> QED
      BY <2>1, <2>2, <3>1, <3>2, TimingAssumption DEF Clocks, Loops, Histories
  <2> QED
    BY <2>2, <2>4, <2>5
<1>2. TimingInv /\ [TimingNext]_timingVars =>
        [(Attempts \/ GivesUp) /\ hist.woke # Never
           => clock.wall - hist.woke >= WakeDelay]_timingVars
  BY <1>1
<1> QED
  BY <1>2, InvAlways, PTL DEF TimingSpec, WakeRespected

\* A machine that stays awake is not taken to have slept, however long the worker
\* waited for Codex: its baseline is no older than one poll, in which the two
\* clocks went the same way.
THEOREM NoFalseWakeCorrect == TimingSpec => []NoFalseWake
<1>1. TimingInv => NoFalseWake
  BY TimingAssumption
     DEF TimingInv, TimingType, Clocks, Loops, BaseFresh, NoFalseWake, WakeSeen, Selecting
<1> QED
  BY <1>1, InvAlways, PTL
=============================================================================
