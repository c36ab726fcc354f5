---------------------------- MODULE SchedulerProofs ----------------------------
(***************************************************************************)
(* What holds of the scheduler for any number of conversations, tasks,     *)
(* commands and crashes, and every limit.                                  *)
(*                                                                         *)
(* The scheduler's handlers are functions from g = [s |-> sched,           *)
(* l |-> lanes] to the next g.  Each is shown to keep the types (States),  *)
(* the places of the conversations (Housed, Away, Numbered) and what a     *)
(* slot knows of its worker (Tied), and to do one of the few things that   *)
(* LaneQueue lets a step do to the queue and to the lanes (Outcome).       *)
(***************************************************************************)
EXTENDS Scheduler, TLAPS, FiniteSetTheorems

-----------------------------------------------------------------------------
\* Numbers and sets.

\* Induction up to n: the successor is an injection of P into P without 0,
\* which the pigeonhole principle rules out.
LEMMA UpTo ==
  ASSUME NEW n \in Nat, NEW P \in SUBSET (0..n), 0 \in P,
         \A k \in P : k < n => k + 1 \in P
  PROVE  n \in P
<1> SUFFICES ASSUME n \notin P PROVE FALSE
  OBVIOUS
<1> DEFINE Q == P \ {0}
           next == [k \in P |-> k + 1]
<1>1. IsFiniteSet(P)
  BY FS_Interval, FS_Subset, 0 \in Int, n \in Int
<1>2. IsFiniteSet(Q) /\ Cardinality(Q) < Cardinality(P)
  <2>1. /\ IsFiniteSet(Q) /\ Cardinality(P) \in Nat
        /\ Cardinality(Q) = Cardinality(P) - 1
    BY <1>1, FS_RemoveElement, FS_CardinalityType
  <2> QED
    BY <2>1
<1>3. next \in [P -> Q]
  OBVIOUS
<1>4. \E x, y \in P : x # y /\ next[x] = next[y]
  <2> HIDE DEF Q, next
  <2> QED
    BY <1>1, <1>2, <1>3, FS_PigeonHole
<1> QED
  BY <1>4

\* Some element of a bounded set has the largest value, and some the smallest.
LEMMA Best ==
  ASSUME NEW n \in Nat, NEW S \in SUBSET (1..n), S # {}, NEW f, \A x \in S : f[x] \in Int
  PROVE  \E x \in S : \A y \in S : f[x] >= f[y]
<1> DEFINE P == {m \in 0..n : \/ S \cap (1..m) = {}
                              \/ \E x \in S : \A y \in S \cap (1..m) : f[x] >= f[y]}
<1>1. 0 \in P
  OBVIOUS
<1>2. ASSUME NEW m \in P, m < n PROVE m + 1 \in P
  <2>0. m + 1 \in 0..n /\ m \in Nat
    BY <1>2
  <2>1. CASE m + 1 \notin S
    <3>1. S \cap (1..m + 1) = S \cap (1..m)
      BY <2>0, <2>1
    <3> QED BY <2>0, <3>1
  <2>2. CASE m + 1 \in S /\ S \cap (1..m) = {}
    <3>1. \A y \in S \cap (1..m + 1) : y = m + 1
      BY <2>0, <2>2
    <3>2. f[m + 1] >= f[m + 1]
      BY <2>2
    <3> QED BY <2>0, <2>2, <3>1, <3>2
  <2>3. CASE m + 1 \in S /\ S \cap (1..m) # {}
    <3>1. PICK x \in S : \A y \in S \cap (1..m) : f[x] >= f[y]
      BY <2>3
    <3>2. \A y \in S \cap (1..m + 1) : y = m + 1 \/ y \in S \cap (1..m)
      BY <2>0
    <3>3. CASE f[x] >= f[m + 1]
      BY <2>0, <3>1, <3>2, <3>3
    <3>4. CASE f[m + 1] >= f[x]
      <4>1. \A y \in S \cap (1..m + 1) : f[m + 1] >= f[y]
        BY <2>3, <3>1, <3>2, <3>4
      <4> QED BY <2>0, <2>3, <4>1
    <3> QED BY <2>3, <3>1, <3>3, <3>4
  <2> QED BY <2>1, <2>2, <2>3
<1>3. n \in P
  <2>1. P \in SUBSET (0..n)
    OBVIOUS
  <2> HIDE DEF P
  <2> QED BY <1>1, <1>2, <2>1, UpTo
<1> QED
  BY <1>3

LEMMA MaxOf ==
  ASSUME NEW n \in Nat, NEW S \in SUBSET (1..n), S # {}
  PROVE  Max(S) \in S /\ \A y \in S : y <= Max(S)
<1> DEFINE f == [x \in S |-> x]
<1>1. \A x \in S : f[x] \in Int /\ f[x] = x
  OBVIOUS
<1>2. \E x \in S : \A y \in S : x >= y
  <2> HIDE DEF f
  <2>1. PICK x \in S : \A y \in S : f[x] >= f[y]
    BY <1>1, Best
  <2> QED BY <1>1, <2>1
<1> QED
  BY <1>2 DEF Max

LEMMA MinOf ==
  ASSUME NEW n \in Nat, NEW S \in SUBSET (1..n), S # {}
  PROVE  Min(S) \in S
<1> DEFINE f == [x \in S |-> -x]
<1>1. \A x \in S : f[x] \in Int /\ f[x] = -x
  OBVIOUS
<1>2. \E x \in S : \A y \in S : x <= y
  <2> HIDE DEF f
  <2>1. PICK x \in S : \A y \in S : f[x] >= f[y]
    BY <1>1, Best
  <2> QED BY <1>1, <2>1
<1> QED
  BY <1>2 DEF Min

\* A part of the sessions has a number of members.
LEMMA SessionsCounted ==
  ASSUME NEW S \in SUBSET Sessions
  PROVE  IsFiniteSet(S) /\ Cardinality(S) \in Nat
<1>1. MaxSession \in Int /\ 1 \in Int
  BY SchedulerAssumption
<1>2. IsFiniteSet(Sessions)
  BY <1>1, FS_Interval DEF Sessions
<1> QED
  BY <1>2, FS_Subset, FS_CardinalityType

-----------------------------------------------------------------------------
\* Queues.

Queued(q) == [k \in DOMAIN q |-> Entry(q[k])]

LEMMA FewerSelf == ASSUME NEW v PROVE Promise!Fewer(v, v)
<1> DEFINE f == [k \in DOMAIN v |-> k]
<1>1. f \in [DOMAIN v -> DOMAIN v] /\ \A k \in DOMAIN v : f[k] = k
  OBVIOUS
<1> HIDE DEF f
<1> QED
  BY <1>1 DEF Promise!Fewer

LEMMA FewerFewer ==
  ASSUME NEW u, NEW v, NEW w, Promise!Fewer(u, v), Promise!Fewer(v, w)
  PROVE  Promise!Fewer(u, w)
<1>1. PICK f \in [DOMAIN u -> DOMAIN v] :
        /\ \A j, k \in DOMAIN u : j < k => f[j] < f[k]
        /\ \A k \in DOMAIN u : u[k] = v[f[k]]
  BY DEF Promise!Fewer
<1>2. PICK h \in [DOMAIN v -> DOMAIN w] :
        /\ \A j, k \in DOMAIN v : j < k => h[j] < h[k]
        /\ \A k \in DOMAIN v : v[k] = w[h[k]]
  BY DEF Promise!Fewer
<1> DEFINE e == [k \in DOMAIN u |-> h[f[k]]]
<1>3. e \in [DOMAIN u -> DOMAIN w] /\ \A k \in DOMAIN u : e[k] = h[f[k]]
  BY <1>1, <1>2
<1> HIDE DEF e
<1>4. \A j, k \in DOMAIN u : j < k => e[j] < e[k]
  BY <1>1, <1>2, <1>3
<1>5. \A k \in DOMAIN u : u[k] = w[e[k]]
  BY <1>1, <1>2, <1>3
<1> QED
  BY <1>3, <1>4, <1>5 DEF Promise!Fewer

LEMMA FewerWaiting ==
  ASSUME NEW v, NEW w, Promise!Fewer(v, w)
  PROVE  Promise!Fewer(Queued(v), Queued(w))
<1>1. PICK f \in [DOMAIN v -> DOMAIN w] :
        /\ \A j, k \in DOMAIN v : j < k => f[j] < f[k]
        /\ \A k \in DOMAIN v : v[k] = w[f[k]]
  BY DEF Promise!Fewer
<1>2. DOMAIN Queued(v) = DOMAIN v /\ DOMAIN Queued(w) = DOMAIN w
  BY DEF Queued
<1>3. \A k \in DOMAIN v : Queued(v)[k] = Queued(w)[f[k]]
  BY <1>1 DEF Queued
<1> QED
  BY <1>1, <1>2, <1>3 DEF Promise!Fewer

\* f is the function that Retain computes.
Pick(q, kept, f, k) ==
  IF k = 0 THEN << >>
  ELSE IF k \in kept THEN Append(f[k - 1], q[k]) ELSE f[k - 1]
Picks(q, kept, f, n) == f = [k \in 0..n |-> Pick(q, kept, f, k)]

LEMMA PicksExist == ASSUME NEW q, NEW kept, NEW n \in Nat PROVE \E f : Picks(q, kept, f, n)
<1> DEFINE P == {m \in 0..n : \E f : Picks(q, kept, f, m)}
<1>1. 0 \in P
  <2>1. Picks(q, kept, [k \in 0..0 |-> << >>], 0)
    BY DEF Picks, Pick
  <2> QED
    BY <2>1
<1>2. ASSUME NEW m \in P, m < n PROVE m + 1 \in P
  <2>1. PICK f : Picks(q, kept, f, m)
    OBVIOUS
  <2>2. m \in 0..n /\ m + 1 \in 0..n /\ m \in Nat
    BY <1>2
  <2> HIDE DEF P
  <2> DEFINE last == IF m + 1 \in kept THEN Append(f[m], q[m + 1]) ELSE f[m]
             h == [k \in 0..m + 1 |-> IF k = m + 1 THEN last ELSE f[k]]
  <2>3. \A k \in 0..m : f[k] = Pick(q, kept, f, k)
    BY <2>1, <2>2 DEF Picks
  <2> HIDE DEF last
  <2>4. \A k \in 0..m : h[k] = Pick(q, kept, h, k)
    <3>1. \A k \in 0..m : h[k] = f[k]
      BY <2>2
    <3> HIDE DEF h
    <3> QED
      BY <2>2, <2>3, <3>1 DEF Pick
  <2>5. h[m + 1] = Pick(q, kept, h, m + 1)
    BY <2>2 DEF last, Pick
  <2>6. Picks(q, kept, h, m + 1)
    <3>1. h = [k \in 0..m + 1 |-> h[k]]
      OBVIOUS
    <3>2. \A k \in 0..m + 1 : k \in 0..m \/ k = m + 1
      BY <2>2
    <3> HIDE DEF h
    <3>3. \A k \in 0..m + 1 : h[k] = Pick(q, kept, h, k)
      BY <2>4, <2>5, <3>2
    <3> QED
      BY <3>1, <3>3 DEF Picks
  <2> HIDE DEF h
  <2> QED
    BY <2>2, <2>6 DEF P
<1> HIDE DEF P
<1>3. P \in SUBSET (0..n)
  BY DEF P
<1> QED
  BY <1>1, <1>2, <1>3, UpTo DEF P

\* v is q up to k without some entries.
Drawn(q, v, k) ==
  \E e \in [DOMAIN v -> 1..k] :
    /\ \A i, j \in DOMAIN v : i < j => e[i] < e[j]
    /\ \A i \in DOMAIN v : v[i] = q[e[i]]

\* One more entry, which comes after all those kept so far.
LEMMA FewerAppend ==
  ASSUME NEW S, NEW q \in Seq(S), NEW v \in Seq(S), NEW k \in 1..Len(q),
         Drawn(q, v, k - 1)
  PROVE  Drawn(q, Append(v, q[k]), k)
<1>0. PICK f \in [DOMAIN v -> 1..k - 1] :
        /\ \A i, j \in DOMAIN v : i < j => f[i] < f[j]
        /\ \A i \in DOMAIN v : v[i] = q[f[i]]
  BY DEF Drawn
<1> DEFINE n == Len(v)
           r == Append(v, q[k])
           e == [i \in 1..n + 1 |-> IF i = n + 1 THEN k ELSE f[i]]
<1>1. n \in Nat /\ DOMAIN v = 1..n /\ DOMAIN r = 1..n + 1 /\ k \in Nat
  OBVIOUS
<1>2. \A i \in 1..n + 1 : i # n + 1 => i \in DOMAIN v
  BY <1>1
<1>3. r[n + 1] = q[k] /\ \A i \in DOMAIN v : r[i] = v[i]
  BY <1>1
<1>4. e[n + 1] = k /\ \A i \in DOMAIN v : e[i] = f[i] /\ e[i] \in 1..k - 1
  BY <1>0, <1>1
<1>5. e \in [1..n + 1 -> 1..k]
  BY <1>1, <1>2, <1>4
<1> HIDE DEF e, r, n
<1>6. \A i, j \in 1..n + 1 : i < j => e[i] < e[j]
  <2> SUFFICES ASSUME NEW i \in 1..n + 1, NEW j \in 1..n + 1, i < j PROVE e[i] < e[j]
    OBVIOUS
  <2>1. i \in DOMAIN v
    BY <1>1, <1>2
  <2>2. CASE j = n + 1
    BY <1>1, <1>4, <2>1, <2>2
  <2>3. CASE j # n + 1
    BY <1>0, <1>2, <1>4, <2>1, <2>3
  <2> QED BY <2>2, <2>3
<1>7. \A i \in 1..n + 1 : r[i] = q[e[i]]
  BY <1>0, <1>1, <1>2, <1>3, <1>4
<1>8. e \in [DOMAIN r -> 1..k] /\ DOMAIN r = 1..n + 1
  BY <1>1, <1>5
<1>9. Drawn(q, r, k)
  BY <1>6, <1>7, <1>8 DEF Drawn
<1> QED
  BY <1>9 DEF r

LEMMA RetainFewer ==
  ASSUME NEW S, NEW q \in Seq(S), NEW kept
  PROVE  Retain(q, kept) \in Seq(S) /\ Promise!Fewer(Retain(q, kept), q)
<1> DEFINE n == Len(q)
<1>0. n \in Nat /\ DOMAIN q = 1..n
  OBVIOUS
<1>1. PICK f : /\ Picks(q, kept, f, n) /\ Retain(q, kept) = f[n]
  <2>1. \E f : f = [k \in 0..n |-> IF k = 0 THEN << >>
                      ELSE IF k \in kept THEN Append(f[k - 1], q[k]) ELSE f[k - 1]]
    <3>1. PICK f : Picks(q, kept, f, n)
      BY <1>0, PicksExist
    <3> QED
      BY <3>1 DEF Picks, Pick
  <2> QED
    BY <2>1 DEF Retain, Picks, Pick
<1> HIDE DEF n
<1>2. \A k \in 0..n : f[k] = Pick(q, kept, f, k)
  BY <1>1 DEF Picks
<1> DEFINE P == {k \in 0..n : f[k] \in Seq(S) /\ Drawn(q, f[k], k)}
<1>p. /\ P \in SUBSET (0..n)
      /\ \A k \in 0..n : k \in P <=> f[k] \in Seq(S) /\ Drawn(q, f[k], k)
  OBVIOUS
<1> HIDE DEF P
<1>3. 0 \in P
  <2>1. f[0] = << >>
    BY <1>0, <1>2 DEF Pick
  <2>2. << >> \in Seq(S) /\ DOMAIN << >> = {} /\ << >> \in [{} -> 1..0]
    OBVIOUS
  <2>3. Drawn(q, << >>, 0)
    BY <2>2 DEF Drawn
  <2>4. f[0] \in Seq(S) /\ Drawn(q, f[0], 0)
    BY <2>1, <2>2, <2>3, Zenon
  <2>5. 0 \in 0..n
    BY <1>0
  <2> QED BY <1>p, <2>4, <2>5
<1>4. ASSUME NEW m \in P, m < n PROVE m + 1 \in P
  <2>0. m + 1 \in 1..n /\ m + 1 \in 0..n /\ m \in Nat /\ m + 1 - 1 = m
        /\ f[m] \in Seq(S) /\ Drawn(q, f[m], m)
    BY <1>0, <1>4, <1>p
  <2>2. f[m + 1] = IF m + 1 \in kept THEN Append(f[m], q[m + 1]) ELSE f[m]
    BY <1>0, <1>2, <2>0 DEF Pick
  <2>3. CASE m + 1 \in kept
    <3>1. q[m + 1] \in S
      BY <1>0, <2>0
    <3>2. Drawn(q, Append(f[m], q[m + 1]), m + 1)
      <4>1. m + 1 \in 1..Len(q) /\ Drawn(q, f[m], (m + 1) - 1)
        BY <2>0 DEF n
      <4> QED BY <2>0, <4>1, FewerAppend
    <3>3. Append(f[m], q[m + 1]) \in Seq(S)
      BY <2>0, <3>1
    <3> QED BY <1>p, <2>0, <2>2, <2>3, <3>2, <3>3
  <2>4. CASE m + 1 \notin kept
    <3>1. Drawn(q, f[m], m + 1)
      <4>1. \A e \in [DOMAIN f[m] -> 1..m] : e \in [DOMAIN f[m] -> 1..m + 1]
        BY <2>0
      <4> QED BY <2>0, <4>1 DEF Drawn
    <3> QED BY <1>p, <2>0, <2>2, <2>4, <3>1
  <2> QED BY <2>3, <2>4
<1>5. n \in P
  BY <1>0, <1>3, <1>4, <1>p, UpTo
<1> QED
  BY <1>0, <1>1, <1>5, <1>p DEF Promise!Fewer, Drawn

-----------------------------------------------------------------------------
\* Workers.

Starting == {"start", "new", "resume"}
StartsIn(l) == {k \in DOMAIN l.inbox : l.inbox[k].kind \in Starting}

\* Nothing that was sent to the worker starts a task, and something does.
Quiet(l) == StartsIn(l) = {} /\ l.doing = Nothing
Outstanding(l) ==
  \/ l.doing = Nothing /\ \E k \in DOMAIN l.inbox : StartsIn(l) = {k}
  \/ l.doing # Nothing /\ StartsIn(l) = {}

\* A worker that was told to end, and one that has.
Leaving(l) == l.up /\ \E k \in DOMAIN l.inbox : l.inbox[k].kind = "shutdown"
Gone(l) == ~l.up /\ l.view.phase = "Idle" /\ l.view.queued = None

\* The fields that these depend on.
Shows(x, doing, phase, done, up) ==
  x.doing = doing /\ x.view.phase = phase /\ x.view.done = done /\ x.up = up

LEMMA PlainTypes ==
  ASSUME NEW l \in Lane
  PROVE  /\ Processed(l) \in Lane /\ Processed(l).inbox = l.inbox
         /\ Saved(l) \in Lane /\ Saved(l).inbox = l.inbox
<1>1. l.view \in View /\ l.view.done + 1 \in Nat
  BY DEF Lane, View
<1> DEFINE v == [l.view EXCEPT !.done = @ + 1]
<1>2. v \in View
  BY <1>1 DEF View
<1>3. Processed(l) = [l EXCEPT !.view = v]
  BY DEF Processed, Lane
<1> HIDE DEF v
<1> QED
  BY <1>2, <1>3 DEF Saved, Lane

LEMMA HandledTypes ==
  ASSUME NEW l \in Lane, NEW c \in Command, NEW x \in Handled(l, c)
  PROVE  x \in Lane /\ x.inbox = l.inbox
<1>0. l.view \in View /\ c.task \in MaybeTask /\ c.request \in MaybeTask /\ None \in MaybeTask
  BY DEF Lane, Command, MaybeTask, None
<1>1. CASE c.kind = "start"
  <2>0. \/ x = StartAccepted(l, c)
        \/ x = Saved(Processed(l))
    BY <1>1 DEF Handled
  <2>1. CASE x = StartAccepted(l, c)
    BY <1>0, <1>1, <2>1 DEF StartAccepted, Saved, Processed, Lane, View, Phases
  <2>2. CASE x = Saved(Processed(l))
    BY <2>2, PlainTypes
  <2> QED BY <2>0, <2>1, <2>2
<1>2. CASE c.kind = "new"
  <2>1. x = StartNewAccepted(l, c)
    BY <1>2 DEF Handled
  <2> QED
    BY <1>0, <1>2, <2>1 DEF StartNewAccepted, Saved, Blank, Lane, View, Phases
<1>3. CASE c.kind = "resume"
  <2>0. \/ x = Processed(l)
        \/ x = Saved(Processed([l EXCEPT !.view.phase = "Paused"]))
        \/ x = Saved([l EXCEPT !.doing = c, !.view.phase = "Running"])
    BY <1>3 DEF Handled
  <2>1. CASE x = Processed(l)
    BY <2>1, PlainTypes
  <2>2. CASE x = Saved(Processed([l EXCEPT !.view.phase = "Paused"]))
    <3>1. [l EXCEPT !.view.phase = "Paused"] \in Lane
          /\ [l EXCEPT !.view.phase = "Paused"].inbox = l.inbox
      BY DEF Lane, View, Phases
    <3> QED BY <2>2, <3>1, PlainTypes
  <2>3. CASE x = Saved([l EXCEPT !.doing = c, !.view.phase = "Running"])
    BY <1>0, <1>3, <2>3 DEF Saved, Processed, Lane, View, Phases
  <2> QED BY <2>0, <2>1, <2>2, <2>3
<1>4. CASE c.kind = "queue"
  <2>0. \/ x = Saved(Processed(l))
        \/ x = Saved(Processed([l EXCEPT !.view.queued = c.task, !.view.accepted = c.request]))
    BY <1>4 DEF Handled
  <2>1. CASE x = Saved(Processed(l))
    BY <2>1, PlainTypes
  <2>2. CASE x = Saved(Processed([l EXCEPT !.view.queued = c.task, !.view.accepted = c.request]))
    <3>1. LET m == [l EXCEPT !.view.queued = c.task, !.view.accepted = c.request]
          IN m \in Lane /\ m.inbox = l.inbox
      BY <1>0 DEF Lane, View, Phases
    <3> QED BY <2>2, <3>1, PlainTypes
  <2> QED BY <2>0, <2>1, <2>2
<1>5. CASE c.kind = "pause"
  <2>1. x = Saved([l EXCEPT !.view.phase = "Paused"])
    BY <1>5 DEF Handled
  <2> QED
    BY <1>0, <1>5, <2>1 DEF Saved, Lane, View, Phases
<1>6. CASE c.kind = "stop"
  <2>1. x = Saved([l EXCEPT !.view.phase = "Idle", !.view.accepted = None])
    BY <1>6 DEF Handled
  <2> QED
    BY <1>0, <1>6, <2>1 DEF Saved, Lane, View, Phases
<1>7. CASE c.kind = "reset"
  <2>1. x = Saved([Cleared(l) EXCEPT !.conf = None])
    BY <1>7 DEF Handled
  <2> QED
    BY <1>0, <1>7, <2>1 DEF Saved, Cleared, Blank, Lane, View, Phases
<1>8. CASE c.kind = "withdraw"
  <2>1. x = [l EXCEPT !.view.queued = None]
    BY <1>8 DEF Handled
  <2> QED
    BY <1>0, <1>8, <2>1 DEF Lane, View, Phases
<1>9. CASE c.kind = "configure"
  <2>0. \/ x = Saved([l EXCEPT !.conf = c.task, !.view.task = c.task])
        \/ x = Saved([l EXCEPT !.conf = l.view.task])
    BY <1>9 DEF Handled
  <2>1. CASE x = Saved([l EXCEPT !.conf = c.task, !.view.task = c.task])
    BY <1>0, <1>9, <2>1 DEF Saved, Lane, View, Phases
  <2>2. CASE x = Saved([l EXCEPT !.conf = l.view.task])
    BY <1>0, <1>9, <2>2 DEF Saved, Lane, View, Phases
  <2> QED BY <2>0, <2>1, <2>2
<1>10. CASE c.kind = "shutdown"
  <2>1. x = ShutDown(l)
    BY <1>10 DEF Handled
  <2> QED
    BY <1>0, <1>10, <2>1 DEF Saved, Cleared, ShutDown, Blank, Lane, View, Phases
<1> QED
  BY <1>1, <1>2, <1>3, <1>4, <1>5, <1>6, <1>7, <1>8, <1>9, <1>10 DEF Command, CommandKinds

LEMMA HandledShows ==
  ASSUME NEW l \in Lane, NEW c \in Command, NEW x \in Handled(l, c)
  PROVE  LET phase == l.view.phase
             done  == l.view.done
         IN /\ c.kind \in Starting =>
                 \/ Shows(x, c, "Running", done, l.up)
                 \/ Shows(x, l.doing, phase, done + 1, l.up)
                 \/ Shows(x, l.doing, "Paused", done + 1, l.up)
            /\ c.kind = "queue" => Shows(x, l.doing, phase, done + 1, l.up)
            /\ c.kind = "pause" => Shows(x, l.doing, "Paused", done, l.up)
            /\ c.kind \in {"stop", "reset"} => Shows(x, l.doing, "Idle", done, l.up)
            /\ c.kind \in {"withdraw", "configure"} => Shows(x, l.doing, phase, done, l.up)
            /\ c.kind = "shutdown" =>
                 Shows(x, l.doing, "Idle", done, FALSE) /\ x.view.queued = None
<1>0. l.view \in View /\ c.task \in MaybeTask /\ c.request \in MaybeTask
  BY DEF Lane, Command
<1>1. CASE c.kind = "start"
  <2>0. \/ x = StartAccepted(l, c)
        \/ x = Saved(Processed(l))
    BY <1>1 DEF Handled
  <2>1. CASE x = StartAccepted(l, c)
    BY <1>0, <1>1, <2>1 DEF StartAccepted, Saved, Processed, Lane, View, Shows, Starting
  <2>2. CASE x = Saved(Processed(l))
    BY <1>0, <1>1, <2>2 DEF StartAccepted, Saved, Processed, Lane, View, Shows, Starting
  <2> QED BY <2>0, <2>1, <2>2
<1>2. CASE c.kind = "new"
  <2>1. x = StartNewAccepted(l, c)
    BY <1>2 DEF Handled
  <2> QED
    BY <1>0, <1>2, <2>1 DEF StartNewAccepted, Saved, Blank, Lane, View, Shows, Starting
<1>3. CASE c.kind = "resume"
  <2>0. \/ x = Processed(l)
        \/ x = Saved(Processed([l EXCEPT !.view.phase = "Paused"]))
        \/ x = Saved([l EXCEPT !.doing = c, !.view.phase = "Running"])
    BY <1>3 DEF Handled
  <2>1. CASE x = Processed(l)
    BY <1>0, <1>3, <2>1 DEF Saved, Processed, Lane, View, Shows, Starting
  <2>2. CASE x = Saved(Processed([l EXCEPT !.view.phase = "Paused"]))
    BY <1>0, <1>3, <2>2 DEF Saved, Processed, Lane, View, Shows, Starting
  <2>3. CASE x = Saved([l EXCEPT !.doing = c, !.view.phase = "Running"])
    BY <1>0, <1>3, <2>3 DEF Saved, Processed, Lane, View, Shows, Starting
  <2> QED BY <2>0, <2>1, <2>2, <2>3
<1>4. CASE c.kind = "queue"
  <2>0. \/ x = Saved(Processed(l))
        \/ x = Saved(Processed([l EXCEPT !.view.queued = c.task, !.view.accepted = c.request]))
    BY <1>4 DEF Handled
  <2>1. CASE x = Saved(Processed(l))
    BY <1>0, <1>4, <2>1 DEF Saved, Processed, Lane, View, Shows, Starting
  <2>2. CASE x = Saved(Processed([l EXCEPT !.view.queued = c.task, !.view.accepted = c.request]))
    BY <1>0, <1>4, <2>2 DEF Saved, Processed, Lane, View, Shows, Starting
  <2> QED BY <2>0, <2>1, <2>2
<1>5. CASE c.kind = "pause"
  <2>1. x = Saved([l EXCEPT !.view.phase = "Paused"])
    BY <1>5 DEF Handled
  <2> QED
    BY <1>0, <1>5, <2>1 DEF Saved, Lane, View, Shows, Starting
<1>6. CASE c.kind = "stop"
  <2>1. x = Saved([l EXCEPT !.view.phase = "Idle", !.view.accepted = None])
    BY <1>6 DEF Handled
  <2> QED
    BY <1>0, <1>6, <2>1 DEF Saved, Lane, View, Shows, Starting
<1>7. CASE c.kind = "reset"
  <2>1. x = Saved([Cleared(l) EXCEPT !.conf = None])
    BY <1>7 DEF Handled
  <2> QED
    BY <1>0, <1>7, <2>1 DEF Saved, Cleared, Blank, Lane, View, Shows, Starting
<1>8. CASE c.kind = "withdraw"
  <2>1. x = [l EXCEPT !.view.queued = None]
    BY <1>8 DEF Handled
  <2> QED
    BY <1>0, <1>8, <2>1 DEF Lane, View, Shows, Starting
<1>9. CASE c.kind = "configure"
  <2>0. \/ x = Saved([l EXCEPT !.conf = c.task, !.view.task = c.task])
        \/ x = Saved([l EXCEPT !.conf = l.view.task])
    BY <1>9 DEF Handled
  <2>1. CASE x = Saved([l EXCEPT !.conf = c.task, !.view.task = c.task])
    BY <1>0, <1>9, <2>1 DEF Saved, Lane, View, Shows, Starting
  <2>2. CASE x = Saved([l EXCEPT !.conf = l.view.task])
    BY <1>0, <1>9, <2>2 DEF Saved, Lane, View, Shows, Starting
  <2> QED BY <2>0, <2>1, <2>2
<1>10. CASE c.kind = "shutdown"
  <2>1. x = ShutDown(l)
    BY <1>10 DEF Handled
  <2> QED
    BY <1>0, <1>10, <2>1 DEF Saved, Cleared, ShutDown, Blank, Lane, View, Shows, Starting
<1> QED
  BY <1>1, <1>2, <1>3, <1>4, <1>5, <1>6, <1>7, <1>8, <1>9, <1>10 DEF Command, CommandKinds

\* What is left in the channel when a command is taken.
LEMMA TakenInbox ==
  ASSUME NEW l \in Lane, l.inbox # << >>
  PROVE  LET m == [l EXCEPT !.inbox = Tail(@)]
             c == Head(l.inbox)
         IN /\ m \in Lane /\ m.inbox = Tail(l.inbox) /\ c \in Command /\ c = l.inbox[1]
            /\ m.view = l.view /\ m.doing = l.doing /\ m.up = l.up /\ m.saved = l.saved
            /\ 1 \in DOMAIN l.inbox
            /\ \A k \in DOMAIN m.inbox : k + 1 \in DOMAIN l.inbox /\ m.inbox[k] = l.inbox[k + 1]
            /\ \A k \in DOMAIN l.inbox : k # 1 => k - 1 \in DOMAIN m.inbox
<1>1. l.inbox \in Seq(Command)
  BY DEF Lane
<1>2. /\ Tail(l.inbox) \in Seq(Command) /\ Head(l.inbox) \in Command
      /\ Head(l.inbox) = l.inbox[1] /\ 1 \in DOMAIN l.inbox
      /\ \A k \in DOMAIN Tail(l.inbox) : k + 1 \in DOMAIN l.inbox
                                          /\ Tail(l.inbox)[k] = l.inbox[k + 1]
      /\ \A k \in DOMAIN l.inbox : k # 1 => k - 1 \in DOMAIN Tail(l.inbox)
  BY <1>1
<1> QED
  BY <1>2 DEF Lane

\* The steps of a worker.
Moves(l) == Taken(l) \cup Finished(l) \cup Progressed(l)
              \cup (IF l.saved THEN {[l EXCEPT !.saved = FALSE]} ELSE {})

LEMMA MovesTypes == ASSUME NEW l \in Lane, NEW x \in Moves(l) PROVE x \in Lane
<1>1. CASE x \in Taken(l)
  BY <1>1, TakenInbox, HandledTypes DEF Taken
<1>2. CASE x \in Finished(l)
  <2>1. Nothing \in Command /\ l.doing \in Command /\ l.view \in View
    BY DEF Nothing, Cmd, Command, CommandKinds, MaybeTask, None, Lane
  <2> DEFINE m(a) == [l EXCEPT !.doing = Nothing, !.view.accepted = a]
  <2>2. \A a \in MaybeTask : m(a) \in Lane
    BY <2>1 DEF Lane, View
  <2>3. PICK a \in {l.doing.request, l.view.accepted} : x = Processed(m(a))
    BY <1>2 DEF Finished
  <2>4. a \in MaybeTask
    BY <2>1 DEF Command, View
  <2> HIDE DEF m
  <2> QED BY <2>2, <2>3, <2>4, PlainTypes
<1>3. CASE x \in Progressed(l)
  <2>0. l.view \in View /\ l.view.queued \in MaybeTask /\ None \in MaybeTask
    BY DEF Lane, View, MaybeTask, None
  <2>1. \/ \E p \in Endings : x = [l EXCEPT !.view.phase = p]
        \/ x = [l EXCEPT !.conf = l.view.queued,
                         !.view = [@ EXCEPT !.task = l.view.queued,
                                            !.queued = None, !.accepted = None]]
    BY <1>3 DEF Progressed
  <2>2. ASSUME NEW p \in Endings, x = [l EXCEPT !.view.phase = p] PROVE x \in Lane
    <3>1. p \in Phases
      BY LaneAssumption DEF Phases
    <3> QED BY <2>0, <2>2, <3>1 DEF Lane, View
  <2>3. CASE x = [l EXCEPT !.conf = l.view.queued,
                         !.view = [@ EXCEPT !.task = l.view.queued,
                                            !.queued = None, !.accepted = None]]
    BY <2>0, <2>3 DEF Lane, View
  <2> QED BY <2>1, <2>2, <2>3
<1>4. CASE l.saved /\ x = [l EXCEPT !.saved = FALSE]
  BY <1>4 DEF Lane
<1> QED
  BY <1>1, <1>2, <1>3, <1>4 DEF Moves

\* One case for each kind of step.
LEMMA MovesShows ==
  ASSUME NEW l \in Lane, NEW x \in Moves(l)
  PROVE  \/ /\ l.up /\ l.doing = Nothing /\ l.inbox # << >>
            /\ x \in Handled([l EXCEPT !.inbox = Tail(@)], Head(l.inbox))
         \/ /\ l.up /\ l.doing # Nothing /\ x.inbox = l.inbox
            /\ Shows(x, Nothing, l.view.phase, l.view.done + 1, l.up)
         \/ /\ l.up /\ Running(l.view) /\ x.inbox = l.inbox
            /\ Shows(x, l.doing, x.view.phase, l.view.done, l.up)
         \/ /\ x.inbox = l.inbox /\ x.view = l.view
            /\ Shows(x, l.doing, l.view.phase, l.view.done, l.up)
<1>1. CASE x \in Taken(l)
  BY <1>1 DEF Taken
<1>2. CASE x \in Finished(l)
  <2> DEFINE m(a) == [l EXCEPT !.doing = Nothing, !.view.accepted = a]
  <2>1. l.up /\ l.doing # Nothing /\ \E a : x = Processed(m(a))
    BY <1>2 DEF Finished
  <2>2. PICK a : x = Processed(m(a))
    BY <2>1
  <2>3. l.view \in View
    BY DEF Lane
  <2>4. x.inbox = l.inbox /\ Shows(x, Nothing, l.view.phase, l.view.done + 1, l.up)
    BY <2>2, <2>3 DEF Processed, Shows, Lane, View
  <2> QED BY <2>1, <2>4
<1>3. CASE x \in Progressed(l)
  <2>0. l.up /\ Running(l.view) /\ l.view \in View
    BY <1>3 DEF Progressed, Running, Lane
  <2>1. \/ \E p \in Endings : x = [l EXCEPT !.view.phase = p]
        \/ x = [l EXCEPT !.conf = l.view.queued,
                         !.view = [@ EXCEPT !.task = l.view.queued,
                                            !.queued = None, !.accepted = None]]
    BY <1>3 DEF Progressed
  <2>2. x.inbox = l.inbox /\ Shows(x, l.doing, x.view.phase, l.view.done, l.up)
    BY <2>0, <2>1, ZenonT(40) DEF Shows, Lane, View
  <2> QED BY <2>0, <2>2
<1>4. CASE l.saved /\ x = [l EXCEPT !.saved = FALSE]
  BY <1>4 DEF Shows, Lane
<1> QED
  BY <1>1, <1>2, <1>3, <1>4 DEF Moves

\* A worker that is to end does so, and one that ended does nothing.
LEMMA LeavingMoves ==
  ASSUME NEW l \in Lane, NEW x \in Moves(l), Leaving(l) \/ Gone(l)
  PROVE  Leaving(x) \/ Gone(x)
<1>1. CASE /\ l.up /\ l.doing = Nothing /\ l.inbox # << >>
           /\ x \in Handled([l EXCEPT !.inbox = Tail(@)], Head(l.inbox))
  <2> DEFINE m == [l EXCEPT !.inbox = Tail(@)]
             c == Head(l.inbox)
  <2>1. /\ m \in Lane /\ c \in Command /\ c = l.inbox[1] /\ m.up = l.up
        /\ \A k \in DOMAIN m.inbox : k + 1 \in DOMAIN l.inbox /\ m.inbox[k] = l.inbox[k + 1]
        /\ \A k \in DOMAIN l.inbox : k # 1 => k - 1 \in DOMAIN m.inbox
    BY <1>1, TakenInbox
  <2>2. x \in Handled(m, c)
    BY <1>1
  <2> HIDE DEF m, c
  <2>3. x.inbox = m.inbox
    BY <2>1, <2>2, HandledTypes
  <2>4. PICK k \in DOMAIN l.inbox : l.inbox[k].kind = "shutdown"
    BY <1>1 DEF Leaving, Gone
  <2>5. CASE c.kind = "shutdown"
    <3>1. Shows(x, m.doing, "Idle", m.view.done, FALSE) /\ x.view.queued = None
      BY <2>1, <2>2, <2>5, HandledShows
    <3> QED BY <3>1 DEF Gone, Shows
  <2>6. CASE c.kind # "shutdown"
    <3>0. l.inbox \in Seq(Command) /\ k \in Nat
      BY DEF Lane
    <3>1. k # 1 /\ k - 1 \in DOMAIN m.inbox /\ m.inbox[k - 1] = l.inbox[k]
      <4>1. k # 1 /\ k - 1 \in DOMAIN m.inbox
        BY <2>1, <2>4, <2>6
      <4>2. (k - 1) + 1 = k
        BY <3>0
      <4> QED BY <2>1, <4>1, <4>2
    <3>2. x.up = m.up
      <4>1. \E doing, phase, done : Shows(x, doing, phase, done, m.up)
        BY <2>1, <2>2, <2>6, HandledShows DEF Command, CommandKinds, Starting
      <4> QED BY <4>1 DEF Shows
    <3> QED BY <1>1, <2>1, <2>3, <2>4, <3>1, <3>2 DEF Leaving
  <2> QED BY <2>5, <2>6
<1>2. CASE ~l.up
  <2>1. x.view = l.view /\ x.up = l.up
    BY <1>2, MovesShows DEF Shows
  <2> QED BY <1>2, <2>1 DEF Leaving, Gone
<1>3. CASE l.up /\ x.inbox = l.inbox /\ x.up = l.up
  BY <1>3 DEF Leaving, Gone
<1> QED
  BY <1>1, <1>2, <1>3, MovesShows DEF Shows

\* What a taken command leaves of those that start a task.
LEMMA StartsTail ==
  ASSUME NEW l \in Lane, l.inbox # << >>, NEW x, x.inbox = Tail(l.inbox)
  PROVE  /\ \A k \in DOMAIN x.inbox : k + 1 \in DOMAIN l.inbox
                                       /\ x.inbox[k] = l.inbox[k + 1]
         /\ StartsIn(l) = {} => StartsIn(x) = {} /\ Head(l.inbox).kind \notin Starting
         /\ \A k : StartsIn(l) = {k} =>
              IF Head(l.inbox).kind \in Starting THEN StartsIn(x) = {}
              ELSE k - 1 \in DOMAIN x.inbox /\ StartsIn(x) = {k - 1}
<1>1. /\ 1 \in DOMAIN l.inbox /\ Head(l.inbox) = l.inbox[1]
      /\ \A k \in DOMAIN x.inbox : k \in Nat /\ k # 0 /\ k + 1 \in DOMAIN l.inbox
                                   /\ x.inbox[k] = l.inbox[k + 1]
      /\ \A k \in DOMAIN l.inbox : k \in Nat /\ (k # 1 => k - 1 \in DOMAIN x.inbox)
  <2>1. l.inbox \in Seq(Command)
    BY DEF Lane
  <2> QED BY <2>1
<1>2. \A k \in DOMAIN x.inbox : k \in StartsIn(x) <=> k + 1 \in StartsIn(l)
  BY <1>1 DEF StartsIn
<1>3. 1 \in StartsIn(l) <=> Head(l.inbox).kind \in Starting
  BY <1>1 DEF StartsIn
<1>4. StartsIn(x) \subseteq DOMAIN x.inbox /\ StartsIn(l) \subseteq DOMAIN l.inbox
  BY DEF StartsIn
<1>5. ASSUME StartsIn(l) = {} PROVE StartsIn(x) = {} /\ Head(l.inbox).kind \notin Starting
  BY <1>2, <1>3, <1>4, <1>5
<1>6. ASSUME NEW k, StartsIn(l) = {k}, Head(l.inbox).kind \in Starting PROVE StartsIn(x) = {}
  <2>1. k = 1
    BY <1>3, <1>6
  <2> QED BY <1>1, <1>2, <1>4, <1>6, <2>1
<1>7. ASSUME NEW k, StartsIn(l) = {k}, Head(l.inbox).kind \notin Starting
      PROVE  k - 1 \in DOMAIN x.inbox /\ StartsIn(x) = {k - 1}
  <2>1. k \in DOMAIN l.inbox /\ k # 1 /\ k \in Nat
    BY <1>1, <1>3, <1>4, <1>7
  <2>2. k - 1 \in DOMAIN x.inbox /\ (k - 1) + 1 = k
    BY <1>1, <2>1
  <2>3. k - 1 \in StartsIn(x)
    BY <1>2, <1>7, <2>2
  <2>4. \A j \in StartsIn(x) : j = k - 1
    <3>1. \A j \in StartsIn(x) : j \in Nat /\ j + 1 = k
      BY <1>1, <1>2, <1>4, <1>7
    <3> QED BY <2>1, <3>1
  <2> QED BY <2>2, <2>3, <2>4
<1> QED
  BY <1>1, <1>5, <1>6, <1>7

\* What a slot knows of its worker, when nothing is stopped or typed ahead: the worker
\* runs only if the slot is assigned, and the request counter tells whether the start
\* that the slot waits for has been dealt with.
Calls(l) == \A k \in DOMAIN l.inbox : l.inbox[k].kind \notin {"queue", "stop"}
Attended(slot, l) ==
  /\ Calls(l)
  /\ Running(l.view) \/ Running(slot.snap) => slot.assigned
  /\ slot.base = NoBase => Quiet(l) /\ l.view.done = slot.snap.done
  /\ slot.base # NoBase =>
       /\ slot.assigned
       /\ \/ l.view.done = slot.base /\ Outstanding(l)
          \/ l.view.done = slot.base + 1 /\ Quiet(l)

\* A worker without a slot.
AtRest(l) == Calls(l) /\ Quiet(l) /\ ~Running(l.view)

LEMMA AtRestMoves ==
  ASSUME NEW l \in Lane, NEW x \in Moves(l), AtRest(l)
  PROVE  AtRest(x)
<1>1. CASE /\ l.up /\ l.doing = Nothing /\ l.inbox # << >>
           /\ x \in Handled([l EXCEPT !.inbox = Tail(@)], Head(l.inbox))
  <2> DEFINE m == [l EXCEPT !.inbox = Tail(@)]
             c == Head(l.inbox)
  <2>1. /\ m \in Lane /\ c \in Command /\ c = l.inbox[1] /\ m.inbox = Tail(l.inbox)
        /\ m.view = l.view /\ m.doing = l.doing /\ 1 \in DOMAIN l.inbox
    BY <1>1, TakenInbox
  <2>2. x \in Handled(m, c)
    BY <1>1
  <2> HIDE DEF m, c
  <2>3. x.inbox = Tail(l.inbox)
    BY <2>1, <2>2, HandledTypes
  <2>4. Calls(x) /\ StartsIn(x) = {} /\ c.kind \notin Starting \cup {"queue", "stop"}
    <3>1. \A k \in DOMAIN x.inbox : k + 1 \in DOMAIN l.inbox /\ x.inbox[k] = l.inbox[k + 1]
      BY <1>1, <2>3, StartsTail
    <3>2. Calls(l)
      BY DEF AtRest
    <3>3. Calls(x) /\ c.kind \notin {"queue", "stop"}
      BY <2>1, <3>1, <3>2 DEF Calls
    <3>4. StartsIn(x) = {} /\ c.kind \notin Starting
      BY <1>1, <2>3, StartsTail DEF AtRest, Quiet, c
    <3> QED BY <3>3, <3>4
  <2>5. \E phase \in {m.view.phase, "Paused", "Idle"} : \E done, up :
          Shows(x, m.doing, phase, done, up)
    BY <2>1, <2>2, <2>4, HandledShows DEF Command, CommandKinds, Starting
  <2> QED BY <2>1, <2>4, <2>5 DEF AtRest, Quiet, Shows, Running
<1>2. CASE l.doing # Nothing \/ Running(l.view)
  BY <1>2 DEF AtRest, Quiet
<1>3. CASE x.inbox = l.inbox /\ x.view = l.view /\ x.doing = l.doing
  BY <1>3 DEF AtRest, Calls, Quiet, StartsIn
<1> QED
  BY <1>1, <1>2, <1>3, MovesShows DEF Shows

LEMMA AttendedMoves ==
  ASSUME NEW l \in Lane, NEW x \in Moves(l), NEW slot \in Slot, Attended(slot, l)
  PROVE  Attended(slot, x)
<1>0. l.view.done \in Nat /\ slot.snap.done \in Nat
  BY DEF Lane, View, Slot
<1>1. CASE /\ l.up /\ l.doing = Nothing /\ l.inbox # << >>
           /\ x \in Handled([l EXCEPT !.inbox = Tail(@)], Head(l.inbox))
  <2> DEFINE m == [l EXCEPT !.inbox = Tail(@)]
             c == Head(l.inbox)
  <2>1. /\ m \in Lane /\ c \in Command /\ c = l.inbox[1] /\ m.inbox = Tail(l.inbox)
        /\ m.view = l.view /\ m.doing = l.doing /\ 1 \in DOMAIN l.inbox
    BY <1>1, TakenInbox
  <2>2. x \in Handled(m, c)
    BY <1>1
  <2> HIDE DEF m, c
  <2>3. x.inbox = Tail(l.inbox)
    BY <2>1, <2>2, HandledTypes
  <2>4. Calls(x) /\ c.kind \notin {"queue", "stop"}
    <3>1. \A k \in DOMAIN x.inbox : k + 1 \in DOMAIN l.inbox /\ x.inbox[k] = l.inbox[k + 1]
      BY <1>1, <2>3, StartsTail
    <3>2. Calls(l)
      BY DEF Attended
    <3>3. Calls(x) /\ c.kind \notin {"queue", "stop"}
      BY <2>1, <3>1, <3>2 DEF Calls
    <3> QED BY <3>3
  <2>5. CASE c.kind \in Starting
    <3>1. slot.base # NoBase /\ slot.assigned /\ l.view.done = slot.base /\ StartsIn(x) = {}
      <4>1. StartsIn(l) # {}
        BY <1>1, <2>3, <2>5, StartsTail DEF c
      <4>2. slot.base # NoBase /\ slot.assigned /\ l.view.done = slot.base
            /\ \E k \in DOMAIN l.inbox : StartsIn(l) = {k}
        BY <1>1, <4>1 DEF Attended, Quiet, Outstanding
      <4> QED BY <1>1, <2>3, <2>5, <4>2, StartsTail DEF c
    <3>2. CASE Shows(x, c, "Running", m.view.done, m.up)
      <4>1. c # Nothing
        BY <2>5 DEF Starting, Nothing, Cmd
      <4> QED BY <2>1, <2>4, <3>1, <3>2, <4>1 DEF Shows, Attended, Outstanding
    <3>3. CASE \E phase, up : Shows(x, m.doing, phase, m.view.done + 1, up)
      BY <1>1, <2>1, <2>4, <3>1, <3>3 DEF Shows, Attended, Quiet
    <3> QED BY <2>1, <2>2, <2>5, <3>2, <3>3, HandledShows
  <2>6. CASE c.kind \notin Starting
    <3>1. \E phase \in {m.view.phase, "Paused", "Idle"} : \E up :
            Shows(x, m.doing, phase, m.view.done, up)
      BY <2>1, <2>2, <2>4, <2>6, HandledShows DEF Command, CommandKinds, Starting
    <3>2. /\ x.doing = l.doing /\ x.view.done = l.view.done
          /\ Running(x.view) => Running(l.view)
      BY <2>1, <3>1 DEF Shows, Running
    <3>3. /\ Quiet(l) => Quiet(x)
          /\ Outstanding(l) => Outstanding(x)
      BY <1>1, <2>3, <2>6, <3>2, StartsTail DEF Quiet, Outstanding, c
    <3> QED BY <2>4, <3>2, <3>3 DEF Attended
  <2> QED BY <2>5, <2>6
<1>2. CASE /\ l.doing # Nothing /\ x.inbox = l.inbox
           /\ Shows(x, Nothing, l.view.phase, l.view.done + 1, l.up)
  <2>1. slot.base # NoBase /\ slot.assigned /\ l.view.done = slot.base /\ StartsIn(l) = {}
    BY <1>2 DEF Attended, Quiet, Outstanding
  <2>2. Calls(x) /\ StartsIn(x) = StartsIn(l)
    BY <1>2 DEF Attended, Calls, StartsIn
  <2> QED BY <1>2, <2>1, <2>2 DEF Attended, Quiet, Shows
<1>3. CASE /\ x.inbox = l.inbox /\ x.doing = l.doing /\ x.view.done = l.view.done
           /\ Running(x.view) => Running(l.view)
  <2>1. Calls(x) /\ StartsIn(x) = StartsIn(l)
    BY <1>3 DEF Attended, Calls, StartsIn
  <2> QED BY <1>3, <2>1 DEF Attended, Quiet, Outstanding
<1> QED
  BY <1>1, <1>2, <1>3, MovesShows DEF Shows

\* The workers that run or will.
Deciding(l) == {k \in DOMAIN l.inbox : l.inbox[k].kind \notin {"queue", "withdraw", "configure"}}
Latest(l, k) == k \in Deciding(l) /\ \A j \in Deciding(l) : j <= k

LEMMA WillRunMeans ==
  ASSUME NEW l \in Lane
  PROVE  /\ Deciding(l) = {} => (WillRun(l) <=> Running(l.view))
         /\ Deciding(l) # {} => \E k : Latest(l, k)
         /\ \A k : Latest(l, k) => (WillRun(l) <=> l.inbox[k].kind \in Starting)
<1>1. Len(l.inbox) \in Nat /\ DOMAIN l.inbox = 1..Len(l.inbox)
  BY DEF Lane
<1>2. Deciding(l) \in SUBSET (1..Len(l.inbox))
  BY <1>1 DEF Deciding
<1>3. Deciding(l) # {} => Latest(l, Max(Deciding(l)))
  BY <1>1, <1>2, MaxOf DEF Latest
<1>4. \A k : Latest(l, k) => Deciding(l) # {} /\ k = Max(Deciding(l))
  <2> SUFFICES ASSUME NEW k, Latest(l, k) PROVE Deciding(l) # {} /\ k = Max(Deciding(l))
    OBVIOUS
  <2>1. k \in Deciding(l) /\ Max(Deciding(l)) \in Deciding(l)
        /\ k <= Max(Deciding(l)) /\ Max(Deciding(l)) <= k
    BY <1>3 DEF Latest
  <2> QED BY <1>2, <2>1
<1>5. WillRun(l) <=> IF Deciding(l) = {} THEN Running(l.view)
                     ELSE l.inbox[Max(Deciding(l))].kind \in Starting
  BY DEF WillRun, Deciding, Starting
<1> QED
  BY <1>3, <1>4, <1>5

\* A worker that will not run does not change its mind by itself.
LEMMA WillRunMoves ==
  ASSUME NEW l \in Lane, NEW x \in Moves(l), x.up, WillRun(x)
  PROVE  l.up /\ WillRun(l)
<1>0. x \in Lane
  BY MovesTypes
<1>1. CASE /\ l.up /\ l.doing = Nothing /\ l.inbox # << >>
           /\ x \in Handled([l EXCEPT !.inbox = Tail(@)], Head(l.inbox))
  <2> DEFINE m == [l EXCEPT !.inbox = Tail(@)]
             c == Head(l.inbox)
  <2>1. /\ m \in Lane /\ c \in Command /\ c = l.inbox[1] /\ m.inbox = Tail(l.inbox)
        /\ m.view = l.view /\ m.doing = l.doing /\ m.up = l.up /\ 1 \in DOMAIN l.inbox
        /\ \A k \in DOMAIN m.inbox : k + 1 \in DOMAIN l.inbox /\ m.inbox[k] = l.inbox[k + 1]
        /\ \A k \in DOMAIN l.inbox : k # 1 => k - 1 \in DOMAIN m.inbox
    BY <1>1, TakenInbox
  <2>2. x \in Handled(m, c)
    BY <1>1
  <2> HIDE DEF m, c
  <2>3. x.inbox = m.inbox
    BY <2>1, <2>2, HandledTypes
  <2>4. DOMAIN l.inbox \subseteq Nat \ {0} /\ DOMAIN x.inbox \subseteq Nat \ {0}
    BY <1>0 DEF Lane
  <2>5. \A k \in DOMAIN x.inbox : k \in Deciding(x) <=> k + 1 \in Deciding(l)
    BY <2>1, <2>3 DEF Deciding
  <2>6. Deciding(x) \subseteq DOMAIN x.inbox /\ Deciding(l) \subseteq DOMAIN l.inbox
    BY DEF Deciding
  <2>7. CASE Deciding(x) # {}
    <3>1. PICK k : Latest(x, k)
      BY <1>0, <2>7, WillRunMeans
    <3>2. x.inbox[k].kind \in Starting
      BY <1>0, <3>1, WillRunMeans
    <3>3. k \in DOMAIN x.inbox /\ k \in Nat /\ k # 0 /\ k + 1 \in Deciding(l)
      BY <2>4, <2>5, <2>6, <3>1 DEF Latest
    <3>4. ASSUME NEW j \in Deciding(l) PROVE j <= k + 1
      <4>1. j \in DOMAIN l.inbox /\ j \in Nat /\ j # 0
        BY <2>4, <2>6
      <4>2. CASE j # 1
        <5>1. j - 1 \in DOMAIN x.inbox /\ (j - 1) + 1 = j
          BY <2>1, <2>3, <4>1, <4>2
        <5>2. j - 1 \in Deciding(x)
          BY <2>5, <5>1
        <5>3. j - 1 <= k
          BY <3>1, <5>2 DEF Latest
        <5> QED BY <3>3, <4>1, <5>3
      <4> QED BY <3>3, <4>2
    <3>5. Latest(l, k + 1)
      BY <3>3, <3>4 DEF Latest
    <3>6. l.inbox[k + 1].kind \in Starting
      BY <2>1, <2>3, <3>2, <3>3
    <3> QED BY <1>1, <3>5, <3>6, WillRunMeans
  <2>8. CASE Deciding(x) = {}
    <3>1. Running(x.view)
      BY <1>0, <2>8, WillRunMeans
    <3>2. \A j \in Deciding(l) : j = 1
      <4> SUFFICES ASSUME NEW j \in Deciding(l), j # 1 PROVE FALSE
        OBVIOUS
      <4>1. j - 1 \in DOMAIN x.inbox /\ (j - 1) + 1 = j
        BY <2>1, <2>3, <2>4, <2>6
      <4> QED BY <2>5, <2>8, <4>1
    <3>3. CASE Deciding(l) = {}
      <4>1. c.kind \in {"queue", "withdraw", "configure"}
        BY <2>1, <3>3 DEF Deciding
      <4>2. \E done : Shows(x, m.doing, m.view.phase, done, m.up)
        BY <2>1, <2>2, <4>1, HandledShows
      <4> QED BY <1>1, <2>1, <3>1, <3>3, <4>2, WillRunMeans DEF Shows, Running
    <3>4. CASE Deciding(l) # {}
      <4>1. Latest(l, 1)
        BY <3>2, <3>4 DEF Latest
      <4>2. CASE c.kind \in Starting
        BY <1>1, <2>1, <4>1, <4>2, WillRunMeans
      <4>3. CASE c.kind \in {"pause", "stop", "reset", "shutdown"}
        <5>1. \E phase \in {"Paused", "Idle"} : \E doing, done, up : Shows(x, doing, phase, done, up)
          BY <2>1, <2>2, <4>3, HandledShows, ZenonT(40)
        <5> QED BY <3>1, <5>1 DEF Shows, Running
      <4>4. c.kind \notin {"queue", "withdraw", "configure"}
        BY <2>1, <4>1 DEF Latest, Deciding
      <4> QED BY <2>1, <4>2, <4>3, <4>4 DEF Command, CommandKinds, Starting
    <3> QED BY <3>3, <3>4
  <2> QED BY <2>7, <2>8
<1>2. CASE /\ x.inbox = l.inbox /\ l.up
           /\ Running(x.view) => Running(l.view)
  <2>1. Deciding(x) = Deciding(l) /\ \A k : Latest(x, k) <=> Latest(l, k)
    BY <1>2 DEF Deciding, Latest
  <2> QED BY <1>0, <1>2, <2>1, WillRunMeans
<1> QED
  BY <1>1, <1>2, MovesShows DEF Shows, Running

\* A command is sent.
LEMMA SentFacts ==
  ASSUME NEW l \in Lane, NEW c \in Command
  PROVE  LET x == Sent(l, c)
             n == Len(l.inbox) + 1
         IN /\ x \in Lane /\ x.view = l.view /\ x.doing = l.doing /\ x.up = l.up
            /\ n \in DOMAIN x.inbox /\ n \notin DOMAIN l.inbox /\ x.inbox[n] = c
            /\ DOMAIN x.inbox = DOMAIN l.inbox \cup {n}
            /\ \A k \in DOMAIN l.inbox : x.inbox[k] = l.inbox[k] /\ k < n
<1>1. l.inbox \in Seq(Command)
  BY DEF Lane
<1> DEFINE q == Append(l.inbox, c)
           n == Len(l.inbox) + 1
<1>2. /\ q \in Seq(Command) /\ n \in DOMAIN q /\ n \notin DOMAIN l.inbox /\ q[n] = c
      /\ DOMAIN q = DOMAIN l.inbox \cup {n}
      /\ \A k \in DOMAIN l.inbox : q[k] = l.inbox[k] /\ k < n
  BY <1>1
<1>3. Sent(l, c) = [l EXCEPT !.inbox = q]
  BY DEF Sent, Lane
<1> HIDE DEF q, n
<1>4. /\ Sent(l, c) \in Lane /\ Sent(l, c).view = l.view /\ Sent(l, c).doing = l.doing
      /\ Sent(l, c).up = l.up /\ Sent(l, c).inbox = q
  BY <1>2, <1>3 DEF Lane
<1> QED
  BY <1>2, <1>4 DEF n

\* What sending does to each of the above.
LEMMA SentMeans ==
  ASSUME NEW l \in Lane, NEW c \in Command
  PROVE  LET x == Sent(l, c)
         IN /\ Leaving(l) \/ Gone(l) => Leaving(x) \/ Gone(x)
            /\ l.up /\ c.kind = "shutdown" => Leaving(x)
            /\ c.kind # "shutdown" => (Leaving(x) <=> Leaving(l))
            /\ c.kind \notin Starting => StartsIn(x) = StartsIn(l)
            /\ StartsIn(l) = {} /\ c.kind \in Starting =>
                 \E k \in DOMAIN x.inbox : StartsIn(x) = {k}
            /\ Calls(l) /\ c.kind \notin {"queue", "stop"} => Calls(x)
            /\ WillRun(x) /\ c.kind \notin Starting => WillRun(l)
<1> DEFINE x == Sent(l, c)
           n == Len(l.inbox) + 1
<1>1. /\ x \in Lane /\ x.view = l.view /\ x.doing = l.doing /\ x.up = l.up
      /\ n \in DOMAIN x.inbox /\ n \notin DOMAIN l.inbox /\ x.inbox[n] = c
      /\ DOMAIN x.inbox = DOMAIN l.inbox \cup {n}
      /\ \A k \in DOMAIN l.inbox : x.inbox[k] = l.inbox[k] /\ k < n
  BY SentFacts
<1>n. n \in Nat /\ DOMAIN l.inbox \subseteq Nat
  BY DEF Lane
<1> HIDE DEF x, n
<1>2. Leaving(l) \/ Gone(l) => Leaving(x) \/ Gone(x)
  BY <1>1 DEF Leaving, Gone
<1>3. l.up /\ c.kind = "shutdown" => Leaving(x)
  BY <1>1 DEF Leaving
<1>8. c.kind # "shutdown" => (Leaving(x) <=> Leaving(l))
  BY <1>1 DEF Leaving
<1>4. c.kind \notin Starting => StartsIn(x) = StartsIn(l)
  BY <1>1 DEF StartsIn
<1>5. StartsIn(l) = {} /\ c.kind \in Starting => StartsIn(x) = {n}
  BY <1>1 DEF StartsIn
<1>6. Calls(l) /\ c.kind \notin {"queue", "stop"} => Calls(x)
  BY <1>1 DEF Calls
<1>7. ASSUME WillRun(x), c.kind \notin Starting PROVE WillRun(l)
  <2>1. CASE c.kind \notin {"queue", "withdraw", "configure"}
    <3>1. Latest(x, n)
      <4>1. n \in Deciding(x)
        BY <1>1, <2>1 DEF Deciding
      <4>2. \A k \in DOMAIN x.inbox : k <= n
        BY <1>1, <1>n
      <4> QED BY <4>1, <4>2 DEF Latest, Deciding
    <3> QED BY <1>1, <1>7, <3>1, WillRunMeans
  <2>2. CASE c.kind \in {"queue", "withdraw", "configure"}
    <3>1. Deciding(x) = Deciding(l)
      BY <1>1, <2>2 DEF Deciding
    <3>2. \A k : Latest(x, k) <=> Latest(l, k)
      BY <3>1 DEF Latest
    <3>3. \A k : Latest(l, k) => x.inbox[k] = l.inbox[k]
      BY <1>1 DEF Latest, Deciding
    <3> QED BY <1>1, <1>7, <3>1, <3>2, <3>3, WillRunMeans
  <2> QED BY <2>1, <2>2
<1> QED
  BY <1>1, <1>2, <1>3, <1>4, <1>5, <1>6, <1>7, <1>8 DEF x

LEMMA SentAtRest ==
  ASSUME NEW l \in Lane, NEW c \in Command, c.kind \notin Starting \cup {"queue", "stop"}
  PROVE  /\ AtRest(l) => AtRest(Sent(l, c))
         /\ \A slot : Attended(slot, l) => Attended(slot, Sent(l, c))
<1> DEFINE x == Sent(l, c)
<1>1. x.view = l.view /\ x.doing = l.doing /\ StartsIn(x) = StartsIn(l)
  BY SentFacts, SentMeans
<1>2. Calls(l) => Calls(x)
  BY SentMeans
<1>3. Outstanding(l) => Outstanding(x)
  <2>1. DOMAIN l.inbox \subseteq DOMAIN x.inbox
    BY SentFacts
  <2> HIDE DEF x
  <2> QED BY <1>1, <2>1 DEF Outstanding
<1> HIDE DEF x
<1>4. AtRest(l) => AtRest(x)
  BY <1>1, <1>2 DEF AtRest, Quiet
<1>5. \A slot : Attended(slot, l) => Attended(slot, x)
  BY <1>1, <1>2, <1>3 DEF Attended, Quiet
<1> QED
  BY <1>4, <1>5 DEF x

\* A slot that is reserved and whose worker is told to start.
Reserved(slot, n) == [slot EXCEPT !.assigned = TRUE, !.base = slot.snap.done, !.order = n]

LEMMA SentStart ==
  ASSUME NEW l \in Lane, NEW slot \in Slot, NEW c \in Command, NEW n \in Nat,
         c.kind \in Starting, Attended(slot, l), ~slot.assigned
  PROVE  Reserved(slot, n) \in Slot /\ Attended(Reserved(slot, n), Sent(l, c))
<1> DEFINE x == Sent(l, c)
           r == Reserved(slot, n)
<1>0. slot.snap \in View /\ slot.snap.done \in Nat
  BY DEF Slot, View
<1>1. /\ r \in Slot /\ r.assigned /\ r.base = slot.snap.done /\ r.snap = slot.snap
  BY <1>0 DEF Reserved, Slot
<1>2. slot.base = NoBase /\ Quiet(l) /\ l.view.done = slot.snap.done /\ Calls(l)
  BY DEF Attended
<1>3. x.view = l.view /\ x.doing = l.doing /\ Calls(x)
      /\ \E k \in DOMAIN x.inbox : StartsIn(x) = {k}
  BY <1>2, SentFacts, SentMeans DEF Quiet, Starting
<1>4. r.base # NoBase
  BY <1>0, <1>1 DEF NoBase
<1> HIDE DEF x, r
<1>5. Attended(r, x)
  BY <1>1, <1>2, <1>3, <1>4 DEF Attended, Outstanding, Quiet
<1> QED
  BY <1>1, <1>5 DEF x, r

-----------------------------------------------------------------------------
\* The scheduler's memory.

SlotMaps == UNION {[D -> Slot] : D \in SUBSET Sessions}
Scheds ==
  [slots : SlotMaps, pending : Seq(Pending), selected : Sessions, nextSession : Nat,
   nextPending : Nat, counter : Nat, limit : Limits, accepted : MaybeTask,
   processed : MaybeTask, placed : Placement]
States == [s : Scheds, l : [Sessions -> Lane]]

\* No id is used twice in the queue.
Numbered(s) ==
  /\ \A j, k \in DOMAIN s.pending : s.pending[j].id = s.pending[k].id => j = k
  /\ \A k \in DOMAIN s.pending : s.pending[k].id < s.nextPending

\* Every slot has a worker that was not told to end, and no later session has one.
Housed(g) ==
  /\ \A i \in DOMAIN g.s.slots : i < g.s.nextSession /\ g.l[i].up /\ ~Leaving(g.l[i])
  /\ \A i \in Sessions : i >= g.s.nextSession => ~g.l[i].up

\* Workers without a slot are ending.
Away(g) == \A i \in Sessions \ DOMAIN g.s.slots : Leaving(g.l[i]) \/ Gone(g.l[i])

Sound(g) == g \in States /\ Numbered(g.s) /\ Housed(g) /\ Away(g)

Tied(g) ==
  \A i \in Sessions :
    IF i \in DOMAIN g.s.slots THEN Attended(g.s.slots[i], g.l[i]) ELSE AtRest(g.l[i])

\* What a step that starts nothing does to the lanes and the queue.
Calm(g, r) ==
  \A i \in Sessions : r.l[i].up /\ WillRun(r.l[i]) => g.l[i].up /\ WillRun(g.l[i])
Harmless(g, r) ==
  /\ ActiveIn(r.s) = ActiveIn(g.s) /\ r.s.limit = g.s.limit
  /\ Promise!Fewer(r.s.pending, g.s.pending)
  /\ Calm(g, r)

LEMMA HarmlessTwice ==
  ASSUME NEW g, NEW h, NEW r, Harmless(g, h), Harmless(h, r)
  PROVE  Harmless(g, r)
BY FewerFewer DEF Harmless, Calm

LEMMA HarmlessSelf == ASSUME NEW g PROVE Harmless(g, g)
BY FewerSelf DEF Harmless, Calm

LEMMA SlotMap ==
  /\ \A f \in SlotMaps : /\ f = [i \in DOMAIN f |-> f[i]]
                         /\ DOMAIN f \in SUBSET Sessions
                         /\ \A i \in DOMAIN f : f[i] \in Slot
  /\ \A D \in SUBSET Sessions : [D -> Slot] \subseteq SlotMaps
BY DEF SlotMaps

LEMMA StateTypes ==
  ASSUME NEW g \in States
  PROVE  /\ g.s \in Scheds /\ g.l \in [Sessions -> Lane]
         /\ g.s.slots \in SlotMaps /\ DOMAIN g.s.slots \in SUBSET Sessions
         /\ \A i \in DOMAIN g.s.slots : g.s.slots[i] \in Slot
         /\ g.s.pending \in Seq(Pending) /\ g.s.selected \in Sessions
         /\ g.s.nextSession \in Nat /\ g.s.nextPending \in Nat /\ g.s.counter \in Nat
         /\ g.s.limit \in Limits /\ g.s.accepted \in MaybeTask
         /\ g.s.processed \in MaybeTask /\ g.s.placed \in Placement
<1>1. g.s \in Scheds /\ g.l \in [Sessions -> Lane]
  BY DEF States
<1>2. g.s.slots \in SlotMaps
  BY <1>1 DEF Scheds
<1> QED
  BY <1>1, <1>2, SlotMap DEF Scheds

\* Only what nothing else depends on changes.
Aside(g, r) ==
  /\ r \in States /\ r.l = g.l /\ r.s.slots = g.s.slots /\ r.s.pending = g.s.pending
  /\ r.s.nextSession = g.s.nextSession /\ r.s.nextPending = g.s.nextPending
  /\ r.s.limit = g.s.limit

LEMMA AsideKeeps ==
  ASSUME NEW g, NEW r, Aside(g, r), Sound(g)
  PROVE  Sound(r) /\ (Tied(g) => Tied(r)) /\ Harmless(g, r)
<1>1. ActiveIn(r.s) = ActiveIn(g.s)
  BY DEF ActiveIn, Aside
<1>2. Promise!Fewer(r.s.pending, g.s.pending)
  BY FewerSelf DEF Aside
<1> QED
  BY <1>1, <1>2 DEF Aside, Sound, Numbered, Housed, Away, Tied, Harmless, Calm

\* Two fields of the memory, and how they are written.
LEMMA Written ==
  ASSUME NEW s \in Scheds
  PROVE  /\ \A m \in SlotMaps, n \in Nat, k \in Nat :
              [s EXCEPT !.slots = m, !.nextSession = n, !.counter = k] \in Scheds
         /\ \A m \in SlotMaps, x \in Sessions :
              [s EXCEPT !.slots = m, !.selected = x] \in Scheds
         /\ \A q \in Seq(Pending), n \in Nat :
              [s EXCEPT !.pending = q, !.nextPending = n] \in Scheds
         /\ \A a \in MaybeTask, b \in MaybeTask, p \in Placement, x \in Sessions :
              [s EXCEPT !.accepted = a, !.processed = b, !.placed = p, !.selected = x]
                \in Scheds
         /\ \A x \in Limits : [s EXCEPT !.limit = x] \in Scheds
BY DEF Scheds

-----------------------------------------------------------------------------
\* What each helper of a handler does.

LEMMA SendEffect ==
  ASSUME NEW g \in States, NEW i \in Sessions, NEW c \in Command
  PROVE  LET r == Send(g, i, c)
         IN /\ r \in States /\ r.s = g.s
            /\ r.l = [g.l EXCEPT ![i] = Sent(g.l[i], c)]
<1>1. g.l \in [Sessions -> Lane] /\ g.l[i] \in Lane
  BY DEF States
<1>2. Sent(g.l[i], c) \in Lane
  BY <1>1, SentFacts
<1>3. Send(g, i, c) = [g EXCEPT !.l = [g.l EXCEPT ![i] = Sent(g.l[i], c)]]
  BY DEF Send, States
<1> QED
  BY <1>1, <1>2, <1>3 DEF States

LEMMA SendKeeps ==
  ASSUME NEW g, Sound(g), NEW i \in Sessions, NEW c \in Command, c.kind # "shutdown"
  PROVE  LET r == Send(g, i, c)
         IN /\ Sound(r)
            /\ c.kind \notin Starting \cup {"queue", "stop"} => (Tied(g) => Tied(r))
            /\ c.kind \notin Starting => Harmless(g, r)
<1> DEFINE r == Send(g, i, c)
<1>0. g \in States /\ g.l \in [Sessions -> Lane] /\ g.l[i] \in Lane
  BY DEF Sound, States
<1>1. r \in States /\ r.s = g.s /\ r.l = [g.l EXCEPT ![i] = Sent(g.l[i], c)]
  BY <1>0, SendEffect
<1>2. /\ r.l[i] = Sent(g.l[i], c)
      /\ \A j \in Sessions : j # i => r.l[j] = g.l[j]
      /\ \A j \in Sessions : r.l[j].up = g.l[j].up
      /\ \A j \in Sessions : Leaving(r.l[j]) <=> Leaving(g.l[j])
  BY <1>0, <1>1, SentFacts, SentMeans
<1> HIDE DEF r
<1>3. Housed(r)
  BY <1>0, <1>1, <1>2, StateTypes DEF Sound, Housed
<1>4. Away(r)
  BY <1>0, <1>1, <1>2, SentMeans DEF Sound, Away
<1>5. Sound(r)
  BY <1>1, <1>3, <1>4 DEF Sound, Numbered
<1>6. c.kind \notin Starting \cup {"queue", "stop"} => (Tied(g) => Tied(r))
  BY <1>0, <1>1, <1>2, SentAtRest DEF Tied
<1>7. c.kind \notin Starting => Harmless(g, r)
  <2>1. c.kind \notin Starting => Calm(g, r)
    BY <1>0, <1>2, SentMeans DEF Calm
  <2> QED BY <1>1, <2>1, FewerSelf DEF Harmless
<1> QED
  BY <1>5, <1>6, <1>7 DEF r

\* A slot is reserved and its worker told to start.
LEMMA CommitKeeps ==
  ASSUME NEW g, Sound(g), NEW i \in DOMAIN g.s.slots, i \notin ActiveIn(g.s),
         NEW c \in Command, c.kind \in Starting
  PROVE  LET r == Send(Reserve(g, i), i, c)
         IN /\ Sound(r) /\ (Tied(g) => Tied(r))
            /\ ActiveIn(r.s) = ActiveIn(g.s) \cup {i}
            /\ r.s.pending = g.s.pending /\ r.s.limit = g.s.limit
            /\ DOMAIN r.s.slots = DOMAIN g.s.slots
            /\ r.s.nextPending = g.s.nextPending
<1> DEFINE h == Reserve(g, i)
           r == Send(h, i, c)
           n == g.s.counter + 1
           m == [g.s.slots EXCEPT ![i] = Reserved(g.s.slots[i], n)]
<1>0. /\ g \in States /\ i \in Sessions /\ g.s \in Scheds /\ n \in Nat
      /\ g.s.slots \in SlotMaps /\ DOMAIN g.s.slots \in SUBSET Sessions
      /\ \A j \in DOMAIN g.s.slots : g.s.slots[j] \in Slot
      /\ g.l \in [Sessions -> Lane] /\ g.l[i] \in Lane
  BY StateTypes DEF Sound
<1>1. g.s.slots[i] \in Slot /\ g.s.slots[i].snap.done \in Nat
  BY <1>0 DEF Slot, View
<1>2. Reserved(g.s.slots[i], n) \in Slot /\ Reserved(g.s.slots[i], n).assigned
      /\ Reserved(g.s.slots[i], n).snap = g.s.slots[i].snap
  BY <1>0, <1>1 DEF Reserved, Slot
<1>3. m \in SlotMaps /\ DOMAIN m = DOMAIN g.s.slots
  <2>1. m \in [DOMAIN g.s.slots -> Slot]
    BY <1>0, <1>2, SlotMap
  <2> QED BY <1>0, <2>1, SlotMap
<1>4. /\ m[i] = Reserved(g.s.slots[i], n)
      /\ \A j \in DOMAIN m : j # i => m[j] = g.s.slots[j]
  BY <1>3
<1>5. h = [g EXCEPT !.s = [g.s EXCEPT !.counter = n, !.slots = m]]
  BY <1>0 DEF Reserve, Reserved, States, Scheds
<1> HIDE DEF m, n
<1>6. /\ h \in States /\ h.l = g.l /\ h.s.slots = m /\ h.s.pending = g.s.pending
      /\ h.s.limit = g.s.limit /\ h.s.nextPending = g.s.nextPending
      /\ h.s.nextSession = g.s.nextSession
  <2> DEFINE s == [g.s EXCEPT !.counter = n, !.slots = m]
  <2>1. /\ s \in Scheds /\ s.slots = m /\ s.pending = g.s.pending /\ s.limit = g.s.limit
        /\ s.nextPending = g.s.nextPending /\ s.nextSession = g.s.nextSession
    BY <1>0, <1>3 DEF Scheds
  <2>2. h = [g EXCEPT !.s = s]
    BY <1>5
  <2> HIDE DEF s
  <2> QED BY <1>0, <2>1, <2>2 DEF States
<1> HIDE DEF h
<1>7. Sound(h)
  BY <1>3, <1>6 DEF Sound, Numbered, Housed, Away
<1>8. Sound(r) /\ r.s = h.s /\ r.l = [g.l EXCEPT ![i] = Sent(g.l[i], c)]
  <2>1. c.kind # "shutdown"
    BY DEF Starting
  <2> QED BY <1>0, <1>6, <1>7, <2>1, SendKeeps, SendEffect
<1> HIDE DEF r
<1>9. ActiveIn(r.s) = ActiveIn(g.s) \cup {i}
  BY <1>2, <1>3, <1>4, <1>6, <1>8 DEF ActiveIn, Active
<1>10. ASSUME Tied(g) PROVE Tied(r)
  <2>1. Attended(g.s.slots[i], g.l[i])
    BY <1>0, <1>10 DEF Tied
  <2>2. ~g.s.slots[i].assigned
    BY DEF ActiveIn, Active
  <2>3. Attended(m[i], r.l[i])
    BY <1>0, <1>1, <1>4, <1>8, <2>1, <2>2, SentStart DEF n
  <2>4. \A j \in Sessions : j # i => r.l[j] = g.l[j]
    BY <1>0, <1>8
  <2> QED BY <1>3, <1>4, <1>6, <1>8, <1>10, <2>3, <2>4 DEF Tied
<1> QED
  BY <1>3, <1>6, <1>8, <1>9, <1>10 DEF r, h

\* The entry of the queue that a slot serves is nothing that others depend on.
LEMMA OriginKeeps ==
  ASSUME NEW g, Sound(g), NEW i \in DOMAIN g.s.slots, NEW o \in Nat
  PROVE  LET r == [g EXCEPT !.s.slots[i].origin = o]
         IN /\ Sound(r) /\ (Tied(g) => Tied(r)) /\ Harmless(g, r) /\ r.l = g.l
            /\ DOMAIN r.s.slots = DOMAIN g.s.slots /\ r.s.pending = g.s.pending
            /\ r.s.nextPending = g.s.nextPending /\ r.s.selected = g.s.selected
<1> DEFINE slot == [g.s.slots[i] EXCEPT !.origin = o]
           m == [g.s.slots EXCEPT ![i] = slot]
           r == [g EXCEPT !.s.slots[i].origin = o]
<1>0. /\ g \in States /\ i \in Sessions /\ g.s \in Scheds
      /\ g.s.slots \in SlotMaps /\ DOMAIN g.s.slots \in SUBSET Sessions
      /\ \A j \in DOMAIN g.s.slots : g.s.slots[j] \in Slot
  BY StateTypes DEF Sound
<1>1. /\ slot \in Slot /\ slot.snap = g.s.slots[i].snap
      /\ slot.assigned = g.s.slots[i].assigned /\ slot.base = g.s.slots[i].base
  BY <1>0 DEF Slot
<1>2. m \in SlotMaps /\ DOMAIN m = DOMAIN g.s.slots
  <2>1. m \in [DOMAIN g.s.slots -> Slot]
    BY <1>0, <1>1, SlotMap
  <2> QED BY <1>0, <2>1, SlotMap
<1>3. m[i] = slot /\ \A j \in DOMAIN m : j # i => m[j] = g.s.slots[j]
  BY <1>2
<1>4. r = [g EXCEPT !.s = [g.s EXCEPT !.slots = m]]
  BY <1>0 DEF States, Scheds
<1> HIDE DEF m, slot
<1>5. /\ r \in States /\ r.l = g.l /\ r.s.slots = m /\ r.s.pending = g.s.pending
      /\ r.s.limit = g.s.limit /\ r.s.nextPending = g.s.nextPending
      /\ r.s.nextSession = g.s.nextSession /\ r.s.selected = g.s.selected
  BY <1>0, <1>2, <1>4 DEF States, Scheds
<1> HIDE DEF r
<1>6. Sound(r)
  BY <1>2, <1>5 DEF Sound, Numbered, Housed, Away
<1>7. ActiveIn(r.s) = ActiveIn(g.s)
  BY <1>1, <1>2, <1>3, <1>5 DEF ActiveIn, Active
<1>8. ASSUME Tied(g) PROVE Tied(r)
  <2>1. \A l : Attended(g.s.slots[i], l) => Attended(slot, l)
    BY <1>1 DEF Attended
  <2> QED BY <1>0, <1>2, <1>3, <1>5, <1>8, <2>1 DEF Tied
<1>9. Harmless(g, r)
  BY <1>5, <1>7, FewerSelf DEF Harmless, Calm
<1> QED
  BY <1>2, <1>5, <1>6, <1>8, <1>9 DEF r

LEMMA NumberedFewer ==
  ASSUME NEW v \in Seq(Pending), NEW w \in Seq(Pending), NEW n, Promise!Fewer(v, w),
         \A j, k \in DOMAIN w : w[j].id = w[k].id => j = k,
         \A k \in DOMAIN w : w[k].id < n
  PROVE  /\ \A j, k \in DOMAIN v : v[j].id = v[k].id => j = k
         /\ \A k \in DOMAIN v : v[k].id < n
<1>1. PICK f \in [DOMAIN v -> DOMAIN w] :
        /\ \A j, k \in DOMAIN v : j < k => f[j] < f[k]
        /\ \A k \in DOMAIN v : v[k] = w[f[k]]
  BY DEF Promise!Fewer
<1>2. DOMAIN v \subseteq Nat /\ DOMAIN w \subseteq Nat
  OBVIOUS
<1>3. ASSUME NEW j \in DOMAIN v, NEW k \in DOMAIN v, v[j].id = v[k].id PROVE j = k
  <2>1. f[j] = f[k] /\ f[j] \in Nat
    BY <1>1, <1>2, <1>3
  <2>2. ~(j < k) /\ ~(k < j)
    BY <1>1, <2>1
  <2> QED BY <1>2, <2>2
<1> QED
  BY <1>1, <1>3

\* Entries leave the queue.
LEMMA RetainKeeps ==
  ASSUME NEW g, Sound(g), NEW kept
  PROVE  LET r == [g EXCEPT !.s.pending = Retain(@, kept)]
         IN /\ Sound(r) /\ (Tied(g) => Tied(r)) /\ Harmless(g, r)
            /\ r.l = g.l /\ r.s.slots = g.s.slots
            /\ r.s.selected = g.s.selected
<1> DEFINE q == Retain(g.s.pending, kept)
           r == [g EXCEPT !.s.pending = Retain(@, kept)]
<1>0. g \in States /\ g.s \in Scheds /\ g.s.pending \in Seq(Pending)
  BY StateTypes DEF Sound
<1>1. q \in Seq(Pending) /\ Promise!Fewer(q, g.s.pending)
  BY <1>0, RetainFewer
<1>2. r = [g EXCEPT !.s = [g.s EXCEPT !.pending = q]]
  BY <1>0 DEF States, Scheds
<1> HIDE DEF q
<1>3. /\ r \in States /\ r.l = g.l /\ r.s.slots = g.s.slots /\ r.s.pending = q
      /\ r.s.limit = g.s.limit /\ r.s.nextPending = g.s.nextPending
      /\ r.s.nextSession = g.s.nextSession /\ r.s.selected = g.s.selected
  BY <1>0, <1>1, <1>2 DEF States, Scheds
<1> HIDE DEF r
<1>4. Numbered(r.s)
  <2> DEFINE w == g.s.pending
  <2>1. /\ \A j, k \in DOMAIN w : w[j].id = w[k].id => j = k
        /\ \A k \in DOMAIN w : w[k].id < g.s.nextPending
    BY DEF Numbered, Sound
  <2>2. w \in Seq(Pending) /\ Promise!Fewer(q, w)
    BY <1>0, <1>1
  <2> HIDE DEF w
  <2>3. /\ \A j, k \in DOMAIN q : q[j].id = q[k].id => j = k
        /\ \A k \in DOMAIN q : q[k].id < g.s.nextPending
    BY <1>1, <2>1, <2>2, NumberedFewer
  <2> QED BY <1>3, <2>3 DEF Numbered
<1>5. Sound(r)
  BY <1>3, <1>4 DEF Sound, Housed, Away
<1>6. Tied(g) => Tied(r)
  BY <1>3 DEF Tied
<1>7. Harmless(g, r)
  BY <1>1, <1>3 DEF Harmless, Calm, ActiveIn
<1> QED
  BY <1>3, <1>5, <1>6, <1>7 DEF r

\* An entry joins it.
LEMMA EnqueueKeeps ==
  ASSUME NEW g, Sound(g), NEW task \in MaybeTask, NEW request \in MaybeTask,
         NEW target \in Sessions \cup {None}, NEW resume \in BOOLEAN
  PROVE  LET r == Enqueue(g, task, request, target, resume)
         IN /\ Sound(r) /\ (Tied(g) => Tied(r)) /\ Calm(g, r)
            /\ \E e \in Pending : r.s.pending = Append(g.s.pending, e)
            /\ ActiveIn(r.s) = ActiveIn(g.s) /\ r.s.limit = g.s.limit
            /\ r.s.slots = g.s.slots /\ r.s.selected = g.s.selected
<1> DEFINE e == [id |-> g.s.nextPending, task |-> task, request |-> request,
                 target |-> target, resume |-> resume]
           q == Append(g.s.pending, e)
           r == Enqueue(g, task, request, target, resume)
<1>0. /\ g \in States /\ g.s \in Scheds /\ g.s.pending \in Seq(Pending)
      /\ g.s.nextPending \in Nat
  BY StateTypes DEF Sound
<1>1. e \in Pending /\ e.id = g.s.nextPending
  BY <1>0 DEF Pending
<1>2. r = [g EXCEPT !.s = [g.s EXCEPT !.nextPending = g.s.nextPending + 1, !.pending = q]]
  BY <1>0 DEF Enqueue, States, Scheds
<1> HIDE DEF e
<1>3. q \in Seq(Pending)
  BY <1>0, <1>1
<1>4. /\ \A k \in DOMAIN q : k # Len(q) => k \in DOMAIN g.s.pending /\ q[k] = g.s.pending[k]
      /\ q[Len(q)] = e
  BY <1>0, <1>1
<1> HIDE DEF q
<1>5. /\ r \in States /\ r.l = g.l /\ r.s.slots = g.s.slots /\ r.s.pending = q
      /\ r.s.limit = g.s.limit /\ r.s.nextPending = g.s.nextPending + 1
      /\ r.s.nextSession = g.s.nextSession /\ r.s.selected = g.s.selected
  <2> DEFINE s == [g.s EXCEPT !.nextPending = g.s.nextPending + 1, !.pending = q]
  <2>0. g.s.nextPending + 1 \in Nat
    BY <1>0
  <2>1. /\ s \in Scheds /\ s.slots = g.s.slots /\ s.pending = q /\ s.limit = g.s.limit
        /\ s.nextPending = g.s.nextPending + 1 /\ s.nextSession = g.s.nextSession
        /\ s.selected = g.s.selected
    BY <1>0, <1>3, <2>0 DEF Scheds
  <2>2. r = [g EXCEPT !.s = s]
    BY <1>2
  <2> HIDE DEF s
  <2> QED BY <1>0, <2>1, <2>2 DEF States
<1> HIDE DEF r
<1>6. Numbered(r.s)
  <2>1. \A k \in DOMAIN g.s.pending : g.s.pending[k].id < g.s.nextPending
                                      /\ g.s.pending[k].id \in Nat
    <3>1. \A k \in DOMAIN g.s.pending : g.s.pending[k] \in Pending
      BY <1>0
    <3>2. \A k \in DOMAIN g.s.pending : g.s.pending[k].id \in Nat
      BY <3>1 DEF Pending
    <3> QED BY <3>2 DEF Sound, Numbered
  <2>2. \A k \in DOMAIN q : q[k].id < g.s.nextPending + 1
    BY <1>0, <1>1, <1>4, <2>1
  <2>3. ASSUME NEW j \in DOMAIN q, NEW k \in DOMAIN q, q[j].id = q[k].id PROVE j = k
    <3>1. CASE j # Len(q) /\ k # Len(q)
      BY <1>4, <2>3, <3>1 DEF Sound, Numbered
    <3>2. CASE j = Len(q) /\ k # Len(q)
      BY <1>0, <1>1, <1>4, <2>1, <2>3, <3>2
    <3>3. CASE j # Len(q) /\ k = Len(q)
      BY <1>0, <1>1, <1>4, <2>1, <2>3, <3>3
    <3> QED BY <3>1, <3>2, <3>3
  <2> QED BY <1>5, <2>2, <2>3 DEF Numbered
<1>7. Sound(r)
  BY <1>5, <1>6 DEF Sound, Housed, Away
<1>8. (Tied(g) => Tied(r)) /\ Calm(g, r) /\ ActiveIn(r.s) = ActiveIn(g.s)
  BY <1>5 DEF Tied, Calm, ActiveIn
<1> QED
  BY <1>1, <1>5, <1>7, <1>8 DEF r, q

\* The answer to the window is kept aside.
LEMMA PlaceAside ==
  ASSUME NEW g \in States, NEW r \in MaybeTask, NEW session \in Sessions \cup {None},
         NEW n \in Nat
  PROVE  /\ Aside(g, Place(g, r, session, n)) /\ Aside(g, Acknowledge(g, r))
         /\ Place(g, r, session, n).s.selected = g.s.selected
         /\ Acknowledge(g, r).s.selected = g.s.selected
         /\ Aside(g, [g EXCEPT !.s.processed = Larger(@, r)])
         /\ \A i \in Sessions : Aside(g, [g EXCEPT !.s.selected = i])
<1>0. /\ g.s \in Scheds /\ g.s.accepted \in MaybeTask /\ g.s.processed \in MaybeTask
  BY StateTypes
<1>1. Larger(g.s.accepted, r) \in MaybeTask /\ Larger(g.s.processed, r) \in MaybeTask
  BY <1>0 DEF Larger
<1>2. [request |-> r, session |-> session, pending |-> n] \in Placement
  BY DEF Placement
<1>3. Aside(g, Place(g, r, session, n)) /\ Place(g, r, session, n).s.selected = g.s.selected
  BY <1>0, <1>2 DEF Place, Aside, States, Scheds
<1>4. Aside(g, Acknowledge(g, r)) /\ Acknowledge(g, r).s.selected = g.s.selected
  BY <1>0, <1>1 DEF Acknowledge, Aside, States, Scheds
<1>5. Aside(g, [g EXCEPT !.s.processed = Larger(@, r)])
  BY <1>0, <1>1 DEF Aside, States, Scheds
<1>6. ASSUME NEW i \in Sessions PROVE Aside(g, [g EXCEPT !.s.selected = i])
  BY <1>0 DEF Aside, States, Scheds
<1> QED
  BY <1>3, <1>4, <1>5, <1>6

\* A step that takes a conversation or an entry away, or nothing.
Spares(g, r) == Sound(r) /\ (Tied(g) => Tied(r)) /\ Harmless(g, r)

LEMMA SparesTwice ==
  ASSUME NEW g, NEW h, NEW r, Spares(g, h), Spares(h, r)
  PROVE  Spares(g, r)
BY HarmlessTwice DEF Spares

LEMMA SparesSelf == ASSUME NEW g, Sound(g) PROVE Spares(g, g)
BY HarmlessSelf DEF Spares

LEMMA AsideSpares == ASSUME NEW g, NEW r, Aside(g, r), Sound(g) PROVE Spares(g, r)
BY AsideKeeps DEF Spares

\* A conversation at rest leaves the list; its worker is ending.
LEMMA WithoutKeeps ==
  ASSUME NEW g, Sound(g), NEW i \in DOMAIN g.s.slots, i \notin ActiveIn(g.s),
         NEW c \in Command, c.kind = "shutdown"
  PROVE  Spares(g, [Send(g, i, c) EXCEPT !.s.slots = Without(@, i)])
<1> DEFINE m == Without(g.s.slots, i)
           h == Send(g, i, c)
           r == [h EXCEPT !.s.slots = Without(@, i)]
<1>0. /\ g \in States /\ i \in Sessions /\ g.s \in Scheds
      /\ g.s.slots \in SlotMaps /\ DOMAIN g.s.slots \in SUBSET Sessions
      /\ \A j \in DOMAIN g.s.slots : g.s.slots[j] \in Slot
  BY StateTypes DEF Sound
<1>h. /\ h \in States /\ h.s = g.s /\ h.l = [g.l EXCEPT ![i] = Sent(g.l[i], c)]
      /\ g.l \in [Sessions -> Lane] /\ g.l[i].up
  BY <1>0, SendEffect, StateTypes DEF Sound, Housed
<1>l. /\ Leaving(h.l[i]) /\ \A j \in Sessions : j # i => h.l[j] = g.l[j]
      /\ ~WillRun(h.l[i]) \/ WillRun(g.l[i])
      /\ AtRest(g.l[i]) => AtRest(h.l[i])
      /\ h.l[i].up = g.l[i].up
  <2>1. g.l[i] \in Lane /\ h.l[i] = Sent(g.l[i], c)
        /\ c.kind \notin Starting \cup {"queue", "stop"} /\ c.kind \notin Starting
    BY <1>0, <1>h DEF Starting
  <2>2. \A j \in Sessions : j # i => h.l[j] = g.l[j]
    BY <1>h
  <2>3. Leaving(h.l[i]) /\ (~WillRun(h.l[i]) \/ WillRun(g.l[i]))
    BY <1>h, <2>1, SentMeans
  <2>4. (AtRest(g.l[i]) => AtRest(h.l[i])) /\ h.l[i].up = g.l[i].up
    BY <2>1, SentFacts, SentAtRest
  <2> QED BY <2>2, <2>3, <2>4
<1>1. /\ DOMAIN m = DOMAIN g.s.slots \ {i}
      /\ \A j \in DOMAIN m : m[j] = g.s.slots[j]
  BY DEF Without
<1>2. m \in SlotMaps
  <2>1. m \in [DOMAIN g.s.slots \ {i} -> Slot]
    BY <1>0 DEF Without
  <2> QED BY <1>0, <2>1, SlotMap
<1>3. r = [h EXCEPT !.s = [g.s EXCEPT !.slots = m]]
  <2> HIDE DEF h
  <2> QED BY <1>0, <1>h DEF States, Scheds
<1> HIDE DEF m, h, r
<1>4. /\ r \in States /\ r.l = h.l /\ r.s.slots = m /\ r.s.pending = g.s.pending
      /\ r.s.limit = g.s.limit /\ r.s.nextPending = g.s.nextPending
      /\ r.s.nextSession = g.s.nextSession
  BY <1>0, <1>h, <1>2, <1>3 DEF States, Scheds
<1>5. Sound(r)
  <2>1. Housed(r)
    BY <1>0, <1>1, <1>l, <1>4 DEF Sound, Housed
  <2>2. Away(r)
    BY <1>0, <1>1, <1>l, <1>4 DEF Sound, Away
  <2> QED BY <1>4, <2>1, <2>2 DEF Sound, Numbered
<1>6. ActiveIn(r.s) = ActiveIn(g.s)
  BY <1>1, <1>4 DEF ActiveIn
<1>7. ASSUME Tied(g) PROVE Tied(r)
  <2>1. ~g.s.slots[i].assigned
    BY DEF ActiveIn, Active
  <2>2. Attended(g.s.slots[i], g.l[i])
    BY <1>0, <1>7 DEF Tied
  <2>3. AtRest(g.l[i])
    BY <2>1, <2>2 DEF Attended, AtRest
  <2> QED BY <1>1, <1>l, <1>4, <1>7, <2>3 DEF Tied
<1>8. Harmless(g, r)
  <2>1. Calm(g, r)
    BY <1>l, <1>4 DEF Calm
  <2> QED BY <1>4, <1>6, <2>1, FewerSelf DEF Harmless
<1> QED
  BY <1>5, <1>7, <1>8 DEF r, h, Spares

\* dismiss_session.
LEMMA DismissKeeps ==
  ASSUME NEW g, Sound(g), NEW i
  PROVE  Spares(g, DismissSession(g, i))
<1>1. CASE i \notin DOMAIN g.s.slots \/ Active(g.s.slots[i])
  <2>1. DismissSession(g, i) = g
    BY <1>1 DEF DismissSession
  <2> QED BY <2>1, SparesSelf
<1>2. CASE i \in DOMAIN g.s.slots /\ ~Active(g.s.slots[i])
  <2> DEFINE c == Cmd(IF i = 1 THEN "reset" ELSE "shutdown", None, None)
             u == Unqueue(g, i)
             f == Farewell(u, i)
             gone == [f EXCEPT !.s.slots = IF i = 1 THEN [@ EXCEPT ![1].origin = 0]
                                           ELSE Without(@, i)]
             others == {j \in DOMAIN gone.s.slots \ {i} : HasHistory(gone.s.slots[j])}
             newest == CHOOSE j \in others :
                         \A k \in others : gone.s.slots[j].order >= gone.s.slots[k].order
             to == IF others = {} THEN 1 ELSE newest
  <2>0. i \in Sessions /\ 1 \in Sessions /\ g.l[i].up /\ c \in Command
        /\ c.kind = (IF i = 1 THEN "reset" ELSE "shutdown")
        /\ g.l \in [Sessions -> Lane] /\ g \in States
    BY <1>2, StateTypes, SchedulerAssumption
       DEF Sound, Housed, Sessions, Cmd, Command, CommandKinds, MaybeTask, None
  <2>1. Spares(g, u) /\ u.l = g.l /\ u.s.slots = g.s.slots
    BY RetainKeeps DEF Unqueue, Spares
  <2>2. f = Send(u, i, c)
    BY DEF Farewell
  <2> HIDE DEF c, u
  <2>4. Sound(u) /\ i \in DOMAIN u.s.slots /\ i \notin ActiveIn(u.s)
    BY <1>2, <2>1 DEF Spares, ActiveIn
  <2>5. Spares(u, gone)
    <3>1. CASE i = 1
      <4>0. c.kind \notin Starting \cup {"queue", "stop"} /\ c.kind # "shutdown"
            /\ c.kind \notin Starting
        BY <2>0, <3>1 DEF Starting
      <4>1. Spares(u, f) /\ f.s = u.s
        <5>1. u \in States
          BY <2>4 DEF Sound
        <5>2. f.s = u.s
          <6>1. Send(u, i, c).s = u.s
            BY <2>0, <5>1, SendEffect, ZenonT(40)
          <6> QED BY <2>2, <6>1
        <5>3. Sound(f) /\ (Tied(u) => Tied(f)) /\ Harmless(u, f)
          BY <2>0, <2>2, <2>4, <4>0, SendKeeps
        <5> QED BY <5>2, <5>3 DEF Spares
      <4>2. gone = [f EXCEPT !.s.slots[1].origin = 0]
        BY <3>1
      <4> HIDE DEF gone, f
      <4>3. 1 \in DOMAIN f.s.slots /\ 0 \in Nat /\ Sound(f)
        BY <2>4, <3>1, <4>1 DEF Spares
      <4>4. Spares(f, gone)
        BY <4>2, <4>3, OriginKeeps DEF Spares
      <4> QED BY <4>1, <4>4, SparesTwice
    <3>2. CASE i # 1
      <4>1. gone = [Send(u, i, c) EXCEPT !.s.slots = Without(@, i)]
        BY <2>2, <3>2
      <4> HIDE DEF gone, f
      <4> QED BY <2>0, <2>4, <3>2, <4>1, WithoutKeeps
    <3> QED BY <3>1, <3>2
  <2>s. Spares(g, gone) /\ gone \in States
    <3> HIDE DEF gone
    <3>1. Spares(g, gone)
      BY <2>1, <2>5, SparesTwice
    <3> QED BY <3>1 DEF Spares, Sound
  <2> HIDE DEF gone
  <2>6. to \in Sessions
    <3>0. MaxSession \in Nat /\ others \in SUBSET (1..MaxSession)
          /\ \A j \in others : gone.s.slots[j] \in Slot
      BY <2>s, StateTypes, SchedulerAssumption DEF Sessions
    <3>1. CASE others = {}
      BY <2>0, <3>1
    <3>2. CASE others # {}
      <4> DEFINE o == [j \in others |-> gone.s.slots[j].order]
      <4>1. \A j \in others : o[j] \in Int /\ o[j] = gone.s.slots[j].order
        BY <3>0 DEF Slot
      <4> HIDE DEF o, others
      <4>2. \E j \in others : \A k \in others : o[j] >= o[k]
        BY <3>0, <3>2, <4>1, Best
      <4>3. \E j \in others : \A k \in others : gone.s.slots[j].order >= gone.s.slots[k].order
        BY <4>1, <4>2
      <4>4. newest \in others
        BY <4>3
      <4> QED BY <3>0, <3>2, <4>4 DEF Sessions
    <3> QED BY <3>1, <3>2
  <2> HIDE DEF to
  <2>7. DismissSession(g, i) = gone \/ DismissSession(g, i) = [gone EXCEPT !.s.selected = to]
    BY <1>2 DEF DismissSession, gone, f, u, to
  <2>8. Aside(gone, [gone EXCEPT !.s.selected = to])
    BY <2>s, <2>6, PlaceAside DEF MaybeTask, None
  <2>9. Spares(gone, [gone EXCEPT !.s.selected = to])
    BY <2>s, <2>8, AsideSpares DEF Spares
  <2> QED
    BY <2>s, <2>7, <2>9, SparesTwice
<1> QED
  BY <1>1, <1>2

\* f is the function that DismissAll computes.
Next1(g, ids, f, k) ==
  IF k = 0 THEN g
  ELSE IF k \in ids THEN DismissSession(f[k - 1], k) ELSE f[k - 1]
Dismisses(g, ids, f, n) == f = [k \in 0..n |-> Next1(g, ids, f, k)]

LEMMA DismissesExist ==
  ASSUME NEW g, NEW ids, NEW n \in Nat
  PROVE  \E f : Dismisses(g, ids, f, n)
<1> DEFINE P == {m \in 0..n : \E f : Dismisses(g, ids, f, m)}
<1>1. 0 \in P
  <2>1. Dismisses(g, ids, [k \in 0..0 |-> g], 0)
    BY DEF Dismisses, Next1
  <2> QED
    BY <2>1
<1>2. ASSUME NEW m \in P, m < n PROVE m + 1 \in P
  <2>1. PICK f : Dismisses(g, ids, f, m)
    OBVIOUS
  <2>2. m \in 0..n /\ m + 1 \in 0..n /\ m \in Nat
    BY <1>2
  <2> HIDE DEF P
  <2> DEFINE last == IF m + 1 \in ids THEN DismissSession(f[m], m + 1) ELSE f[m]
             h == [k \in 0..m + 1 |-> IF k = m + 1 THEN last ELSE f[k]]
  <2>3. \A k \in 0..m : f[k] = Next1(g, ids, f, k)
    BY <2>1, <2>2 DEF Dismisses
  <2> HIDE DEF last
  <2>4. \A k \in 0..m : h[k] = Next1(g, ids, h, k)
    <3>1. \A k \in 0..m : h[k] = f[k]
      BY <2>2
    <3> HIDE DEF h
    <3> QED
      BY <2>2, <2>3, <3>1 DEF Next1
  <2>5. h[m + 1] = Next1(g, ids, h, m + 1)
    BY <2>2 DEF last, Next1
  <2>6. Dismisses(g, ids, h, m + 1)
    <3>1. h = [k \in 0..m + 1 |-> h[k]]
      OBVIOUS
    <3>2. \A k \in 0..m + 1 : k \in 0..m \/ k = m + 1
      BY <2>2
    <3> HIDE DEF h
    <3>3. \A k \in 0..m + 1 : h[k] = Next1(g, ids, h, k)
      BY <2>4, <2>5, <3>2
    <3> QED
      BY <3>1, <3>3 DEF Dismisses
  <2> HIDE DEF h
  <2> QED
    BY <2>2, <2>6 DEF P
<1> HIDE DEF P
<1>3. P \in SUBSET (0..n)
  BY DEF P
<1> QED
  BY <1>1, <1>2, <1>3, UpTo DEF P

LEMMA DismissAllKeeps ==
  ASSUME NEW g, Sound(g), NEW ids
  PROVE  Spares(g, DismissAll(g, ids))
<1> DEFINE n == MaxSession
<1>0. n \in Nat
  BY SchedulerAssumption
<1>1. PICK f : Dismisses(g, ids, f, n) /\ DismissAll(g, ids) = f[n]
  <2>1. \E f : f = [k \in 0..n |-> IF k = 0 THEN g
                      ELSE IF k \in ids THEN DismissSession(f[k - 1], k) ELSE f[k - 1]]
    <3>1. PICK f : Dismisses(g, ids, f, n)
      BY <1>0, DismissesExist
    <3> QED
      BY <3>1 DEF Dismisses, Next1
  <2> QED
    BY <2>1 DEF DismissAll, Dismisses, Next1
<1> HIDE DEF n
<1>2. \A k \in 0..n : f[k] = Next1(g, ids, f, k)
  BY <1>1 DEF Dismisses
<1> DEFINE P == {k \in 0..n : Spares(g, f[k])}
<1>p. P \in SUBSET (0..n) /\ \A k \in 0..n : k \in P <=> Spares(g, f[k])
  OBVIOUS
<1> HIDE DEF P
<1>3. 0 \in P
  <2>1. 0 \in 0..n
    BY <1>0
  <2> QED BY <1>2, <1>p, <2>1, SparesSelf DEF Next1
<1>4. ASSUME NEW m \in P, m < n PROVE m + 1 \in P
  <2>0. m + 1 \in 0..n /\ m \in Nat /\ m + 1 # 0 /\ (m + 1) - 1 = m /\ Spares(g, f[m])
    BY <1>0, <1>4, <1>p
  <2>1. f[m + 1] = DismissSession(f[m], m + 1) \/ f[m + 1] = f[m]
    BY <1>2, <2>0 DEF Next1
  <2>2. Spares(f[m], DismissSession(f[m], m + 1))
    <3>1. Sound(f[m])
      BY <2>0 DEF Spares
    <3> QED BY <3>1, DismissKeeps
  <2>3. Spares(g, DismissSession(f[m], m + 1))
    BY <2>0, <2>2, SparesTwice
  <2> QED BY <1>p, <2>0, <2>1, <2>3
<1>5. n \in P
  BY <1>0, <1>3, <1>4, <1>p, UpTo
<1> QED
  BY <1>1, <1>5, <1>p, <1>0

LEMMA PruneKeeps ==
  ASSUME NEW g, Sound(g) PROVE Spares(g, PruneFinishedSessions(g))
BY DismissAllKeeps DEF PruneFinishedSessions

\* spawn_slot.
LEMMA SpawnedFacts ==
  ASSUME NEW task \in MaybeTask, NEW n \in Nat
  PROVE  LET l == SpawnLane(task)
             slot == NewSlot(l.view, FALSE, n)
         IN /\ l \in Lane /\ l.up /\ ~Running(l.view) /\ ~WillRun(l) /\ ~Leaving(l)
            /\ slot \in Slot /\ ~Active(slot) /\ Attended(slot, l)
<1> DEFINE l == SpawnLane(task)
           slot == NewSlot(l.view, FALSE, n)
<1>0. None \in MaybeTask /\ task \in MaybeTask
  BY DEF MaybeTask
<1>1. Blank \in View /\ Nothing \in Command /\ << >> \in Seq(Command)
  BY <1>0 DEF Blank, View, Phases, Nothing, Cmd, Command, CommandKinds
<1>2. NoLane \in Lane
  BY <1>0, <1>1 DEF NoLane, Lane
<1>3. /\ l \in Lane /\ l.up /\ l.inbox = << >> /\ l.doing = Nothing
      /\ l.view.phase = "Idle" /\ l.view.done = 0 /\ l.view \in View
  BY <1>0, <1>1, <1>2 DEF SpawnLane, NoLane, Lane, View, Blank
<1> HIDE DEF l
<1>4. DOMAIN l.inbox = {}
  BY <1>3
<1>5. ~Running(l.view) /\ ~WillRun(l)
  <2>1. Deciding(l) = {}
    BY <1>4 DEF Deciding
  <2> QED BY <1>3, <2>1, WillRunMeans DEF Running
<1>6. /\ slot \in Slot /\ slot.snap = l.view /\ slot.assigned = FALSE /\ slot.base = NoBase
  BY <1>3 DEF NewSlot, Slot, NoBase
<1> HIDE DEF slot
<1>7. Attended(slot, l)
  <2>1. StartsIn(l) = {} /\ Calls(l)
    BY <1>4 DEF StartsIn, Calls
  <2> QED BY <1>3, <1>5, <1>6, <2>1 DEF Attended, Quiet
<1>8. ~Leaving(l)
  BY <1>4 DEF Leaving
<1> QED
  BY <1>3, <1>5, <1>6, <1>7, <1>8 DEF l, slot, Active

LEMMA SpawnKeeps ==
  ASSUME NEW g, Sound(g), g.s.nextSession \in Sessions, NEW task \in MaybeTask
  PROVE  LET r == SpawnSlot(g, task)
         IN /\ Spares(g, r) /\ g.s.nextSession \in DOMAIN r.s.slots
            /\ r.s.pending = g.s.pending
<1> DEFINE i == g.s.nextSession
           lane == SpawnLane(task)
           slot == NewSlot(lane.view, FALSE, g.s.counter + 1)
           m == With(g.s.slots, i, slot)
           n == g.s.counter + 1
           r == SpawnSlot(g, task)
<1>0. /\ g \in States /\ i \in Sessions /\ g.s \in Scheds /\ n \in Nat /\ i + 1 \in Nat
      /\ g.s.slots \in SlotMaps /\ DOMAIN g.s.slots \in SUBSET Sessions
      /\ \A j \in DOMAIN g.s.slots : g.s.slots[j] \in Slot
      /\ g.l \in [Sessions -> Lane]
  BY StateTypes DEF Sound
<1>1. /\ lane \in Lane /\ lane.up /\ ~WillRun(lane) /\ ~Leaving(lane)
      /\ slot \in Slot /\ ~Active(slot) /\ Attended(slot, lane)
  BY <1>0, SpawnedFacts DEF n
<1> HIDE DEF lane, slot
<1>2. /\ DOMAIN m = DOMAIN g.s.slots \cup {i} /\ m[i] = slot
      /\ \A j \in DOMAIN m : j # i => j \in DOMAIN g.s.slots /\ m[j] = g.s.slots[j]
  BY DEF With
<1>3. m \in SlotMaps
  <2>1. m \in [DOMAIN g.s.slots \cup {i} -> Slot]
    BY <1>0, <1>1, <1>2 DEF With
  <2> QED BY <1>0, <2>1, SlotMap
<1>4. r = [g EXCEPT !.s = [g.s EXCEPT !.nextSession = i + 1, !.counter = n, !.slots = m],
                    !.l = [g.l EXCEPT ![i] = lane]]
  BY <1>0 DEF SpawnSlot, States, Scheds, lane, slot
<1> HIDE DEF m, n
<1>5. /\ r \in States /\ r.l = [g.l EXCEPT ![i] = lane] /\ r.s.slots = m
      /\ r.s.pending = g.s.pending /\ r.s.limit = g.s.limit
      /\ r.s.nextPending = g.s.nextPending /\ r.s.nextSession = i + 1
  <2> DEFINE s == [g.s EXCEPT !.nextSession = i + 1, !.counter = n, !.slots = m]
             l == [g.l EXCEPT ![i] = lane]
  <2>1. /\ s \in Scheds /\ s.slots = m /\ s.pending = g.s.pending /\ s.limit = g.s.limit
        /\ s.nextPending = g.s.nextPending /\ s.nextSession = i + 1
    BY <1>0, <1>3 DEF Scheds
  <2>2. l \in [Sessions -> Lane]
    BY <1>0, <1>1
  <2>3. r = [g EXCEPT !.s = s, !.l = l]
    BY <1>4
  <2> HIDE DEF s, l
  <2>4. r \in States /\ r.l = l /\ r.s = s
    BY <1>0, <2>1, <2>2, <2>3 DEF States
  <2> QED BY <2>1, <2>4 DEF l
<1> HIDE DEF r
<1>6. r.l[i] = lane /\ \A j \in Sessions : j # i => r.l[j] = g.l[j]
  BY <1>0, <1>5
<1>7. i \notin DOMAIN g.s.slots /\ i \in Nat
  <2>1. i \in Nat /\ ~(i < i)
    BY <1>0 DEF Sessions
  <2> QED BY <2>1 DEF Sound, Housed
<1>8. Housed(r)
  <2>1. \A j \in DOMAIN r.s.slots : j < i + 1 /\ r.l[j].up /\ ~Leaving(r.l[j])
    BY <1>0, <1>1, <1>2, <1>5, <1>6, <1>7 DEF Sound, Housed, Sessions
  <2>2. \A j \in Sessions : j >= i + 1 => j # i /\ j >= i
    BY <1>7 DEF Sessions
  <2> QED BY <1>5, <1>6, <2>1, <2>2 DEF Sound, Housed
<1>9. Away(r)
  BY <1>2, <1>5, <1>6 DEF Sound, Away
<1>10. Sound(r)
  BY <1>5, <1>8, <1>9 DEF Sound, Numbered
<1>11. ActiveIn(r.s) = ActiveIn(g.s)
  BY <1>1, <1>2, <1>5, <1>7 DEF ActiveIn
<1>12. Tied(g) => Tied(r)
  BY <1>1, <1>2, <1>5, <1>6 DEF Tied
<1>13. Harmless(g, r)
  BY <1>1, <1>5, <1>6, <1>11, FewerSelf DEF Harmless, Calm
<1> QED
  BY <1>2, <1>5, <1>10, <1>12, <1>13 DEF r, Spares

\* What a step may do to the queue and the lanes: LaneQueue's Leave, Join,
\* StartDirectly and SetLimit.
Joins(g, r) ==
  /\ AtLimit(g.s) /\ Calm(g, r)
  /\ ActiveIn(r.s) = ActiveIn(g.s) /\ r.s.limit = g.s.limit
  /\ \E e \in Pending : r.s.pending = Append(g.s.pending, e)
Takes(g, r) ==
  /\ r.s.limit = g.s.limit
  /\ \E i \in Sessions \ ActiveIn(g.s) : ActiveIn(r.s) = ActiveIn(g.s) \cup {i}
  /\ Promise!Fewer(r.s.pending, g.s.pending)
Limited(g, r) ==
  /\ Calm(g, r) /\ ActiveIn(r.s) = ActiveIn(g.s) /\ r.s.pending = g.s.pending
Outcome(g, r) ==
  \/ Harmless(g, r)
  \/ Joins(g, r)
  \/ ~AtLimit(g.s) /\ Takes(g, r)
  \/ Limited(g, r)

Does(g, r) == Sound(r) /\ (Tied(g) => Tied(r)) /\ Outcome(g, r)

LEMMA SparesDoes == ASSUME NEW g, NEW r, Spares(g, r) PROVE Does(g, r)
BY DEF Spares, Does, Outcome

LEMMA AsideDoes ==
  ASSUME NEW g, NEW h, NEW r, Does(g, h), Aside(h, r)
  PROVE  Does(g, r)
<1>1. Sound(h)
  BY DEF Does
<1>2. Sound(r) /\ (Tied(h) => Tied(r))
  BY <1>1, AsideKeeps
<1>3. /\ ActiveIn(r.s) = ActiveIn(h.s) /\ r.s.limit = h.s.limit
      /\ r.s.pending = h.s.pending /\ r.l = h.l
  BY DEF Aside, ActiveIn
<1>4. Calm(g, h) => Calm(g, r)
  BY <1>3 DEF Calm
<1>5. Outcome(g, h)
  BY DEF Does
<1>6. Outcome(g, r)
  <2>1. CASE Harmless(g, h)
    BY <1>3, <1>4, <2>1 DEF Harmless, Outcome
  <2>2. CASE Joins(g, h)
    BY <1>3, <1>4, <2>2 DEF Joins, Outcome
  <2>3. CASE ~AtLimit(g.s) /\ Takes(g, h)
    BY <1>3, <1>4, <2>3 DEF Takes, Outcome
  <2>4. CASE Limited(g, h)
    BY <1>3, <1>4, <2>4 DEF Limited, Outcome
  <2> QED BY <1>5, <2>1, <2>2, <2>3, <2>4 DEF Outcome
<1> QED
  BY <1>2, <1>6 DEF Does

\* The slot of a fresh conversation.
LEMMA AssignSlotFree ==
  ASSUME NEW g, Sound(g), Fits(g.s)
  PROVE  LET i == AssignSlot(g.s)
         IN /\ i \in Sessions /\ i \notin ActiveIn(g.s)
            /\ i \in DOMAIN g.s.slots \/ i = g.s.nextSession
<1> DEFINE i == AssignSlot(g.s)
<1>0. /\ i \in Sessions /\ DOMAIN g.s.slots \in SUBSET Sessions /\ MaxSession \in Nat
      /\ Pristine(g.s) \in SUBSET (1..MaxSession)
  BY StateTypes, SchedulerAssumption DEF Fits, Sound, Pristine, Sessions
<1>1. CASE Pristine(g.s) = {}
  <2>1. i = g.s.nextSession
    BY <1>1 DEF AssignSlot
  <2>2. ~(i < i)
    BY <1>0 DEF Sessions
  <2>3. i \notin DOMAIN g.s.slots
    BY <2>1, <2>2 DEF Sound, Housed
  <2> QED BY <1>0, <2>1, <2>3 DEF ActiveIn
<1>2. CASE Pristine(g.s) # {}
  <2>1. i \in Pristine(g.s)
    BY <1>0, <1>2, MinOf DEF AssignSlot
  <2>2. i \in DOMAIN g.s.slots /\ ~HasHistory(g.s.slots[i])
    BY <2>1 DEF Pristine
  <2>3. ~Active(g.s.slots[i])
    BY <2>2 DEF HasHistory, Active, Running
  <2> QED BY <1>0, <2>2, <2>3 DEF ActiveIn
<1> QED
  BY <1>1, <1>2

LEMMA CommandTypes ==
  ASSUME NEW kind \in CommandKinds, NEW task \in MaybeTask, NEW request \in MaybeTask
  PROVE  Cmd(kind, task, request) \in Command /\ Cmd(kind, task, request).kind = kind
BY DEF Cmd, Command

\* assign_new_task.
LEMMA AssignKeeps ==
  ASSUME NEW g, Sound(g), Fits(g.s), NEW task \in MaybeTask, NEW request \in MaybeTask,
         NEW origin \in Nat
  PROVE  LET r == AssignNewTask(g, task, request, origin)
         IN /\ Sound(r) /\ (Tied(g) => Tied(r)) /\ Takes(g, r)
            /\ AssignSlot(g.s) \in Sessions
            /\ ActiveIn(r.s) = ActiveIn(g.s) \cup {AssignSlot(g.s)}
<1> DEFINE i == AssignSlot(g.s)
           g1 == IF i \in DOMAIN g.s.slots THEN g ELSE SpawnSlot(g, task)
           g2 == [g1 EXCEPT !.s.slots[i].origin = origin]
           c == Cmd("new", task, request)
           g3 == Send(Reserve(g2, i), i, c)
           r == PruneFinishedSessions(g3)
<1>0. /\ i \in Sessions /\ i \notin ActiveIn(g.s)
      /\ i \in DOMAIN g.s.slots \/ i = g.s.nextSession
  BY AssignSlotFree
<1>1. c \in Command /\ c.kind \in Starting
  BY CommandTypes DEF CommandKinds, Starting
<1>r. AssignNewTask(g, task, request, origin) = r
  BY DEF AssignNewTask
<1> HIDE DEF i, c
<1>2. Spares(g, g1) /\ i \in DOMAIN g1.s.slots
  <2>1. CASE i \in DOMAIN g.s.slots
    BY <2>1, SparesSelf
  <2>2. CASE i \notin DOMAIN g.s.slots
    BY <1>0, <2>2, SpawnKeeps
  <2> QED BY <2>1, <2>2
<1> HIDE DEF g1
<1>3. Spares(g1, g2) /\ i \in DOMAIN g2.s.slots
  BY <1>2, OriginKeeps DEF Spares
<1> HIDE DEF g2
<1>4. Spares(g, g2)
  BY <1>2, <1>3, SparesTwice
<1>5. Sound(g2) /\ i \notin ActiveIn(g2.s) /\ (Tied(g) => Tied(g2))
      /\ ActiveIn(g2.s) = ActiveIn(g.s) /\ g2.s.limit = g.s.limit
      /\ Promise!Fewer(g2.s.pending, g.s.pending)
  BY <1>0, <1>4 DEF Spares, Harmless
<1>6. /\ Sound(g3) /\ (Tied(g2) => Tied(g3))
      /\ ActiveIn(g3.s) = ActiveIn(g2.s) \cup {i}
      /\ g3.s.pending = g2.s.pending /\ g3.s.limit = g2.s.limit
  BY <1>1, <1>3, <1>5, CommitKeeps
<1> HIDE DEF g3
<1>7. Spares(g3, r)
  BY <1>6, PruneKeeps
<1> HIDE DEF r
<1>8. /\ Sound(r) /\ (Tied(g) => Tied(r)) /\ r.s.limit = g.s.limit
      /\ ActiveIn(r.s) = ActiveIn(g.s) \cup {i}
      /\ Promise!Fewer(r.s.pending, g3.s.pending)
  BY <1>5, <1>6, <1>7 DEF Spares, Harmless
<1>9. Promise!Fewer(r.s.pending, g.s.pending)
  BY <1>5, <1>6, <1>8, FewerFewer
<1>10. Takes(g, r)
  BY <1>0, <1>8, <1>9 DEF Takes
<1> QED
  BY <1>0, <1>8, <1>10, <1>r DEF i

-----------------------------------------------------------------------------
\* The commands.

LEMMA EnqueueDoes ==
  ASSUME NEW g, Sound(g), AtLimit(g.s), NEW task \in MaybeTask, NEW request \in MaybeTask,
         NEW target \in Sessions \cup {None}, NEW resume \in BOOLEAN
  PROVE  Does(g, Enqueue(g, task, request, target, resume))
BY EnqueueKeeps DEF Does, Outcome, Joins

LEMMA EnqueueAnsweredDoes ==
  ASSUME NEW g, Sound(g), AtLimit(g.s), NEW task \in MaybeTask, NEW request \in MaybeTask,
         NEW target \in Sessions \cup {None}
  PROVE  Does(g, EnqueueAnswered(g, task, request, target))
<1> DEFINE e == Enqueue(g, task, request, target, FALSE)
           a == Acknowledge(e, request)
           r == Place(a, request, None, g.s.nextPending)
<1>0. g.s.nextPending \in Nat /\ None \in Sessions \cup {None}
  BY StateTypes DEF Sound
<1>1. Does(g, e) /\ e \in States
  BY EnqueueDoes DEF Does, Sound
<1> HIDE DEF e
<1>2. Does(g, a) /\ a \in States
  <2>1. Aside(e, a)
    BY <1>0, <1>1, PlaceAside
  <2>2. Does(g, a)
    BY <1>1, <2>1, AsideDoes
  <2> QED BY <2>2 DEF Does, Sound
<1> HIDE DEF a
<1>3. Does(g, r)
  BY <1>0, <1>2, PlaceAside, AsideDoes
<1> QED
  BY <1>3 DEF EnqueueAnswered, a, e

LEMMA StartNewDoes ==
  ASSUME NEW g, Sound(g), Fits(g.s), NEW task \in MaybeTask, NEW request \in MaybeTask
  PROVE  Does(g, StartNewTask(g, task, request))
<1>1. CASE AtLimit(g.s)
  BY <1>1, EnqueueAnsweredDoes DEF StartNewTask
<1>2. CASE ~AtLimit(g.s)
  <2> DEFINE i == AssignSlot(g.s)
             g1 == AssignNewTask(g, task, request, 0)
             g2 == [g1 EXCEPT !.s.selected = i]
             a == Acknowledge(g2, request)
             r == Place(a, request, i, 0)
  <2>1. Does(g, g1) /\ g1 \in States /\ i \in Sessions
    BY <1>2, AssignKeeps DEF Does, Outcome, Sound
  <2>r. StartNewTask(g, task, request) = r
    BY <1>2 DEF StartNewTask
  <2> HIDE DEF g1, i
  <2>2. Does(g, g2) /\ g2 \in States
    <3>1. Aside(g1, g2)
      BY <2>1, PlaceAside DEF MaybeTask
    <3>2. Does(g, g2)
      BY <2>1, <3>1, AsideDoes
    <3> QED BY <3>2 DEF Does, Sound
  <2> HIDE DEF g2
  <2>3. Does(g, a) /\ a \in States
    <3>1. Aside(g2, a)
      BY <2>1, <2>2, PlaceAside
    <3>2. Does(g, a)
      BY <2>2, <3>1, AsideDoes
    <3> QED BY <3>2 DEF Does, Sound
  <2> HIDE DEF a
  <2>4. Aside(a, r)
    BY <2>1, <2>3, PlaceAside
  <2> QED BY <2>3, <2>4, <2>r, AsideDoes
<1> QED
  BY <1>1, <1>2

\* A slot that has room starts.
LEMMA CommitDoes ==
  ASSUME NEW g, Sound(g), NEW i \in DOMAIN g.s.slots, i \notin ActiveIn(g.s), ~AtLimit(g.s),
         NEW c \in Command, c.kind \in Starting
  PROVE  Does(g, Send(Reserve(g, i), i, c))
<1> DEFINE r == Send(Reserve(g, i), i, c)
<1>1. /\ Sound(r) /\ (Tied(g) => Tied(r))
      /\ ActiveIn(r.s) = ActiveIn(g.s) \cup {i}
      /\ r.s.pending = g.s.pending /\ r.s.limit = g.s.limit
  BY CommitKeeps
<1>2. i \in Sessions
  BY StateTypes DEF Sound
<1> HIDE DEF r
<1>3. Takes(g, r)
  BY <1>1, <1>2, FewerSelf DEF Takes
<1> QED
  BY <1>1, <1>3 DEF Does, Outcome, r

\* start_configured.
LEMMA StartConfiguredDoes ==
  ASSUME NEW g, Sound(g), Fits(g.s), NEW task \in MaybeTask, NEW request \in MaybeTask
  PROVE  LET r == StartConfigured(g, task, request)
         IN Sound(r) /\ (g.s.selected \notin ActiveIn(g.s) => Does(g, r))
<1> DEFINE i == g.s.selected
           r == StartConfigured(g, task, request)
<1>0. /\ i \in Sessions /\ ActiveIn(g.s) \subseteq DOMAIN g.s.slots
      /\ i \in Sessions \cup {None} /\ 0 \in Nat
  BY StateTypes DEF Sound, ActiveIn
<1>1. CASE i \notin DOMAIN g.s.slots
  <2>1. r = StartNewTask(g, task, request)
    BY <1>0, <1>1 DEF StartConfigured
  <2> HIDE DEF r
  <2>2. Does(g, r)
    BY <2>1, StartNewDoes
  <2> QED BY <2>2 DEF Does, r
<1>2. CASE i \in ActiveIn(g.s)
  <2> DEFINE c == Cmd("queue", task, request)
             h == Send(g, i, c)
  <2>1. r = Place(h, request, i, 0)
    BY <1>0, <1>2 DEF StartConfigured
  <2>2. c \in Command /\ c.kind # "shutdown"
    BY CommandTypes DEF CommandKinds
  <2> HIDE DEF c, r
  <2>3. Sound(h)
    BY <1>0, <2>2, SendKeeps
  <2> HIDE DEF h
  <2>4. Aside(h, r)
    BY <1>0, <2>1, <2>3, PlaceAside DEF Sound
  <2>5. Sound(r)
    BY <2>3, <2>4, AsideKeeps
  <2> QED BY <1>2, <2>5 DEF r
<1>3. CASE i \in DOMAIN g.s.slots /\ i \notin ActiveIn(g.s) /\ AtLimit(g.s)
  <2>1. r = EnqueueAnswered(g, task, request, i)
    BY <1>3 DEF StartConfigured
  <2> HIDE DEF r
  <2>2. Does(g, r)
    BY <1>0, <1>3, <2>1, EnqueueAnsweredDoes
  <2> QED BY <2>2 DEF Does, r
<1>4. CASE i \in DOMAIN g.s.slots /\ i \notin ActiveIn(g.s) /\ ~AtLimit(g.s)
  <2> DEFINE c == Cmd("start", task, request)
             h == Send(Reserve(g, i), i, c)
  <2>1. r = Place(h, request, i, 0)
    BY <1>4 DEF StartConfigured
  <2>2. c \in Command /\ c.kind \in Starting
    BY CommandTypes DEF CommandKinds, Starting
  <2> HIDE DEF c, r
  <2>3. Does(g, h) /\ h \in States
    <3>1. Does(g, h)
      BY <1>4, <2>2, CommitDoes
    <3> QED BY <3>1 DEF Does, Sound
  <2> HIDE DEF h
  <2>4. Aside(h, r)
    BY <1>0, <2>1, <2>3, PlaceAside
  <2>5. Does(g, r)
    BY <2>3, <2>4, AsideDoes
  <2> QED BY <2>5 DEF Does, r
<1> QED
  BY <1>1, <1>2, <1>3, <1>4

\* Resume.
LEMMA ResumeDoes ==
  ASSUME NEW g, Sound(g)
  PROVE  Does(g, StartOrQueueSelected(g))
<1> DEFINE i == g.s.selected
           r == StartOrQueueSelected(g)
<1>0. Does(g, g)
  BY SparesSelf, SparesDoes
<1>1. CASE r = g
  BY <1>0, <1>1
<1>2. CASE /\ i \in DOMAIN g.s.slots /\ i \notin ActiveIn(g.s) /\ AtLimit(g.s)
           /\ r = Enqueue(g, g.s.slots[i].snap.task, None, i, TRUE)
  <2>1. /\ g.s.slots[i].snap.task \in MaybeTask /\ None \in MaybeTask
        /\ i \in Sessions \cup {None} /\ TRUE \in BOOLEAN
    <3>1. g.s.slots[i] \in Slot /\ i \in Sessions
      BY <1>2, StateTypes DEF Sound
    <3> QED BY <3>1 DEF Slot, View, MaybeTask
  <2> HIDE DEF r
  <2>2. Does(g, r)
    BY <1>2, <2>1, EnqueueDoes
  <2> QED BY <2>2 DEF r
<1>3. CASE /\ i \in DOMAIN g.s.slots /\ i \notin ActiveIn(g.s) /\ ~AtLimit(g.s)
           /\ r = Send(Reserve(g, i), i, Cmd("resume", None, None))
  <2> DEFINE c == Cmd("resume", None, None)
  <2>1. c \in Command /\ c.kind \in Starting
    BY CommandTypes DEF CommandKinds, Starting, MaybeTask
  <2>2. r = Send(Reserve(g, i), i, c)
    BY <1>3
  <2> HIDE DEF r, c
  <2>3. Does(g, r)
    BY <1>3, <2>1, <2>2, CommitDoes
  <2> QED BY <2>3 DEF r
<1>4. \/ r = g
      \/ /\ i \in DOMAIN g.s.slots /\ i \notin ActiveIn(g.s) /\ AtLimit(g.s)
         /\ r = Enqueue(g, g.s.slots[i].snap.task, None, i, TRUE)
      \/ /\ i \in DOMAIN g.s.slots /\ i \notin ActiveIn(g.s) /\ ~AtLimit(g.s)
         /\ r = Send(Reserve(g, i), i, Cmd("resume", None, None))
  BY DEF StartOrQueueSelected
<1> QED
  BY <1>1, <1>2, <1>3, <1>4

\* Pause and ClearQueuedMessage, and the first half of Stop.
LEMMA ForwardKeeps ==
  ASSUME NEW g, Sound(g), NEW kind \in {"pause", "withdraw", "stop"}
  PROVE  LET r == Forward(g, kind)
         IN Sound(r) /\ (kind # "stop" => Does(g, r)) /\ r.s = g.s
<1> DEFINE i == g.s.selected
           c == Cmd(kind, None, None)
           r == Forward(g, kind)
<1>1. CASE i \notin DOMAIN g.s.slots
  <2>1. r = g
    BY <1>1 DEF Forward
  <2> QED BY <2>1, SparesSelf, SparesDoes
<1>2. CASE i \in DOMAIN g.s.slots
  <2>1. r = Send(g, i, c)
    BY <1>2 DEF Forward
  <2>2. c \in Command /\ c.kind = kind /\ i \in Sessions /\ g \in States
    <3>1. c \in Command /\ c.kind = kind
      BY CommandTypes DEF CommandKinds, MaybeTask
    <3> QED BY <3>1, StateTypes DEF Sound
  <2> HIDE DEF r, c
  <2>3. /\ Sound(r) /\ r.s = g.s /\ Harmless(g, r)
        /\ kind # "stop" => (Tied(g) => Tied(r))
    <3>1. c.kind \notin Starting /\ c.kind # "shutdown"
      BY <2>2 DEF Starting
    <3>2. kind # "stop" => c.kind \notin Starting \cup {"queue", "stop"}
      BY <2>2 DEF Starting
    <3> QED BY <2>1, <2>2, <3>1, <3>2, SendKeeps, SendEffect
  <2> QED BY <2>3 DEF r, Does, Outcome
<1> QED
  BY <1>1, <1>2

\* Stop.
LEMMA StopKeeps == ASSUME NEW g, Sound(g) PROVE Sound(Stop(g))
<1> DEFINE i == g.s.selected
           h == Forward(g, "stop")
           slot == [h.s.slots[i] EXCEPT !.assigned = FALSE, !.base = NoBase]
           m == [h.s.slots EXCEPT ![i] = slot]
           r == [h EXCEPT !.s.slots[i].assigned = FALSE, !.s.slots[i].base = NoBase]
<1>1. CASE i \notin DOMAIN g.s.slots
  BY <1>1 DEF Stop
<1>2. CASE i \in DOMAIN g.s.slots
  <2>1. Sound(h) /\ h.s = g.s
    BY ForwardKeeps
  <2> HIDE DEF h
  <2>2. /\ h \in States /\ i \in DOMAIN h.s.slots /\ h.s \in Scheds
        /\ h.s.slots \in SlotMaps /\ DOMAIN h.s.slots \in SUBSET Sessions
        /\ \A j \in DOMAIN h.s.slots : h.s.slots[j] \in Slot
    BY <1>2, <2>1, StateTypes DEF Sound
  <2>3. slot \in Slot
    BY <2>2 DEF Slot
  <2>4. m \in SlotMaps /\ DOMAIN m = DOMAIN h.s.slots
    <3>1. m \in [DOMAIN h.s.slots -> Slot]
      BY <2>2, <2>3, SlotMap
    <3> QED BY <2>2, <3>1, SlotMap
  <2>5. r = [h EXCEPT !.s = [h.s EXCEPT !.slots = m]]
    BY <2>2 DEF States, Scheds
  <2> HIDE DEF m, slot
  <2> HIDE DEF r
  <2>6. /\ r \in States /\ r.l = h.l /\ r.s.slots = m /\ r.s.pending = h.s.pending
        /\ r.s.nextPending = h.s.nextPending /\ r.s.nextSession = h.s.nextSession
    BY <2>2, <2>4, <2>5 DEF States, Scheds
  <2>7. Sound(r)
    BY <2>1, <2>4, <2>6 DEF Sound, Numbered, Housed, Away
  <2>8. Stop(g) = r
    BY <1>2 DEF Stop, r, h
  <2> QED BY <2>7, <2>8
<1> QED
  BY <1>1, <1>2

\* A command that starts nothing goes to every conversation of the list.
SentToAll(g, C) ==
  [i \in Sessions |-> IF i \in DOMAIN g.s.slots THEN Sent(g.l[i], C[i]) ELSE g.l[i]]

LEMMA SentToAllKeeps ==
  ASSUME NEW g \in States, NEW C \in [Sessions -> Command],
         \A i \in Sessions : C[i].kind \notin Starting \cup {"queue", "stop"}
  PROVE  LET L == SentToAll(g, C)
         IN /\ L \in [Sessions -> Lane]
            /\ \A i \in Sessions :
                 /\ L[i].up = g.l[i].up
                 /\ C[i].kind # "shutdown" /\ ~Leaving(g.l[i]) => ~Leaving(L[i])
                 /\ Leaving(g.l[i]) \/ Gone(g.l[i]) => Leaving(L[i]) \/ Gone(L[i])
                 /\ AtRest(g.l[i]) => AtRest(L[i])
                 /\ \A slot : Attended(slot, g.l[i]) => Attended(slot, L[i])
                 /\ WillRun(L[i]) => WillRun(g.l[i])
<1>0. g.l \in [Sessions -> Lane] /\ DOMAIN g.s.slots \in SUBSET Sessions
  BY StateTypes
<1> DEFINE L == SentToAll(g, C)
<1>1. \A i \in Sessions : L[i] = g.l[i] \/ L[i] = Sent(g.l[i], C[i])
  BY DEF SentToAll
<1>2. ASSUME NEW i \in Sessions
      PROVE  LET x == Sent(g.l[i], C[i]) IN
             /\ x \in Lane /\ x.up = g.l[i].up
             /\ C[i].kind # "shutdown" /\ ~Leaving(g.l[i]) => ~Leaving(x)
             /\ Leaving(g.l[i]) \/ Gone(g.l[i]) => Leaving(x) \/ Gone(x)
             /\ AtRest(g.l[i]) => AtRest(x)
             /\ \A slot : Attended(slot, g.l[i]) => Attended(slot, x)
             /\ WillRun(x) => WillRun(g.l[i])
  <2>1. g.l[i] \in Lane /\ C[i] \in Command /\ C[i].kind \notin Starting \cup {"queue", "stop"}
    BY <1>0
  <2>2. C[i].kind \notin Starting
    BY <2>1
  <2> QED BY <2>1, <2>2, SentFacts, SentMeans, SentAtRest
<1>3. L \in [Sessions -> Lane]
  <2>1. \A i \in Sessions : L[i] \in Lane
    BY <1>0, <1>1, <1>2
  <2>2. L = [i \in Sessions |-> L[i]]
    BY DEF SentToAll
  <2> HIDE DEF L
  <2> QED BY <2>1, <2>2
<1> HIDE DEF L
<1> QED
  <2>1. ASSUME NEW i \in Sessions
        PROVE  /\ L[i].up = g.l[i].up
               /\ C[i].kind # "shutdown" /\ ~Leaving(g.l[i]) => ~Leaving(L[i])
               /\ Leaving(g.l[i]) \/ Gone(g.l[i]) => Leaving(L[i]) \/ Gone(L[i])
               /\ AtRest(g.l[i]) => AtRest(L[i])
               /\ \A slot : Attended(slot, g.l[i]) => Attended(slot, L[i])
               /\ WillRun(L[i]) => WillRun(g.l[i])
    <3>1. CASE L[i] = g.l[i]
      BY <3>1
    <3>2. CASE L[i] = Sent(g.l[i], C[i])
      BY <1>2, <3>2
    <3> QED BY <1>1, <3>1, <3>2
  <2> QED BY <1>3, <2>1 DEF L

\* Configure.
LEMMA ConfigureDoes ==
  ASSUME NEW g, Sound(g), NEW limit \in Limits
  PROVE  Does(g, Configure(g, limit))
<1> DEFINE C == [i \in Sessions |-> IF i \in DOMAIN g.s.slots
                                    THEN Cmd("configure", g.s.slots[i].snap.task, None)
                                    ELSE Nothing]
           L == SentToAll(g, C)
           r == Configure(g, limit)
<1>0. /\ g \in States /\ g.l \in [Sessions -> Lane] /\ DOMAIN g.s.slots \in SUBSET Sessions
      /\ \A i \in DOMAIN g.s.slots : g.s.slots[i] \in Slot
      /\ g.s \in Scheds
  BY StateTypes DEF Sound
<1>1. /\ C \in [Sessions -> Command]
      /\ \A i \in Sessions : /\ C[i].kind \notin Starting \cup {"queue", "stop"}
                             /\ C[i].kind # "shutdown"
  <2>1. \A i \in DOMAIN g.s.slots : g.s.slots[i].snap.task \in MaybeTask
    BY <1>0 DEF Slot, View
  <2>2. \A i \in Sessions : C[i] \in Command /\ C[i].kind = "configure"
    BY <2>1 DEF Cmd, Nothing, Command, CommandKinds, MaybeTask
  <2>3. "configure" \notin Starting \cup {"queue", "stop"}
    BY DEF Starting
  <2>4. C = [i \in Sessions |-> C[i]]
    OBVIOUS
  <2> HIDE DEF C
  <2> QED BY <2>2, <2>3, <2>4
<1>2. r = [g EXCEPT !.s = [g.s EXCEPT !.limit = limit], !.l = L]
  <2>1. r = [g EXCEPT !.s.limit = limit, !.l = L]
    BY <1>0, Zenon DEF Configure, SentToAll
  <2> HIDE DEF L, r
  <2> QED BY <1>0, <2>1 DEF States, Scheds
<1> HIDE DEF C
<1>c. \A i \in Sessions : C[i].kind \notin Starting \cup {"queue", "stop"}
  BY <1>1
<1>3. L \in [Sessions -> Lane]
  BY <1>0, <1>1, <1>c, SentToAllKeeps
<1>4. \A i \in Sessions :
         /\ L[i].up = g.l[i].up
         /\ ~Leaving(g.l[i]) => ~Leaving(L[i])
         /\ Leaving(g.l[i]) \/ Gone(g.l[i]) => Leaving(L[i]) \/ Gone(L[i])
         /\ AtRest(g.l[i]) => AtRest(L[i])
         /\ \A slot : Attended(slot, g.l[i]) => Attended(slot, L[i])
         /\ WillRun(L[i]) => WillRun(g.l[i])
  BY <1>0, <1>1, <1>c, SentToAllKeeps
<1> HIDE DEF L, r
<1>5. /\ r \in States /\ r.l = L /\ r.s.slots = g.s.slots
      /\ r.s.pending = g.s.pending
      /\ r.s.nextPending = g.s.nextPending /\ r.s.nextSession = g.s.nextSession
  BY <1>0, <1>2, <1>3 DEF States, Scheds
<1>6. Sound(r)
  BY <1>0, <1>4, <1>5 DEF Sound, Numbered, Housed, Away
<1>7. Tied(g) => Tied(r)
  BY <1>4, <1>5 DEF Tied
<1>8. Limited(g, r)
  BY <1>4, <1>5 DEF Limited, Calm, ActiveIn
<1> QED
  BY <1>6, <1>7, <1>8 DEF Does, Outcome, r

\* Shutdown: the list is kept until the workers have ended, but ids are given
\* anew.
LEMMA ShutdownKeeps ==
  ASSUME NEW g, Sound(g)
  PROVE  LET r == Shutdown(g)
         IN /\ r \in States /\ Numbered(r.s) /\ Away(r) /\ (Tied(g) => Tied(r))
            /\ Harmless(g, r)
<1> DEFINE C == [i \in Sessions |-> Cmd("shutdown", None, None)]
           L == SentToAll(g, C)
           r == Shutdown(g)
           s == [g.s EXCEPT !.pending = << >>, !.selected = 1, !.nextSession = 2]
<1>0. /\ g \in States /\ g.l \in [Sessions -> Lane] /\ DOMAIN g.s.slots \in SUBSET Sessions
      /\ g.s \in Scheds
  BY StateTypes DEF Sound
<1>1. /\ C \in [Sessions -> Command]
      /\ \A i \in Sessions : C[i].kind \notin Starting \cup {"queue", "stop"}
  BY DEF Cmd, Command, CommandKinds, MaybeTask, Starting
<1>2. r = [g EXCEPT !.s = s, !.l = L]
  <2>1. r = [g EXCEPT !.s.pending = << >>, !.s.selected = 1, !.s.nextSession = 2, !.l = L]
    BY <1>0 DEF Shutdown, SentToAll
  <2> HIDE DEF L, r
  <2> QED BY <1>0, <2>1 DEF States, Scheds
<1> HIDE DEF C
<1>3. L \in [Sessions -> Lane]
  BY <1>0, <1>1, SentToAllKeeps
<1>4. \A i \in Sessions :
         /\ L[i].up = g.l[i].up
         /\ Leaving(g.l[i]) \/ Gone(g.l[i]) => Leaving(L[i]) \/ Gone(L[i])
         /\ AtRest(g.l[i]) => AtRest(L[i])
         /\ \A slot : Attended(slot, g.l[i]) => Attended(slot, L[i])
         /\ WillRun(L[i]) => WillRun(g.l[i])
  BY <1>0, <1>1, SentToAllKeeps
<1>5. /\ s \in Scheds /\ s.slots = g.s.slots /\ s.pending = << >> /\ s.limit = g.s.limit
  <2>1. 1 \in Sessions /\ 2 \in Nat /\ << >> \in Seq(Pending)
    BY SchedulerAssumption DEF Sessions
  <2> QED BY <1>0, <2>1 DEF Scheds
<1> HIDE DEF L, r, s
<1>6. /\ r \in States /\ r.l = L /\ r.s = s
  BY <1>0, <1>2, <1>3, <1>5 DEF States
<1>7. DOMAIN r.s.pending = {}
  BY <1>5, <1>6
<1>8. Numbered(r.s)
  BY <1>7 DEF Numbered
<1>9. Away(r) /\ (Tied(g) => Tied(r)) /\ Calm(g, r)
  BY <1>4, <1>5, <1>6 DEF Away, Sound, Tied, Calm
<1>10. Harmless(g, r)
  <2>1. Promise!Fewer(<< >>, g.s.pending)
    <3>1. << >> \in [{} -> DOMAIN g.s.pending] /\ DOMAIN << >> = {}
      OBVIOUS
    <3> QED BY <3>1 DEF Promise!Fewer
  <2> QED BY <1>5, <1>6, <1>9, <2>1 DEF Harmless, ActiveIn
<1> QED
  BY <1>6, <1>8, <1>9, <1>10 DEF r

\* What the window may send.
Permits(g, c) ==
  /\ c.kind \in Requests
  /\ c.kind \in {"new", "submit"} => c.arg \in Tasks /\ Fits(g.s)
  /\ c.kind = "limit" => c.arg \in Limits

\* What makes a run of the workers that the scheduler does not see.
Unseen(g, c) == \/ c.kind = "stop"
                \/ c.kind = "submit" /\ g.s.selected \in ActiveIn(g.s)

\* handle_command, but for Shutdown.
LEMMA HandleDoes ==
  ASSUME NEW g, Sound(g), NEW c, Permits(g, c), c.kind \notin {"quit", "typeAhead"}
  PROVE  LET r == HandleCommand(g, c) IN Sound(r) /\ (~Unseen(g, c) => Does(g, r))
<1> DEFINE r == HandleCommand(g, c)
<1>0. g \in States /\ Does(g, g)
  BY SparesSelf, SparesDoes DEF Sound
<1>1. CASE c.kind = "new"
  <2> DEFINE h == StartNewTask(g, c.arg, c.arg)
  <2>1. c.arg \in MaybeTask /\ Fits(g.s)
    BY <1>1 DEF Permits, MaybeTask
  <2>2. Does(g, h)
    BY <2>1, StartNewDoes
  <2>3. r = [h EXCEPT !.s.processed = Larger(@, c.arg)]
    BY <1>1 DEF HandleCommand, StartNewConfigured
  <2> HIDE DEF h, r
  <2>4. h \in States
    BY <2>2 DEF Does, Sound
  <2>5. Aside(h, r)
    BY <2>1, <2>3, <2>4, PlaceAside DEF MaybeTask
  <2>6. Does(g, r)
    BY <2>2, <2>5, AsideDoes
  <2> QED BY <2>6 DEF Does, r
<1>2. CASE c.kind = "submit"
  <2> DEFINE h == StartConfigured(g, c.arg, c.arg)
  <2>1. c.arg \in MaybeTask /\ Fits(g.s)
    BY <1>2 DEF Permits, MaybeTask
  <2>2. Sound(h) /\ (g.s.selected \notin ActiveIn(g.s) => Does(g, h))
    BY <2>1, StartConfiguredDoes
  <2>3. r = [h EXCEPT !.s.processed = Larger(@, c.arg)]
    BY <1>2 DEF HandleCommand, SubmitConfigured
  <2> HIDE DEF h, r
  <2>4. h \in States
    BY <2>2 DEF Sound
  <2>5. Aside(h, r)
    BY <2>1, <2>3, <2>4, PlaceAside DEF MaybeTask
  <2>6. g.s.selected \notin ActiveIn(g.s) => Does(g, r)
    BY <2>2, <2>5, AsideDoes
  <2>7. Sound(r)
    BY <2>2, <2>5, AsideKeeps
  <2> QED BY <1>2, <2>6, <2>7 DEF r, Unseen
<1>3. CASE c.kind = "resume"
  <2>1. Does(g, r)
    BY <1>3, ResumeDoes DEF HandleCommand
  <2> QED BY <2>1 DEF Does
<1>4. CASE c.kind \in {"pause", "withdraw"}
  <2>1. r = Forward(g, c.kind)
    BY <1>4 DEF HandleCommand
  <2>2. Does(g, Forward(g, c.kind))
    BY <1>4, ForwardKeeps
  <2> QED BY <2>1, <2>2 DEF Does
<1>5. CASE c.kind = "stop"
  <2>1. r = Stop(g)
    BY <1>5 DEF HandleCommand
  <2> QED BY <1>5, <2>1, StopKeeps DEF Unseen
<1>6. CASE c.kind = "select"
  <2>1. r = SelectSession(g, c.arg)
    BY <1>6 DEF HandleCommand
  <2>2. CASE c.arg \in DOMAIN g.s.slots
    <3>1. r = [g EXCEPT !.s.selected = c.arg] /\ c.arg \in Sessions
      BY <1>0, <2>1, <2>2, StateTypes DEF SelectSession
    <3>2. Aside(g, r)
      BY <1>0, <3>1, PlaceAside DEF MaybeTask
    <3>3. Does(g, r)
      BY <1>0, <3>2, AsideDoes
    <3> QED BY <3>3 DEF Does
  <2>3. CASE c.arg \notin DOMAIN g.s.slots
    BY <1>0, <2>1, <2>3 DEF SelectSession, Does
  <2> QED BY <2>2, <2>3
<1>7. CASE c.kind = "cancel"
  <2>1. Does(g, CancelPending(g, c.arg))
    BY RetainKeeps, SparesDoes DEF CancelPending, Spares
  <2>2. r = CancelPending(g, c.arg)
    BY <1>7 DEF HandleCommand
  <2> QED BY <2>1, <2>2 DEF Does
<1>8. CASE c.kind = "dismiss"
  <2>1. Does(g, DismissSession(g, c.arg))
    BY DismissKeeps, SparesDoes
  <2>2. r = DismissSession(g, c.arg)
    BY <1>8 DEF HandleCommand
  <2> QED BY <2>1, <2>2 DEF Does
<1>9. CASE c.kind = "clear"
  <2>1. Does(g, ClearFinished(g))
    BY DismissAllKeeps, SparesDoes DEF ClearFinished
  <2>2. r = ClearFinished(g)
    BY <1>9 DEF HandleCommand
  <2> QED BY <2>1, <2>2 DEF Does
<1>10. CASE c.kind = "limit"
  <2>1. Does(g, Configure(g, c.arg))
    BY <1>10, ConfigureDoes DEF Permits
  <2>2. r = Configure(g, c.arg)
    BY <1>10 DEF HandleCommand
  <2> QED BY <2>1, <2>2 DEF Does
<1> QED
  BY <1>1, <1>2, <1>3, <1>4, <1>5, <1>6, <1>7, <1>8, <1>9, <1>10 DEF Permits, Requests

-----------------------------------------------------------------------------
\* The other steps of the scheduler, and those of its workers.

\* A worker that was not told to end goes on.
LEMMA StayingMoves ==
  ASSUME NEW l \in Lane, NEW x \in Moves(l)
  PROVE  /\ l.up /\ ~Leaving(l) => x.up /\ ~Leaving(x)
         /\ ~l.up => ~x.up
<1>1. CASE /\ l.up /\ l.doing = Nothing /\ l.inbox # << >>
           /\ x \in Handled([l EXCEPT !.inbox = Tail(@)], Head(l.inbox))
  <2> SUFFICES ASSUME ~Leaving(l) PROVE x.up /\ ~Leaving(x)
    BY <1>1
  <2> DEFINE m == [l EXCEPT !.inbox = Tail(@)]
             c == Head(l.inbox)
  <2>1. /\ m \in Lane /\ c \in Command /\ c = l.inbox[1] /\ m.up = l.up /\ 1 \in DOMAIN l.inbox
        /\ \A k \in DOMAIN m.inbox : k + 1 \in DOMAIN l.inbox /\ m.inbox[k] = l.inbox[k + 1]
    BY <1>1, TakenInbox
  <2>2. x \in Handled(m, c)
    BY <1>1
  <2> HIDE DEF m, c
  <2>3. x.inbox = m.inbox
    BY <2>1, <2>2, HandledTypes
  <2>4. \A k \in DOMAIN l.inbox : l.inbox[k].kind # "shutdown"
    BY <1>1 DEF Leaving
  <2>5. c.kind # "shutdown"
    BY <2>1, <2>4
  <2>6. \E doing, phase, done : Shows(x, doing, phase, done, m.up)
    <3>1. CASE c.kind \in Starting
      <4>1. \/ Shows(x, c, "Running", m.view.done, m.up)
            \/ \E phase : Shows(x, m.doing, phase, m.view.done + 1, m.up)
        BY <2>1, <2>2, <3>1, HandledShows
      <4> QED BY <4>1
    <3>2. CASE c.kind \notin Starting
      BY <2>1, <2>2, <2>5, <3>2, HandledShows DEF Command, CommandKinds, Starting
    <3> QED BY <3>1, <3>2
  <2>7. x.up
    BY <1>1, <2>1, <2>6 DEF Shows
  <2>8. ~Leaving(x)
    BY <2>1, <2>3, <2>4 DEF Leaving
  <2> QED BY <2>7, <2>8
<1>2. CASE x.inbox = l.inbox /\ x.up = l.up
  BY <1>2 DEF Leaving
<1> QED
  BY <1>1, <1>2, MovesShows DEF Shows

LEMMA MovesKeep ==
  ASSUME NEW g \in States, NEW i \in Sessions, NEW x \in Moves(g.l[i])
  PROVE  LET r == [s |-> g.s, l |-> [g.l EXCEPT ![i] = x]]
         IN /\ r \in States /\ Calm(g, r)
            /\ Away(g) => Away(r)
            /\ Housed(g) => Housed(r)
            /\ Tied(g) => Tied(r)
<1> DEFINE L == [g.l EXCEPT ![i] = x]
           r == [s |-> g.s, l |-> L]
<1>0. /\ g.l \in [Sessions -> Lane] /\ g.l[i] \in Lane /\ g.s \in Scheds
      /\ \A j \in DOMAIN g.s.slots : g.s.slots[j] \in Slot
  BY StateTypes
<1>1. x \in Lane
  BY <1>0, MovesTypes
<1>2. L \in [Sessions -> Lane] /\ L[i] = x /\ \A j \in Sessions : j # i => L[j] = g.l[j]
  BY <1>0, <1>1
<1> HIDE DEF L
<1>3. r \in States /\ r.s = g.s /\ r.l = L
  BY <1>0, <1>2 DEF States
<1> HIDE DEF r
<1>4. Calm(g, r)
  BY <1>0, <1>2, <1>3, WillRunMoves DEF Calm
<1>5. Away(g) => Away(r)
  <2>1. Leaving(g.l[i]) \/ Gone(g.l[i]) => Leaving(x) \/ Gone(x)
    BY <1>0, LeavingMoves
  <2> QED BY <1>2, <1>3, <2>1 DEF Away
<1>6. Housed(g) => Housed(r)
  <2>1. /\ g.l[i].up /\ ~Leaving(g.l[i]) => x.up /\ ~Leaving(x)
        /\ ~g.l[i].up => ~x.up
    BY <1>0, StayingMoves
  <2>2. DOMAIN g.s.slots \in SUBSET Sessions
    BY StateTypes
  <2> QED BY <1>2, <1>3, <2>1, <2>2 DEF Housed
<1>7. Tied(g) => Tied(r)
  <2>1. \A slot \in Slot : Attended(slot, g.l[i]) => Attended(slot, x)
    BY <1>0, AttendedMoves
  <2>2. AtRest(g.l[i]) => AtRest(x)
    BY <1>0, AtRestMoves
  <2> QED BY <1>0, <1>2, <1>3, <2>1, <2>2 DEF Tied
<1> QED
  BY <1>3, <1>4, <1>5, <1>6, <1>7 DEF r, L

\* refresh_workers, one slot: only a slot whose worker has dealt with the start
\* and does not run is given up.
LEMMA RefreshSlotKeeps ==
  ASSUME NEW slot \in Slot, NEW l \in Lane
  PROVE  LET r == RefreshSlot(slot, l.view)
         IN /\ r \in Slot
            /\ Attended(slot, l) => Attended(r, l) /\ (Active(r) => Active(slot))
<1> DEFINE b == IF slot.base # NoBase /\ l.view.done > slot.base THEN NoBase ELSE slot.base
           seen == [slot EXCEPT !.snap = l.view, !.base = b]
           r == RefreshSlot(slot, l.view)
<1>0. /\ l.view \in View /\ l.view.done \in Nat /\ slot.base \in Nat \cup {NoBase}
      /\ b \in Nat \cup {NoBase} /\ slot.assigned \in BOOLEAN
  BY DEF Lane, View, Slot
<1>1. r = [seen EXCEPT !.assigned = @ /\ ~Released(seen)]
  BY DEF RefreshSlot
<1>b. b = IF slot.base # NoBase /\ l.view.done > slot.base THEN NoBase ELSE slot.base
  OBVIOUS
<1> HIDE DEF b, r
<1>2. /\ seen \in Slot /\ seen.snap = l.view /\ seen.base = b
      /\ seen.assigned = slot.assigned
  BY <1>0 DEF Slot
<1> HIDE DEF seen
<1>3. /\ r \in Slot /\ r.snap = l.view /\ r.base = b
      /\ r.assigned <=> slot.assigned /\ ~Released(seen)
  <2> DEFINE a == seen.assigned /\ ~Released(seen)
  <2>1. a \in BOOLEAN
    OBVIOUS
  <2>2. r = [seen EXCEPT !.assigned = a]
    BY <1>1
  <2>3. a <=> slot.assigned /\ ~Released(seen)
    BY <1>2
  <2> HIDE DEF a
  <2>4. r \in Slot /\ r.snap = seen.snap /\ r.base = seen.base /\ r.assigned = a
    BY <1>2, <2>1, <2>2 DEF Slot
  <2> QED BY <1>2, <2>3, <2>4
<1>4. Released(seen) => /\ b = NoBase
                        /\ l.view.phase \in {"Success", "Paused", "FatalError"}
  BY <1>2 DEF Released
<1>5. ASSUME Attended(slot, l)
      PROVE  Attended(r, l) /\ (Active(r) => Active(slot))
  <2>1. Calls(l) /\ (Running(l.view) => slot.assigned)
    BY <1>5 DEF Attended
  <2>2. Running(l.view) => ~Released(seen)
    BY <1>4 DEF Running
  <2>3. Running(l.view) \/ Running(r.snap) => r.assigned
    BY <1>3, <2>1, <2>2
  <2>4. r.base = NoBase => Quiet(l) /\ l.view.done = r.snap.done
    <3>1. CASE slot.base = NoBase
      BY <1>3, <1>5, <3>1 DEF Attended
    <3>2. CASE slot.base # NoBase /\ l.view.done > slot.base
      <4>1. l.view.done # slot.base
        BY <1>0, <3>2
      <4> QED BY <1>3, <1>5, <3>2, <4>1 DEF Attended
    <3> QED BY <1>b, <1>3, <3>1, <3>2
  <2>5. ASSUME r.base # NoBase
        PROVE  /\ r.assigned
               /\ \/ l.view.done = r.base /\ Outstanding(l)
                  \/ l.view.done = r.base + 1 /\ Quiet(l)
    <3>1. slot.base # NoBase /\ b = slot.base /\ ~(l.view.done > slot.base)
      BY <1>b, <1>3, <2>5
    <3>2. slot.base \in Nat /\ slot.assigned
      BY <1>0, <1>5, <3>1 DEF Attended
    <3>3. l.view.done = slot.base /\ Outstanding(l)
      <4>1. l.view.done # slot.base + 1
        BY <1>0, <3>1, <3>2
      <4> QED BY <1>5, <3>1, <4>1 DEF Attended
    <3>4. r.assigned
      BY <1>3, <1>4, <2>5, <3>2
    <3> QED BY <1>3, <3>1, <3>3, <3>4
  <2>6. Attended(r, l)
    BY <2>1, <2>3, <2>4, <2>5 DEF Attended
  <2>7. Active(r) => Active(slot)
    BY <1>3, <2>3 DEF Active
  <2> QED BY <2>6, <2>7
<1> QED
  BY <1>3, <1>5 DEF r

LEMMA RefreshKeeps ==
  ASSUME NEW g, Sound(g)
  PROVE  LET r == [s |-> [g.s EXCEPT !.slots = [i \in DOMAIN @ |->
                                                  RefreshSlot(@[i], g.l[i].view)]],
                   l |-> g.l]
         IN /\ Sound(r) /\ Calm(g, r)
            /\ Tied(g) => Tied(r) /\ ActiveIn(r.s) \subseteq ActiveIn(g.s)
            /\ r.s.limit = g.s.limit /\ r.s.pending = g.s.pending
<1> DEFINE m == [i \in DOMAIN g.s.slots |-> RefreshSlot(g.s.slots[i], g.l[i].view)]
           s == [g.s EXCEPT !.slots = m]
           r == [s |-> s, l |-> g.l]
<1>0. /\ g \in States /\ g.l \in [Sessions -> Lane] /\ g.s \in Scheds
      /\ DOMAIN g.s.slots \in SUBSET Sessions
      /\ \A j \in DOMAIN g.s.slots : g.s.slots[j] \in Slot
  BY StateTypes DEF Sound
<1>1. \A i \in DOMAIN g.s.slots :
        /\ m[i] \in Slot
        /\ Attended(g.s.slots[i], g.l[i]) =>
             Attended(m[i], g.l[i]) /\ (Active(m[i]) => Active(g.s.slots[i]))
  BY <1>0, RefreshSlotKeeps
<1>2. m \in SlotMaps /\ DOMAIN m = DOMAIN g.s.slots
  <2>1. m = [i \in DOMAIN g.s.slots |-> m[i]] /\ DOMAIN m = DOMAIN g.s.slots
    OBVIOUS
  <2> HIDE DEF m
  <2>2. m \in [DOMAIN g.s.slots -> Slot]
    BY <1>1, <2>1
  <2> QED BY <1>0, <2>1, <2>2, SlotMap
<1>3. [s |-> [g.s EXCEPT !.slots = [i \in DOMAIN @ |-> RefreshSlot(@[i], g.l[i].view)]],
       l |-> g.l] = r
  OBVIOUS
<1> HIDE DEF m
<1>4. /\ s \in Scheds /\ s.slots = m /\ s.pending = g.s.pending /\ s.limit = g.s.limit
      /\ s.nextPending = g.s.nextPending /\ s.nextSession = g.s.nextSession
  BY <1>0, <1>2 DEF Scheds
<1> HIDE DEF s
<1>5. r \in States /\ r.s = s /\ r.l = g.l
  BY <1>0, <1>4 DEF States
<1> HIDE DEF r
<1>6. Sound(r) /\ Calm(g, r)
  BY <1>2, <1>4, <1>5 DEF Sound, Numbered, Housed, Away, Calm
<1>7. ASSUME Tied(g) PROVE Tied(r) /\ ActiveIn(r.s) \subseteq ActiveIn(g.s)
  <2>1. \A i \in DOMAIN g.s.slots : Attended(g.s.slots[i], g.l[i])
    BY <1>0, <1>7 DEF Tied
  <2> QED BY <1>1, <1>2, <1>4, <1>5, <1>7, <2>1 DEF Tied, ActiveIn
<1> QED
  BY <1>3, <1>4, <1>5, <1>6, <1>7

-----------------------------------------------------------------------------
\* The head of the queue.

LEMMA WaitingHead ==
  ASSUME NEW q \in Seq(Pending), q # << >>
  PROVE  /\ Queued(q) # << >> /\ Head(Queued(q)) = Entry(Head(q))
         /\ Queued(Tail(q)) = Tail(Queued(q))
         /\ Head(q) \in Pending /\ Tail(q) \in Seq(Pending)
         /\ Promise!Fewer(Tail(q), q)
         /\ \A d \in Pending :
              /\ [q EXCEPT ![1] = d] \in Seq(Pending)
              /\ Queued([q EXCEPT ![1] = d]) = <<Entry(d)>> \o Tail(Queued(q))
<1> DEFINE n == Len(q)
           w == Queued(q)
           S == {Entry(e) : e \in Pending}
<1>0. /\ n \in Nat /\ n >= 1 /\ q \in [1..n -> Pending] /\ DOMAIN q = 1..n
  OBVIOUS
<1>1. /\ w = [k \in 1..n |-> Entry(q[k])]
  BY <1>0 DEF Queued
<1>2. /\ w \in Seq(S) /\ Len(w) = n /\ \A k \in 1..n : w[k] = Entry(q[k])
  <2>1. \A k \in 1..n : Entry(q[k]) \in S
    BY <1>0
  <2> HIDE DEF S, n, w
  <2> QED BY <1>0, <1>1, <2>1
<1> HIDE DEF S, n, w
<1>3. w # << >> /\ Head(w) = Entry(Head(q))
  BY <1>0, <1>2 DEF n
<1>4. /\ Tail(q) \in Seq(Pending) /\ Len(Tail(q)) = n - 1 /\ DOMAIN Tail(q) = 1..n - 1
      /\ \A k \in 1..n - 1 : k + 1 \in 1..n /\ Tail(q)[k] = q[k + 1]
      /\ Head(q) \in Pending
  BY <1>0 DEF n
<1>5. Queued(Tail(q)) = Tail(w)
  <2>1. /\ Tail(w) \in Seq(S) /\ Len(Tail(w)) = n - 1
        /\ \A k \in 1..n - 1 : Tail(w)[k] = w[k + 1]
    BY <1>0, <1>2, <1>3
  <2>2. Tail(w) = [k \in 1..n - 1 |-> Tail(w)[k]]
    <3> DEFINE t == Tail(w)
    <3>1. t \in Seq(S) /\ Len(t) = n - 1
      BY <2>1
    <3> HIDE DEF t
    <3>2. t = [k \in 1..n - 1 |-> t[k]]
      BY <3>1
    <3> QED BY <3>2 DEF t
  <2>3. Queued(Tail(q)) = [k \in 1..n - 1 |-> Entry(Tail(q)[k])]
    BY <1>4 DEF Queued
  <2>4. \A k \in 1..n - 1 : Tail(w)[k] = Entry(Tail(q)[k])
    BY <1>2, <1>4, <2>1
  <2> QED BY <2>2, <2>3, <2>4
<1>6. Promise!Fewer(Tail(q), q)
  <2> DEFINE f == [k \in 1..n - 1 |-> k + 1]
  <2>1. f \in [DOMAIN Tail(q) -> DOMAIN q]
    BY <1>0, <1>4
  <2>2. \A j, k \in DOMAIN Tail(q) : j < k => f[j] < f[k]
    BY <1>0, <1>4
  <2>3. \A k \in DOMAIN Tail(q) : Tail(q)[k] = q[f[k]]
    BY <1>4
  <2> HIDE DEF f
  <2> QED BY <2>1, <2>2, <2>3 DEF Promise!Fewer
<1>7. ASSUME NEW d \in Pending
      PROVE  /\ [q EXCEPT ![1] = d] \in Seq(Pending)
             /\ Queued([q EXCEPT ![1] = d]) = <<Entry(d)>> \o Tail(w)
  <2> DEFINE p == [q EXCEPT ![1] = d]
  <2>1. /\ p \in Seq(Pending) /\ DOMAIN p = 1..n /\ p[1] = d
        /\ \A k \in 1..n : k # 1 => p[k] = q[k]
    BY <1>0
  <2>2. Queued(p) = [k \in 1..n |-> Entry(p[k])]
    BY <2>1 DEF Queued
  <2> HIDE DEF p
  <2> DEFINE v == <<Entry(d)>> \o Tail(w)
  <2>3. /\ Tail(w) \in Seq(S) /\ Len(Tail(w)) = n - 1
        /\ \A k \in 1..n - 1 : Tail(w)[k] = w[k + 1]
    BY <1>0, <1>2, <1>3
  <2>4. /\ v = [k \in 1..n |-> v[k]] /\ v[1] = Entry(d)
        /\ \A k \in 1..n : k # 1 => v[k] = Tail(w)[k - 1]
    <3>1. <<Entry(d)>> \in Seq(S) /\ Len(<<Entry(d)>>) = 1 /\ <<Entry(d)>>[1] = Entry(d)
      BY DEF S
    <3>2. v \in Seq(S) /\ Len(v) = n
      BY <1>0, <2>3, <3>1
    <3>3. v = [k \in 1..n |-> v[k]]
      <4> HIDE DEF v
      <4> QED BY <3>2
    <3>4. v[1] = Entry(d) /\ \A k \in 1..n : k # 1 => v[k] = Tail(w)[k - 1]
      BY <1>0, <2>3, <3>1
    <3> QED BY <3>3, <3>4
  <2> HIDE DEF v
  <2>5. \A k \in 1..n : v[k] = Entry(p[k])
    <3> SUFFICES ASSUME NEW k \in 1..n PROVE v[k] = Entry(p[k])
      OBVIOUS
    <3>1. CASE k = 1
      BY <2>1, <2>4, <3>1
    <3>2. CASE k # 1
      <4>1. k - 1 \in 1..n - 1 /\ (k - 1) + 1 = k
        BY <1>0, <3>2
      <4> QED BY <1>2, <2>1, <2>3, <2>4, <3>2, <4>1
    <3> QED BY <3>1, <3>2
  <2> QED BY <2>1, <2>2, <2>4, <2>5 DEF p, v
<1> QED
  BY <1>3, <1>4, <1>5, <1>6, <1>7 DEF w

LEMMA WaitingAppend ==
  ASSUME NEW q \in Seq(Pending), NEW e \in Pending
  PROVE  Queued(Append(q, e)) = Append(Queued(q), Entry(e))
<1> DEFINE n == Len(q)
           w == Queued(q)
           S == {Entry(d) : d \in Pending}
           p == Append(q, e)
           v == Append(w, Entry(e))
<1>0. n \in Nat /\ q \in [1..n -> Pending] /\ DOMAIN q = 1..n
  OBVIOUS
<1>1. /\ w = [k \in 1..n |-> Entry(q[k])]
  BY <1>0 DEF Queued
<1>2. /\ w \in Seq(S) /\ Len(w) = n /\ \A k \in 1..n : w[k] = Entry(q[k])
  <2>1. \A k \in 1..n : Entry(q[k]) \in S
    BY <1>0
  <2> HIDE DEF S, n, w
  <2> QED BY <1>0, <1>1, <2>1
<1>3. /\ DOMAIN p = 1..n + 1 /\ p[n + 1] = e /\ \A k \in 1..n : p[k] = q[k]
  BY <1>0
<1>4. Entry(e) \in S
  OBVIOUS
<1> HIDE DEF S, n, w, p
<1>5. /\ v \in Seq(S) /\ Len(v) = n + 1 /\ v[n + 1] = Entry(e)
      /\ \A k \in 1..n : v[k] = w[k]
  BY <1>0, <1>2, <1>4
<1> HIDE DEF v
<1>6. v = [k \in 1..n + 1 |-> v[k]]
  BY <1>0, <1>5
<1>7. Queued(p) = [k \in 1..n + 1 |-> Entry(p[k])]
  BY <1>3 DEF Queued
<1>8. \A k \in 1..n + 1 : v[k] = Entry(p[k])
  <2>1. \A k \in 1..n + 1 : k \in 1..n \/ k = n + 1
    BY <1>0
  <2> QED BY <1>2, <1>3, <1>5, <2>1
<1>9. Queued(p) = v
  BY <1>6, <1>7, <1>8
<1> QED
  BY <1>9 DEF p, v, w

\* Popped, for any g.
LEMMA PoppedKeeps ==
  ASSUME NEW g, Sound(g), g.s.pending # << >>
  PROVE  LET r == [s |-> [g.s EXCEPT !.pending = Tail(@)], l |-> g.l]
         IN /\ Sound(r) /\ (Tied(g) => Tied(r))
            /\ r.s.pending = Tail(g.s.pending) /\ r.s.slots = g.s.slots
            /\ r.s.limit = g.s.limit /\ r.s.nextSession = g.s.nextSession
            /\ ActiveIn(r.s) = ActiveIn(g.s)
<1> DEFINE q == Tail(g.s.pending)
           s == [g.s EXCEPT !.pending = Tail(@)]
           r == [s |-> s, l |-> g.l]
<1>0. g \in States /\ g.s \in Scheds /\ g.s.pending \in Seq(Pending)
      /\ g.l \in [Sessions -> Lane]
  BY StateTypes DEF Sound
<1>1. q \in Seq(Pending) /\ Promise!Fewer(q, g.s.pending)
  BY <1>0, WaitingHead
<1> HIDE DEF q
<1>2. /\ s \in Scheds /\ s.pending = q /\ s.slots = g.s.slots /\ s.limit = g.s.limit
      /\ s.nextPending = g.s.nextPending /\ s.nextSession = g.s.nextSession
  <2>1. s = [g.s EXCEPT !.pending = q]
    BY <1>0 DEF q, Scheds
  <2> HIDE DEF s
  <2> QED BY <1>0, <1>1, <2>1 DEF Scheds
<1> HIDE DEF s
<1>3. r \in States /\ r.s = s /\ r.l = g.l
  BY <1>0, <1>2 DEF States
<1> HIDE DEF r
<1>4. Numbered(r.s)
  <2> DEFINE w == g.s.pending
  <2>1. /\ \A j, k \in DOMAIN w : w[j].id = w[k].id => j = k
        /\ \A k \in DOMAIN w : w[k].id < g.s.nextPending
    BY DEF Numbered, Sound
  <2>2. w \in Seq(Pending) /\ Promise!Fewer(q, w)
    BY <1>0, <1>1
  <2> HIDE DEF w
  <2>3. /\ \A j, k \in DOMAIN q : q[j].id = q[k].id => j = k
        /\ \A k \in DOMAIN q : q[k].id < g.s.nextPending
    BY <1>1, <2>1, <2>2, NumberedFewer
  <2> QED BY <1>2, <1>3, <2>3 DEF Numbered
<1>5. Sound(r) /\ (Tied(g) => Tied(r)) /\ ActiveIn(r.s) = ActiveIn(g.s)
  BY <1>2, <1>3, <1>4 DEF Sound, Housed, Away, Tied, ActiveIn
<1> QED
  BY <1>2, <1>3, <1>5 DEF r, s, q

\* The head is bound to nothing any more.
LEMMA DetachKeeps ==
  ASSUME NEW g, Sound(g), g.s.pending # << >>
  PROVE  LET r == [s |-> [g.s EXCEPT !.pending[1] = [@ EXCEPT !.target = None,
                                                              !.resume = FALSE]],
                   l |-> g.l]
         IN /\ Sound(r) /\ (Tied(g) => Tied(r)) /\ Calm(g, r)
            /\ Queued(r.s.pending) =
                 <<[Head(Queued(g.s.pending)) EXCEPT !.target = None, !.resume = FALSE]>>
                   \o Tail(Queued(g.s.pending))
            /\ r.s.limit = g.s.limit /\ ActiveIn(r.s) = ActiveIn(g.s)
<1> DEFINE w == g.s.pending
           d == [w[1] EXCEPT !.target = None, !.resume = FALSE]
           q == [w EXCEPT ![1] = d]
           s == [g.s EXCEPT !.pending = q]
           r == [s |-> s, l |-> g.l]
<1>0. g \in States /\ g.s \in Scheds /\ w \in Seq(Pending)
      /\ g.l \in [Sessions -> Lane]
  BY StateTypes DEF Sound
<1>1. w[1] = Head(w) /\ w[1] \in Pending /\ 1 \in DOMAIN w
  BY <1>0
<1>2. /\ d \in Pending /\ d.id = w[1].id
      /\ Entry(d) = [Entry(w[1]) EXCEPT !.target = None, !.resume = FALSE]
  <2> DEFINE e == w[1]
  <2>0. e \in Pending
    BY <1>1
  <2> HIDE DEF e
  <2> DEFINE x == [e EXCEPT !.target = None, !.resume = FALSE]
  <2>1. /\ x \in Pending
        /\ x.id = e.id /\ x.task = e.task /\ x.target = None /\ x.resume = FALSE
    BY <2>0 DEF Pending
  <2> HIDE DEF x
  <2> DEFINE R == [task : MaybeTask, target : Sessions \cup {None}, resume : BOOLEAN]
             y == Entry(e)
  <2>2. /\ Entry(x) \in R /\ Entry(x).task = e.task /\ Entry(x).target = None
        /\ Entry(x).resume = FALSE /\ y \in R /\ y.task = e.task
    BY <2>0, <2>1 DEF Entry, Pending
  <2> HIDE DEF y
  <2>3. [y EXCEPT !.target = None, !.resume = FALSE] = Entry(x)
    BY <2>2
  <2> QED BY <2>1, <2>3 DEF e, x, y
<1>r. [s |-> [g.s EXCEPT !.pending[1] = [@ EXCEPT !.target = None, !.resume = FALSE]],
       l |-> g.l] = r
  BY <1>0 DEF Scheds
<1> HIDE DEF d
<1>3. /\ q \in Seq(Pending) /\ Queued(q) = <<Entry(d)>> \o Tail(Queued(w))
      /\ Entry(d) = [Head(Queued(w)) EXCEPT !.target = None, !.resume = FALSE]
  BY <1>0, <1>1, <1>2, WaitingHead
<1>4. /\ DOMAIN q = DOMAIN w /\ \A k \in DOMAIN w : q[k].id = w[k].id
  BY <1>1, <1>2
<1> HIDE DEF q
<1>5. /\ s \in Scheds /\ s.pending = q /\ s.slots = g.s.slots /\ s.limit = g.s.limit
      /\ s.nextPending = g.s.nextPending /\ s.nextSession = g.s.nextSession
  BY <1>0, <1>3 DEF Scheds
<1> HIDE DEF s
<1>6. r \in States /\ r.s = s /\ r.l = g.l
  BY <1>0, <1>5 DEF States
<1> HIDE DEF r
<1>7. Numbered(r.s)
  BY <1>4, <1>5, <1>6 DEF Sound, Numbered
<1>8. Sound(r) /\ (Tied(g) => Tied(r)) /\ ActiveIn(r.s) = ActiveIn(g.s) /\ Calm(g, r)
  BY <1>5, <1>6, <1>7 DEF Sound, Housed, Away, Tied, ActiveIn, Calm
<1> QED
  BY <1>3, <1>5, <1>6, <1>8, <1>r

-----------------------------------------------------------------------------
\* A restart.  These are the local definitions of Initialize, for any workers w.

KeptIn(w, i, holding) == RequiresRecovery(w[i], i \in holding)
Ids(w, holding) == {1} \cup {i \in Sessions : KeptIn(w, i, holding)}
Ran(w, i, holding) == KeptIn(w, i, holding) /\ w[i].view.phase = "Running"
Before(w, i, holding) == {j \in Ids(w, holding) : j < i /\ Ran(w, j, holding)}
Over(w, i, holding, limit) ==
  Ran(w, i, holding) /\ i # 1 /\ Cardinality(Before(w, i, holding)) >= limit
LaneAfter(w, i, holding, limit) ==
  IF KeptIn(w, i, holding) THEN Restored(w[i], Over(w, i, holding, limit))
  ELSE [NoLane EXCEPT !.up = TRUE, !.saved = TRUE, !.conf = w[1].conf]
SlotAfter(w, i, holding, limit) ==
  NewSlot(LaneAfter(w, i, holding, limit).view,
          Ran(w, i, holding) /\ ~Over(w, i, holding, limit),
          Cardinality({j \in Ids(w, holding) : j <= i}))

\* A worker that is started again has nothing to do, and runs only as one of
\* those that the limit admits.
LEMMA LaneAfterFacts ==
  ASSUME NEW w \in [Sessions -> Lane], NEW i \in Sessions, NEW holding, NEW limit \in Nat
  PROVE  LET x == LaneAfter(w, i, holding, limit)
             slot == SlotAfter(w, i, holding, limit)
         IN /\ x \in Lane /\ x.up /\ x.inbox = << >> /\ x.doing = Nothing /\ x.view.done = 0
            /\ slot \in Slot /\ slot.snap = x.view /\ slot.base = NoBase
            /\ slot.assigned <=> Ran(w, i, holding) /\ ~Over(w, i, holding, limit)
            /\ Running(x.view) => slot.assigned
<1> DEFINE x == LaneAfter(w, i, holding, limit)
           slot == SlotAfter(w, i, holding, limit)
           n == Cardinality({j \in Ids(w, holding) : j <= i})
           a == Ran(w, i, holding) /\ ~Over(w, i, holding, limit)
<1>0. /\ w[i] \in Lane /\ 1 \in Sessions /\ w[1] \in Lane
      /\ None \in MaybeTask /\ w[1].conf \in MaybeTask
  BY SchedulerAssumption DEF Sessions, MaybeTask, Lane
<1>1. Blank \in View /\ Nothing \in Command /\ << >> \in Seq(Command)
  BY <1>0 DEF Blank, View, Phases, Nothing, Cmd, Command, CommandKinds
<1>2. ASSUME ~KeptIn(w, i, holding)
      PROVE  /\ x \in Lane /\ x.up /\ x.inbox = << >> /\ x.doing = Nothing /\ x.view.done = 0
             /\ Running(x.view) => Ran(w, i, holding) /\ ~Over(w, i, holding, limit)
  <2>1. x = [NoLane EXCEPT !.up = TRUE, !.saved = TRUE, !.conf = w[1].conf]
    BY <1>2 DEF LaneAfter
  <2>2. NoLane \in Lane
    BY <1>0, <1>1 DEF NoLane, Lane
  <2> HIDE DEF x
  <2>3. /\ x \in Lane /\ x.up /\ x.inbox = << >> /\ x.doing = Nothing /\ x.view.done = 0
        /\ x.view.phase = "Idle"
    BY <1>0, <2>1, <2>2 DEF NoLane, Lane, Blank
  <2> QED BY <2>3 DEF Running
<1>3. ASSUME KeptIn(w, i, holding)
      PROVE  /\ x \in Lane /\ x.up /\ x.inbox = << >> /\ x.doing = Nothing /\ x.view.done = 0
             /\ Running(x.view) => Ran(w, i, holding) /\ ~Over(w, i, holding, limit)
  <2> DEFINE l == w[i]
             paused == Over(w, i, holding, limit)
             phase == IF l.view.phase = "Running" /\ (paused \/ l.conf # l.view.task)
                      THEN "Paused" ELSE l.view.phase
             v == [l.view EXCEPT !.phase = phase, !.task = l.conf, !.done = 0, !.accepted = None]
  <2>1. x = [l EXCEPT !.inbox = << >>, !.doing = Nothing, !.up = TRUE, !.view = v]
    BY <1>3 DEF LaneAfter, Restored
  <2>2. l \in Lane /\ l.view \in View /\ l.conf \in MaybeTask /\ phase \in Phases
    BY <1>0 DEF Lane, View, Phases
  <2>3. phase = "Running" => l.view.phase = "Running" /\ ~paused
    OBVIOUS
  <2> HIDE DEF phase, l, paused
  <2>4. v \in View /\ v.done = 0 /\ v.phase = phase
    BY <1>0, <2>2 DEF View
  <2> HIDE DEF v, x
  <2>5. /\ x \in Lane /\ x.up /\ x.inbox = << >> /\ x.doing = Nothing /\ x.view = v
    BY <1>1, <2>1, <2>2, <2>4 DEF Lane
  <2>6. Running(x.view) => Ran(w, i, holding) /\ ~Over(w, i, holding, limit)
    BY <1>3, <2>3, <2>4, <2>5 DEF Running, Ran, l, paused
  <2> QED BY <2>4, <2>5, <2>6
<1>4. /\ x \in Lane /\ x.up /\ x.inbox = << >> /\ x.doing = Nothing /\ x.view.done = 0
      /\ Running(x.view) => Ran(w, i, holding) /\ ~Over(w, i, holding, limit)
  BY <1>2, <1>3
<1>5. n \in Nat
  <2>1. {j \in Ids(w, holding) : j <= i} \in SUBSET Sessions
    BY <1>0 DEF Ids
  <2> QED BY <2>1, SessionsCounted
<1>6. slot = NewSlot(x.view, a, n)
  BY DEF SlotAfter
<1>7. a \in BOOLEAN
  OBVIOUS
<1>8. a <=> Ran(w, i, holding) /\ ~Over(w, i, holding, limit)
  OBVIOUS
<1> HIDE DEF x, slot, n, a
<1>9. x.view \in View
  BY <1>4 DEF Lane
<1>10. slot \in Slot /\ slot.snap = x.view /\ slot.base = NoBase /\ slot.assigned = a
  BY <1>5, <1>6, <1>7, <1>9 DEF NewSlot, Slot
<1> QED
  BY <1>4, <1>8, <1>10 DEF x, slot

\* At most limit of them are started again: the last one has fewer than limit
\* before it.
LEMMA AdmittedWithinLimit ==
  ASSUME NEW w \in [Sessions -> Lane], NEW holding, NEW limit \in Nat \ {0}
  PROVE  LET A == {i \in Ids(w, holding) :
                     Ran(w, i, holding) /\ ~Over(w, i, holding, limit)}
         IN Cardinality(A) <= limit
<1> DEFINE A == {i \in Ids(w, holding) : Ran(w, i, holding) /\ ~Over(w, i, holding, limit)}
<1>0. Ids(w, holding) \in SUBSET Sessions /\ MaxSession \in Nat
  BY SchedulerAssumption DEF Ids, Sessions
<1>1. A \in SUBSET Sessions /\ IsFiniteSet(A) /\ Cardinality(A) \in Nat
  BY <1>0, SessionsCounted
<1>2. CASE A = {}
  BY <1>2, FS_EmptySet
<1>3. CASE A # {}
  <2> DEFINE m == Max(A)
             B == A \ {m}
  <2>1. m \in A /\ \A j \in A : j <= m
    BY <1>0, <1>1, <1>3, MaxOf DEF Sessions
  <2>2. Cardinality(A) = Cardinality(B) + 1 /\ Cardinality(B) \in Nat /\ IsFiniteSet(B)
    <3> HIDE DEF A, m
    <3>1. IsFiniteSet(B) /\ Cardinality(B) = Cardinality(A) - 1
      BY <1>1, <2>1, FS_RemoveElement
    <3>2. Cardinality(B) \in Nat
      BY <3>1, FS_CardinalityType
    <3> QED BY <1>1, <3>1, <3>2
  <2>3. CASE m = 1
    <3>1. B = {}
      <4>1. \A j \in B : j \in A /\ j <= 1 /\ j # 1 /\ j \in 1..MaxSession
        BY <1>1, <2>1, <2>3 DEF Sessions
      <4>2. \A j \in B : FALSE
        BY <4>1
      <4> QED BY <4>2
    <3>2. Cardinality(B) = 0
      BY <3>1, FS_EmptySet
    <3> QED BY <2>2, <3>2
  <2>4. CASE m # 1
    <3> DEFINE F == Before(w, m, holding)
    <3>1. ~(Cardinality(F) >= limit)
      BY <2>1, <2>4 DEF Over
    <3>2. F \in SUBSET Sessions
      BY <1>0 DEF Before
    <3>3. IsFiniteSet(F) /\ Cardinality(F) \in Nat
      BY <3>2, SessionsCounted
    <3>4. B \subseteq F
      <4>1. \A j \in B : j < m
        <5>1. \A j \in B : j \in A /\ j <= m /\ j # m /\ j \in 1..MaxSession /\ m \in 1..MaxSession
          BY <1>1, <2>1 DEF Sessions
        <5> QED BY <5>1
      <4> QED BY <4>1 DEF Before
    <3>5. Cardinality(B) <= Cardinality(F)
      <4> HIDE DEF B, F
      <4> QED BY <3>3, <3>4, FS_Subset
    <3> DEFINE a == Cardinality(A)
               b == Cardinality(B)
               f == Cardinality(F)
    <3>6. a = b + 1 /\ b \in Nat /\ f \in Nat /\ b <= f /\ ~(f >= limit) /\ limit \in Nat
      BY <2>2, <3>1, <3>3, <3>5
    <3> HIDE DEF a, b, f
    <3>7. a <= limit
      BY <3>6
    <3> QED BY <3>7 DEF a
  <2> QED BY <2>3, <2>4
<1> QED
  BY <1>2, <1>3

\* The queue as it was saved, with new ids.
LEMMA SavedQueue ==
  ASSUME NEW q \in Seq(Pending)
  PROVE  LET p == [k \in DOMAIN q |-> [q[k] EXCEPT !.id = k, !.request = None]]
         IN /\ p \in Seq(Pending) /\ Queued(p) = Queued(q) /\ Len(p) \in Nat
            /\ \A k \in DOMAIN p : p[k].id = k /\ k < Len(p) + 1
<1> DEFINE n == Len(q)
           p == [k \in DOMAIN q |-> [q[k] EXCEPT !.id = k, !.request = None]]
<1>0. n \in Nat /\ DOMAIN q = 1..n /\ \A k \in 1..n : q[k] \in Pending /\ k \in Nat /\ k < n + 1
  OBVIOUS
<1> HIDE DEF n
<1>1. ASSUME NEW k \in 1..n
      PROVE  /\ p[k] \in Pending /\ p[k].id = k /\ Entry(p[k]) = Entry(q[k])
  <2> DEFINE e == q[k]
             d == [e EXCEPT !.id = k, !.request = None]
  <2>1. e \in Pending /\ None \in MaybeTask /\ k \in Nat
    BY <1>0 DEF MaybeTask
  <2>2. p[k] = d
    BY <1>0
  <2> HIDE DEF e
  <2>3. d \in Pending /\ d.id = k /\ d.task = e.task /\ d.target = e.target
        /\ d.resume = e.resume
    BY <2>1 DEF Pending
  <2> HIDE DEF d, p
  <2>4. Entry(d) = Entry(e)
    BY <2>3 DEF Entry
  <2> QED BY <2>2, <2>3, <2>4 DEF e
<1>2. DOMAIN p = 1..n /\ p = [k \in 1..n |-> p[k]]
  BY <1>0
<1> HIDE DEF p
<1>3. p \in Seq(Pending) /\ Len(p) = n
  BY <1>0, <1>1, <1>2
<1>4. Queued(p) = Queued(q)
  BY <1>0, <1>1, <1>2 DEF Queued
<1> QED
  BY <1>0, <1>1, <1>2, <1>3, <1>4 DEF p

LEMMA RestartKeeps ==
  ASSUME Sound(Here), disk \in Saves, \A i \in Sessions : lanes[i].inbox = << >>,
         NEW holding, NEW limit \in Limits, Initialize(holding, limit)
  PROVE  LET r == [s |-> sched', l |-> lanes']
         IN /\ Sound(r) /\ Tied(r) /\ Calm(Here, r)
            /\ ActiveIn(r.s) \subseteq Sessions /\ Cardinality(ActiveIn(r.s)) <= limit
            /\ r.s.limit = limit /\ Queued(r.s.pending) = Queued(disk.pending)
<1> DEFINE g == Here
           D == Ids(lanes, holding)
           r == [s |-> sched', l |-> lanes']
           queue == [k \in DOMAIN disk.pending |->
                       [disk.pending[k] EXCEPT !.id = k, !.request = None]]
           m == [i \in D |-> SlotAfter(lanes, i, holding, limit)]
           next == Max(D \cup {Larger(disk.next, 2) - 1}) + 1
           chosen == IF disk.selected \in D THEN disk.selected ELSE 1
           L == [i \in Sessions |-> IF i \in D THEN LaneAfter(lanes, i, holding, limit) ELSE NoLane]
           A == {i \in D : Ran(lanes, i, holding) /\ ~Over(lanes, i, holding, limit)}
           place == [request |-> None, session |-> None, pending |-> 0]
<1>0. /\ g \in States /\ g.s = sched /\ g.l = lanes /\ lanes \in [Sessions -> Lane]
      /\ limit \in Nat \ {0} /\ MaxSession \in Nat /\ 1 \in Sessions
      /\ disk.pending \in Seq(Pending) /\ disk.next \in Nat
      /\ D \in SUBSET Sessions /\ 1 \in D
  <2>1. g \in States /\ g.s = sched /\ g.l = lanes
    BY DEF Sound, Here
  <2>2. lanes \in [Sessions -> Lane]
    BY <2>1, StateTypes
  <2> QED BY <2>1, <2>2, SchedulerAssumption DEF Saves, Sessions, Ids
<1>1. lanes' = L
  BY DEF Initialize, Ids, KeptIn, Ran, Over, Before, LaneAfter, Kept
<1>2. sched' = [slots |-> m, pending |-> queue, selected |-> chosen, nextSession |-> next,
                nextPending |-> Len(queue) + 1, counter |-> Cardinality(D),
                limit |-> limit, accepted |-> None, processed |-> None, placed |-> place]
  BY Zenon DEF Initialize, Ids, KeptIn, Ran, Over, Before, LaneAfter, SlotAfter, Kept
<1>3. /\ queue \in Seq(Pending) /\ Queued(queue) = Queued(disk.pending) /\ Len(queue) \in Nat
      /\ \A k \in DOMAIN queue : queue[k].id = k /\ k < Len(queue) + 1
  BY <1>0, SavedQueue
<1>4. next \in Nat /\ \A i \in D : i < next
  <2> DEFINE last == Larger(disk.next, 2) - 1
             n == MaxSession + last
             E == D \cup {last}
  <2>1. last \in Nat /\ last >= 1
    BY <1>0 DEF Larger
  <2>2. n \in Nat /\ E \in SUBSET (1..n) /\ E # {}
    BY <1>0, <2>1 DEF Sessions
  <2>3. Max(E) \in E /\ \A y \in E : y <= Max(E)
    BY <2>2, MaxOf
  <2>4. Max(E) \in Nat /\ \A y \in E : y \in Nat
    BY <2>2, <2>3
  <2> DEFINE max == Max(E)
  <2>5. next = max + 1
    OBVIOUS
  <2>7. max \in Nat /\ \A y \in E : y \in Nat /\ y <= max
    BY <2>3, <2>4
  <2> HIDE DEF last, n, next, max
  <2>6. \A y \in E : y < next
    BY <2>5, <2>7
  <2> QED BY <2>5, <2>6, <2>7
<1>5. chosen \in Sessions /\ Cardinality(D) \in Nat /\ place \in Placement /\ None \in MaybeTask
  BY <1>0, SessionsCounted DEF Placement, MaybeTask
<1>6. \A i \in D :
        /\ L[i] = LaneAfter(lanes, i, holding, limit) /\ L[i] \in Lane
        /\ L[i].up /\ L[i].inbox = << >> /\ L[i].doing = Nothing /\ L[i].view.done = 0
        /\ m[i] \in Slot /\ m[i].snap = L[i].view /\ m[i].base = NoBase
        /\ m[i].assigned => i \in A
        /\ Running(L[i].view) => m[i].assigned
  BY <1>0, LaneAfterFacts
<1>7. /\ \A i \in Sessions \ D : L[i] = NoLane
      /\ NoLane \in Lane /\ ~NoLane.up /\ Gone(NoLane) /\ NoLane.inbox = << >>
      /\ NoLane.doing = Nothing /\ ~Running(NoLane.view)
  <2>1. Blank \in View /\ Nothing \in Command /\ << >> \in Seq(Command)
    BY <1>5 DEF Blank, View, Phases, Nothing, Cmd, Command, CommandKinds
  <2> QED BY <1>5, <2>1 DEF NoLane, Lane, Gone, Blank, Running
<1>8. DOMAIN m = D /\ m \in SlotMaps
  <2>1. m = [i \in D |-> m[i]] /\ DOMAIN m = D
    OBVIOUS
  <2> HIDE DEF m
  <2>2. m \in [D -> Slot]
    BY <1>6, <2>1
  <2> QED BY <1>0, <2>1, <2>2, SlotMap
<1>9. L \in [Sessions -> Lane]
  <2>1. L = [i \in Sessions |-> L[i]]
    OBVIOUS
  <2> HIDE DEF L
  <2> QED BY <1>6, <1>7, <2>1
<1>a. Cardinality(A) <= limit /\ A \in SUBSET Sessions
  BY <1>0, AdmittedWithinLimit
<1> HIDE DEF m, L, queue, next, chosen, place, A
<1>10. /\ sched' \in Scheds /\ sched'.slots = m /\ sched'.pending = queue
       /\ sched'.nextSession = next /\ sched'.nextPending = Len(queue) + 1
       /\ sched'.limit = limit
  BY <1>0, <1>2, <1>3, <1>4, <1>5, <1>8 DEF Scheds
<1> HIDE DEF D
<1>11. r \in States /\ r.s = sched' /\ r.l = L
  BY <1>1, <1>9, <1>10 DEF States
<1> HIDE DEF r, g
<1>12. Numbered(r.s)
  BY <1>3, <1>10, <1>11 DEF Numbered
<1>13. Housed(r)
  <2>1. \A i \in D : ~Leaving(L[i])
    BY <1>6 DEF Leaving
  <2>2. \A i \in Sessions : i >= next => i \notin D
    BY <1>0, <1>4 DEF Sessions
  <2> QED BY <1>4, <1>6, <1>7, <1>8, <1>10, <1>11, <2>1, <2>2 DEF Housed
<1>14. Away(r)
  BY <1>7, <1>8, <1>10, <1>11 DEF Away
<1>15. Tied(r)
  <2>1. \A l : l.inbox = << >> => Calls(l) /\ StartsIn(l) = {}
    BY DEF Calls, StartsIn
  <2>2. ASSUME NEW i \in D PROVE Attended(m[i], L[i])
    BY <1>6, <2>1, <2>2 DEF Attended, Quiet
  <2>3. AtRest(NoLane)
    BY <1>7, <2>1 DEF AtRest, Quiet
  <2> QED BY <1>7, <1>8, <1>10, <1>11, <2>2, <2>3 DEF Tied
<1>16. ActiveIn(r.s) \subseteq A
  BY <1>6, <1>8, <1>10, <1>11 DEF ActiveIn, Active
<1>17. ActiveIn(r.s) \subseteq Sessions /\ Cardinality(ActiveIn(r.s)) <= limit
  <2>1. IsFiniteSet(A) /\ Cardinality(A) \in Nat
    BY <1>a, SessionsCounted
  <2>2. Cardinality(ActiveIn(r.s)) <= Cardinality(A)
    BY <1>16, <2>1, FS_Subset
  <2>3. Cardinality(ActiveIn(r.s)) \in Nat
    BY <1>16, <2>1, FS_Subset, FS_CardinalityType
  <2> QED BY <1>0, <1>a, <1>16, <2>1, <2>2, <2>3
<1>18. Calm(g, r)
  <2> SUFFICES ASSUME NEW i \in Sessions, L[i].up, WillRun(L[i])
               PROVE  lanes[i].up /\ WillRun(lanes[i])
    BY <1>0, <1>11 DEF Calm
  <2>1. i \in D
    BY <1>7
  <2>2. \A l \in Lane : l.inbox = << >> => (WillRun(l) <=> Running(l.view))
    <3>1. \A l : l.inbox = << >> => Deciding(l) = {}
      BY DEF Deciding
    <3> QED BY <3>1, WillRunMeans
  <2>3. Running(L[i].view)
    BY <1>6, <2>1, <2>2
  <2>4. Ran(lanes, i, holding)
    BY <1>6, <2>1, <2>3 DEF A
  <2>5. lanes[i].view.phase = "Running"
    BY <2>4 DEF Ran
  <2>6. lanes[i] \in Lane /\ lanes[i].inbox = << >>
    BY <1>0
  <2>7. WillRun(lanes[i])
    BY <2>2, <2>5, <2>6 DEF Running
  <2>8. lanes[i].up
    <3>1. CASE i \in DOMAIN sched.slots
      BY <1>0, <3>1 DEF Sound, Housed, g
    <3>2. CASE i \notin DOMAIN sched.slots
      BY <1>0, <2>5, <3>2 DEF Sound, Away, Leaving, Gone, g
    <3> QED BY <3>1, <3>2
  <2> QED BY <2>7, <2>8
<1> QED
  BY <1>3, <1>10, <1>11, <1>12, <1>13, <1>14, <1>15, <1>17, <1>18 DEF r, g, Sound

-----------------------------------------------------------------------------
\* From the functions on g to the steps of the specification.

Then == [s |-> sched', l |-> lanes']
LiveIn(g) == {i \in Sessions : g.l[i].up /\ WillRun(g.l[i])}

\* The workers that run or will are those of the lanes that are taken.
LEMMA LiveActive ==
  ASSUME NEW g \in States, Tied(g)
  PROVE  LiveIn(g) \subseteq ActiveIn(g.s)
<1> SUFFICES ASSUME NEW i \in Sessions, WillRun(g.l[i]) PROVE i \in ActiveIn(g.s)
  BY DEF LiveIn
<1>0. g.l[i] \in Lane
  BY StateTypes
<1>1. Running(g.l[i].view) \/ StartsIn(g.l[i]) # {}
  <2>1. CASE Deciding(g.l[i]) = {}
    BY <1>0, <2>1, WillRunMeans
  <2>2. CASE Deciding(g.l[i]) # {}
    <3>1. PICK k : Latest(g.l[i], k)
      BY <1>0, <2>2, WillRunMeans
    <3>2. g.l[i].inbox[k].kind \in Starting
      BY <1>0, <3>1, WillRunMeans
    <3>3. k \in DOMAIN g.l[i].inbox
      BY <3>1 DEF Latest, Deciding
    <3> QED BY <3>2, <3>3 DEF StartsIn
  <2> QED BY <2>1, <2>2
<1>2. i \in DOMAIN g.s.slots
  BY <1>1 DEF Tied, AtRest, Quiet
<1>3. Attended(g.s.slots[i], g.l[i])
  BY <1>2 DEF Tied
<1>4. g.s.slots[i].assigned
  BY <1>1, <1>3 DEF Attended, Quiet
<1> QED
  BY <1>2, <1>4 DEF ActiveIn, Active

LEMMA LimitsAreNumbers == Limits \subseteq Nat \ {0}
BY SchedulerAssumption

LEMMA ActiveCounted ==
  ASSUME NEW g \in States
  PROVE  /\ ActiveIn(g.s) \in SUBSET Sessions /\ IsFiniteSet(ActiveIn(g.s))
         /\ Cardinality(ActiveIn(g.s)) \in Nat /\ g.s.limit \in Nat
<1>1. ActiveIn(g.s) \in SUBSET Sessions /\ g.s.limit \in Nat
  BY StateTypes, LimitsAreNumbers DEF ActiveIn
<1> QED
  BY <1>1, SessionsCounted

\* One more lane than there was room for is not taken.
LEMMA TakesWithin ==
  ASSUME NEW g \in States, NEW r \in States, ~AtLimit(g.s), Takes(g, r), Tied(r)
  PROVE  Cardinality(LiveIn(r)) <= r.s.limit
<1>1. PICK i \in Sessions \ ActiveIn(g.s) : ActiveIn(r.s) = ActiveIn(g.s) \cup {i}
  BY DEF Takes
<1> DEFINE n == Cardinality(ActiveIn(g.s))
           k == Cardinality(ActiveIn(r.s))
           live == Cardinality(LiveIn(r))
<1>2. k = n + 1 /\ n \in Nat
  <2>1. IsFiniteSet(ActiveIn(g.s)) /\ n \in Nat
    BY ActiveCounted
  <2>2. k = n + 1
    BY <1>1, <2>1, FS_AddElement
  <2> QED BY <2>1, <2>2
<1>3. ~(n >= g.s.limit) /\ g.s.limit \in Nat /\ r.s.limit = g.s.limit
  BY ActiveCounted DEF AtLimit, Takes
<1>4. live <= k /\ live \in Nat
  <2>1. LiveIn(r) \subseteq ActiveIn(r.s) /\ IsFiniteSet(ActiveIn(r.s))
    BY LiveActive, ActiveCounted
  <2> QED BY <2>1, FS_Subset, FS_CardinalityType
<1> HIDE DEF n, k, live
<1>5. live <= r.s.limit
  BY <1>2, <1>3, <1>4
<1> QED
  BY <1>5 DEF live

LEMMA CalmStarts == ASSUME NEW g, NEW r, Calm(g, r) PROVE LiveIn(r) \subseteq LiveIn(g)
BY DEF Calm, LiveIn

\* What a step of the handlers means for LaneQueue.
LEMMA SameCardinality == \A S : Promise!Cardinality(S) = Cardinality(S)
BY DEF Promise!Cardinality, Cardinality

LEMMA RoomMeans ==
  ASSUME Here \in States
  PROVE  Promise!HasRoom <=> ~AtLimit(sched)
<1>1. Here.s = sched
  BY DEF Here
<1>2. Cardinality(ActiveIn(sched)) \in Nat /\ sched.limit \in Nat
  BY <1>1, ActiveCounted
<1>3. Promise!HasRoom <=> Cardinality(ActiveIn(sched)) < sched.limit
  BY SameCardinality DEF Promise!HasRoom
<1> QED
  BY <1>2, <1>3 DEF AtLimit

LEMMA EntryTypes ==
  ASSUME NEW e \in Pending
  PROVE  Entry(e) \in [task : MaybeTask, target : Sessions \cup {None}, resume : BOOLEAN]
BY DEF Entry, Pending

LEMMA OutcomeMeans ==
  ASSUME Here \in States, Then \in States, Outcome(Here, Then)
  PROVE  Promise!Next
<1>0. Here.s = sched /\ Then.s = sched' /\ sched.pending \in Seq(Pending)
      /\ sched'.limit \in Limits
  <2>1. Here.s = sched /\ Then.s = sched'
    BY DEF Here, Then
  <2>2. sched.pending \in Seq(Pending) /\ sched'.limit \in Limits
    BY <2>1, StateTypes
  <2> QED BY <2>1, <2>2
<1>1. CASE Harmless(Here, Then)
  <2>1. /\ ActiveIn(sched') = ActiveIn(sched) /\ sched'.limit = sched.limit
        /\ Promise!Fewer(Queued(sched'.pending), Queued(sched.pending))
    BY <1>0, <1>1, FewerWaiting DEF Harmless
  <2>2. Promise!Leave
    BY <2>1 DEF Promise!Leave, Queued
  <2> QED BY <2>2 DEF Promise!Next
<1>2. CASE Joins(Here, Then)
  <2>1. PICK e \in Pending : sched'.pending = Append(sched.pending, e)
    BY <1>0, <1>2 DEF Joins
  <2>2. Queued(sched'.pending) = Append(Queued(sched.pending), Entry(e))
    BY <1>0, <2>1, WaitingAppend
  <2>3. ~Promise!HasRoom /\ ActiveIn(sched') = ActiveIn(sched) /\ sched'.limit = sched.limit
    BY <1>0, <1>2, RoomMeans DEF Joins
  <2>4. Promise!Join
    BY <2>2, <2>3, EntryTypes DEF Promise!Join, Queued
  <2> QED BY <2>4 DEF Promise!Next
<1>3. CASE ~AtLimit(sched) /\ Takes(Here, Then)
  <2>1. PICK i \in Sessions \ ActiveIn(sched) : ActiveIn(sched') = ActiveIn(sched) \cup {i}
    BY <1>0, <1>3 DEF Takes
  <2>2. /\ sched'.limit = sched.limit
        /\ Promise!Fewer(Queued(sched'.pending), Queued(sched.pending))
    BY <1>0, <1>3, FewerWaiting DEF Takes
  <2>3. Promise!Occupy(i)
    BY <1>3, <2>1, <2>2, RoomMeans DEF Promise!Occupy
  <2>4. Promise!StartDirectly
    BY <2>2, <2>3 DEF Promise!StartDirectly, Queued
  <2> QED BY <2>4 DEF Promise!Next
<1>4. CASE Limited(Here, Then)
  <2>1. Promise!SetLimit
    BY <1>0, <1>4 DEF Limited, Promise!SetLimit
  <2> QED BY <2>1 DEF Promise!Next
<1> QED
  BY <1>0, <1>1, <1>2, <1>3, <1>4 DEF Outcome

-----------------------------------------------------------------------------
\* The inductive invariant: the types and the places (Standing), what the file
\* holds between two turns (Backed), and what the slots know (Watched).
Ending == {"closing", "off"}
Lefts == [fresh : 1..(MaxTask + 1), commands : 0..MaxCommands, crashes : 0..MaxCrashes]
Stands(p, g, d, f) ==
  /\ p \in {"loop", "refresh", "dispatch"} \cup Ending
  /\ d \in Saves /\ f \in Lefts
  /\ g \in States /\ Numbered(g.s) /\ Away(g) /\ (p \notin Ending => Housed(g))
Standing == Stands(pc, Here, disk, left)
Backed == pc = "loop" => Queued(disk.pending) = Queued(sched.pending)
Watched == pc # "off" => Tied(Here)

LEMMA NextState ==
  /\ Standing' <=> Stands(pc', Then, disk', left')
  /\ Watched' <=> (pc' # "off" => Tied(Then))
  /\ Backed' <=> (pc' = "loop" => Queued(disk'.pending) = Queued(sched'.pending))
  /\ Live = LiveIn(Here) /\ Live' = LiveIn(Then)
  /\ Here.s = sched /\ Here.l = lanes /\ Then.s = sched' /\ Then.l = lanes'
<1>1. Here' = Then
  BY DEF Here, Then
<1>2. Standing' <=> Stands(pc', Then, disk', left')
  BY <1>1 DEF Standing
<1>3. Watched' <=> (pc' # "off" => Tied(Then))
  BY <1>1 DEF Watched
<1>4. Backed' <=> (pc' = "loop" => Queued(disk'.pending) = Queued(sched'.pending))
  BY DEF Backed, Queued, Entry
<1>5. Live = LiveIn(Here)
  BY DEF Live, LiveIn, Here
<1>6. Live' = LiveIn(Then)
  BY DEF Live, LiveIn, Then, WillRun, Running
<1>7. Here.s = sched /\ Here.l = lanes /\ Then.s = sched' /\ Then.l = lanes'
  BY DEF Here, Then
<1> QED
  BY <1>2, <1>3, <1>4, <1>5, <1>6, <1>7

\* Outside of a shutdown, standing is being sound.
LEMMA StandsSound ==
  ASSUME NEW p, NEW g, NEW d, NEW f
  PROVE  /\ Stands(p, g, d, f) /\ p \notin Ending => Sound(g)
         /\ p \in {"loop", "refresh", "dispatch"} /\ Sound(g) /\ d \in Saves /\ f \in Lefts
              => Stands(p, g, d, f)
BY DEF Stands, Sound

\* What a step has to show, and what it has to show when the scheduler sees
\* everything that it starts.
Keeps == Standing' /\ Backed'
Serves ==
  /\ Watched' /\ [Promise!Next]_(Promise!vars)
  /\ StartsAnother => Cardinality(Live') <= sched'.limit
Seen == {"stop", "typeAhead"} \cap Asked = {}

LEMMA CalmWithin ==
  ASSUME Calm(Here, Then) PROVE ~StartsAnother
<1>1. LiveIn(Then) \subseteq LiveIn(Here)
  BY CalmStarts
<1> QED
  BY <1>1, NextState DEF StartsAnother

\* The worker of a conversation that does not exist.
LEMMA NoLaneFacts == NoLane \in Lane /\ ~NoLane.up /\ Gone(NoLane) /\ AtRest(NoLane)
<1>0. None \in MaybeTask
  BY DEF MaybeTask
<1>1. Blank \in View /\ Nothing \in Command /\ << >> \in Seq(Command)
  BY <1>0 DEF Blank, View, Phases, Nothing, Cmd, Command, CommandKinds
<1>2. NoLane \in Lane
  BY <1>0, <1>1 DEF NoLane, Lane
<1>3. /\ ~NoLane.up /\ NoLane.inbox = << >> /\ NoLane.doing = Nothing
      /\ NoLane.view.phase = "Idle" /\ NoLane.view.queued = None
  BY DEF NoLane, Blank
<1>4. DOMAIN NoLane.inbox = {}
  BY <1>3
<1> QED
  BY <1>2, <1>3, <1>4 DEF Gone, AtRest, Calls, Quiet, StartsIn, Running

LEMMA StandingMeans ==
  ASSUME Standing
  PROVE  TypeOK /\ NothingHidden /\ DismissedStaysAway
<1>0. /\ Here \in States /\ Here.s = sched /\ Here.l = lanes
      /\ Stands(pc, Here, disk, left)
  BY NextState DEF Standing, Stands
<1>1. ShapeOK
  <2>1. /\ sched.slots \in SlotMaps /\ DOMAIN sched.slots \in SUBSET Sessions
        /\ \A i \in DOMAIN sched.slots : sched.slots[i] \in Slot
        /\ sched.pending \in Seq(Pending) /\ sched.selected \in Sessions
        /\ sched.limit \in Limits /\ sched.accepted \in MaybeTask
        /\ sched.processed \in MaybeTask /\ sched.placed \in Placement
    BY <1>0, StateTypes
  <2>2. pc \in {"loop", "refresh", "dispatch", "closing", "off"} /\ disk \in Saves /\ left \in Lefts
    BY <1>0 DEF Stands, Ending
  <2>3. /\ left.fresh \in 1..(MaxTask + 1)
        /\ left.commands \in 0..MaxCommands /\ left.crashes \in 0..MaxCrashes
    BY <2>2 DEF Lefts
  <2> QED BY <2>1, <2>2, <2>3 DEF ShapeOK
<1>2. TypeOK
  <2>1. lanes \in [Sessions -> Lane]
    BY <1>0, StateTypes
  <2>2. /\ \A i \in DOMAIN sched.slots : lanes[i].up \/ Quitting
        /\ \A i \in Sessions : i >= sched.nextSession => ~lanes[i].up \/ i = 1 \/ Quitting
    BY <1>0 DEF Stands, Housed, Quitting, Ending
  <2>3. /\ \A j, k \in DOMAIN sched.pending :
             sched.pending[j].id = sched.pending[k].id => j = k
        /\ \A k \in DOMAIN sched.pending : sched.pending[k].id < sched.nextPending
    BY <1>0 DEF Stands, Numbered
  <2> QED BY <1>1, <2>1, <2>2, <2>3 DEF TypeOK
<1>3. ASSUME NEW i \in Sessions \ DOMAIN sched.slots, ~InFlight(i)
      PROVE  ~lanes[i].up /\ lanes[i].view.phase = "Idle" /\ lanes[i].view.queued = None
  <2>1. Leaving(lanes[i]) \/ Gone(lanes[i])
    BY <1>0, <1>3 DEF Stands, Away
  <2>2. lanes[i].inbox = << >>
    BY <1>3 DEF InFlight
  <2>3. DOMAIN lanes[i].inbox = {}
    BY <2>2
  <2> QED BY <2>1, <2>3 DEF Leaving, Gone
<1>4. NothingHidden
  BY <1>3 DEF NothingHidden
<1>5. DismissedStaysAway
  BY <1>3 DEF DismissedStaysAway, Kept, RequiresRecovery
<1> QED
  BY <1>2, <1>4, <1>5

LEMMA InitStands == ASSUME SchedInit PROVE Standing /\ Backed /\ Watched
<1> DEFINE first == [SpawnLane(None) EXCEPT !.saved = TRUE]
           slot == NewSlot(Blank, FALSE, 1)
<1>1. /\ first \in Lane /\ first.up /\ ~Leaving(first) /\ slot \in Slot
      /\ Attended(slot, first)
  <2>1. None \in MaybeTask /\ 1 \in Nat
    BY DEF MaybeTask
  <2> DEFINE l == SpawnLane(None)
  <2>2. l = [NoLane EXCEPT !.up = TRUE, !.view.task = None] /\ l.view = Blank
    BY DEF SpawnLane, NoLane, Blank
  <2>3. /\ l \in Lane /\ l.up /\ ~Leaving(l) /\ NewSlot(l.view, FALSE, 1) \in Slot
        /\ Attended(NewSlot(l.view, FALSE, 1), l)
    BY <2>1, SpawnedFacts
  <2> HIDE DEF l
  <2>4. /\ first = [l EXCEPT !.saved = TRUE] /\ first \in Lane
        /\ first.view = l.view /\ first.inbox = l.inbox /\ first.doing = l.doing
        /\ first.up = l.up
    BY <2>3 DEF l, Lane
  <2> HIDE DEF first
  <2>5. ~Leaving(first)
    BY <2>3, <2>4 DEF Leaving
  <2>6. Attended(slot, first)
    BY <2>2, <2>3, <2>4 DEF Attended, Calls, Quiet, Outstanding, StartsIn
  <2> QED BY <2>2, <2>3, <2>4, <2>5, <2>6
<1>2. NoLane \in Lane /\ Gone(NoLane) /\ AtRest(NoLane)
  BY NoLaneFacts
<1> HIDE DEF first, slot
<1>3. 1 \in Sessions /\ MaxSession \in Nat
  BY SchedulerAssumption DEF Sessions
<1>4. /\ lanes \in [Sessions -> Lane] /\ lanes[1] = first
      /\ \A i \in Sessions \ {1} : lanes[i] = NoLane
  BY <1>1, <1>2, <1>3 DEF SchedInit, first
<1>5. PICK n \in Limits :
        sched = [slots |-> [i \in {1} |-> slot],
                 pending |-> << >>, selected |-> 1, nextSession |-> 2,
                 nextPending |-> 1, counter |-> 1, limit |-> n,
                 accepted |-> None, processed |-> None,
                 placed |-> [request |-> None, session |-> None, pending |-> 0]]
  BY DEF SchedInit, slot
<1>6. /\ sched.slots = [i \in {1} |-> slot] /\ DOMAIN sched.slots = {1}
      /\ sched.slots[1] = slot /\ sched.pending = << >> /\ sched.nextSession = 2
  BY <1>5
<1>7. sched \in Scheds
  <2>1. [i \in {1} |-> slot] \in SlotMaps
    <3>1. {1} \in SUBSET Sessions
      BY <1>3
    <3>2. [i \in {1} |-> slot] \in [{1} -> Slot]
      BY <1>1
    <3> QED BY <3>1, <3>2 DEF SlotMaps
  <2>2. [request |-> None, session |-> None, pending |-> 0] \in Placement /\ None \in MaybeTask
    BY DEF Placement, MaybeTask, None
  <2>3. << >> \in Seq(Pending)
    OBVIOUS
  <2> QED BY <1>3, <1>5, <2>1, <2>2, <2>3 DEF Scheds
<1>8. Here \in States /\ Here.s = sched /\ Here.l = lanes
  BY <1>4, <1>7 DEF Here, States
<1>9. Numbered(sched)
  BY <1>6 DEF Numbered
<1>10. Housed(Here)
  <2>1. \A i \in Sessions : i >= 2 => i # 1
    BY DEF Sessions
  <2> QED BY <1>1, <1>4, <1>6, <1>8, <2>1 DEF Housed, NoLane
<1>11. Away(Here) /\ Tied(Here)
  BY <1>1, <1>2, <1>4, <1>6, <1>8 DEF Away, Tied
<1>12. pc = "loop" /\ disk \in Saves /\ left \in Lefts
  <2>1. pc = "loop" /\ disk = [selected |-> 1, next |-> 2, pending |-> << >>]
        /\ left = [fresh |-> 1, commands |-> MaxCommands, crashes |-> MaxCrashes]
    BY DEF SchedInit
  <2>2. disk \in Saves
    BY <1>3, <2>1 DEF Saves
  <2>3. left \in Lefts
    BY <2>1, SchedulerAssumption, LaneAssumption DEF Lefts
  <2> QED BY <2>1, <2>2, <2>3
<1>13. disk.pending = sched.pending
  BY <1>6 DEF SchedInit
<1> QED
  BY <1>8, <1>9, <1>10, <1>11, <1>12, <1>13 DEF Standing, Stands, Backed, Watched

LEMMA PromiseSame ==
  ASSUME ActiveIn(sched') = ActiveIn(sched), sched'.limit = sched.limit,
         Queued(sched'.pending) = Queued(sched.pending)
  PROVE  UNCHANGED Promise!vars
BY DEF Promise!vars, Queued

-----------------------------------------------------------------------------
\* One lemma for each action.

LEMMA LaneStep ==
  ASSUME Standing, Backed, NEW i \in Sessions, LaneSteps(i)
  PROVE  Keeps /\ (Watched => Serves)
<1>1. PICK x \in Moves(lanes[i]) : lanes' = [lanes EXCEPT ![i] = x]
  BY DEF LaneSteps, Serve, TakeCommand, FinishCommand, RunTask, RemoveSession, LaneMoves, Moves
<1>2. UNCHANGED <<pc, sched, disk, left>>
  BY DEF LaneSteps, Serve, TakeCommand, FinishCommand, RunTask, RemoveSession, LaneMoves
<1>3. Stands(pc, Here, disk, left) /\ Here \in States
  BY DEF Standing, Stands
<1>4. Here.s = sched /\ Here.l = lanes /\ Then.s = sched /\ Then.l = lanes'
  BY <1>2, NextState
<1>5. Then = [s |-> Here.s, l |-> [Here.l EXCEPT ![i] = x]]
  BY <1>1, <1>2, <1>4 DEF Then
<1>6. /\ Then \in States /\ Calm(Here, Then)
      /\ Away(Here) => Away(Then)
      /\ Housed(Here) => Housed(Then)
      /\ Tied(Here) => Tied(Then)
  <2>1. x \in Moves(Here.l[i])
    BY <1>1, <1>4
  <2> QED BY <1>3, <1>5, <2>1, MovesKeep
<1>7. Stands(pc, Then, disk, left)
  BY <1>3, <1>4, <1>6 DEF Stands
<1>8. Keeps
  BY <1>2, <1>7, NextState DEF Keeps, Backed
<1>9. ASSUME Watched PROVE Serves
  <2>1. Watched'
    BY <1>2, <1>6, <1>9, NextState DEF Watched
  <2>2. UNCHANGED Promise!vars
    BY <1>2, PromiseSame
  <2>3. ~StartsAnother
    BY <1>6, CalmWithin
  <2> QED BY <2>1, <2>2, <2>3 DEF Serves
<1> QED
  BY <1>8, <1>9

LEMMA RefreshStep ==
  ASSUME Standing, Backed, RefreshWorkers
  PROVE  Keeps /\ (Watched => Serves)
<1>0. pc \in {"loop", "refresh"} /\ pc' = "dispatch" /\ UNCHANGED <<lanes, disk, left>>
  BY DEF RefreshWorkers
<1>1. Here.s = sched /\ Here.l = lanes /\ Then.s = sched' /\ Then.l = lanes
  BY <1>0, NextState
<1>2. Sound(Here) /\ disk \in Saves /\ left \in Lefts
  BY <1>0, StandsSound DEF Standing, Stands, Ending
<1>3. Then = [s |-> [Here.s EXCEPT !.slots = [i \in DOMAIN @ |->
                                               RefreshSlot(@[i], Here.l[i].view)]],
              l |-> Here.l]
  BY <1>0, <1>1 DEF RefreshWorkers, Then
<1>4. /\ Sound(Then) /\ Calm(Here, Then)
      /\ Tied(Here) => Tied(Then) /\ ActiveIn(sched') \subseteq ActiveIn(sched)
      /\ sched'.limit = sched.limit /\ sched'.pending = sched.pending
  BY <1>1, <1>2, <1>3, RefreshKeeps
<1>5. Keeps
  BY <1>0, <1>2, <1>4, StandsSound, NextState DEF Keeps
<1>6. ASSUME Watched PROVE Serves
  <2>1. Watched' /\ ActiveIn(sched') \subseteq ActiveIn(sched)
    BY <1>0, <1>4, <1>6, NextState DEF Watched
  <2>2. Promise!Next
    <3>1. Promise!Release
      BY <1>4, <2>1 DEF Promise!Release, Queued
    <3> QED BY <3>1 DEF Promise!Next
  <2>3. ~StartsAnother
    BY <1>4, CalmWithin
  <2> QED BY <2>1, <2>2, <2>3 DEF Serves
<1> QED
  BY <1>5, <1>6

LEMMA DetachStep ==
  ASSUME Standing, Backed, Detach
  PROVE  Keeps /\ (Watched => Serves)
<1>0. /\ pc = "dispatch" /\ pc' = "dispatch" /\ sched.pending # << >>
      /\ UNCHANGED <<lanes, disk, left>>
  BY DEF Detach, MayDispatch
<1>1. Here.s = sched /\ Here.l = lanes /\ Then.s = sched' /\ Then.l = lanes
  BY <1>0, NextState
<1>2. Sound(Here) /\ disk \in Saves /\ left \in Lefts
  BY <1>0, StandsSound DEF Standing, Stands, Ending
<1>3. Then = [s |-> [Here.s EXCEPT !.pending[1] = [@ EXCEPT !.target = None,
                                                            !.resume = FALSE]],
              l |-> Here.l]
  BY <1>0, <1>1 DEF Detach, Then
<1>4. /\ Sound(Then) /\ (Tied(Here) => Tied(Then)) /\ Calm(Here, Then)
      /\ Queued(sched'.pending) =
           <<[Head(Queued(sched.pending)) EXCEPT !.target = None, !.resume = FALSE]>>
             \o Tail(Queued(sched.pending))
      /\ sched'.limit = sched.limit /\ ActiveIn(sched') = ActiveIn(sched)
  BY <1>0, <1>1, <1>2, <1>3, DetachKeeps
<1>5. Keeps
  BY <1>0, <1>2, <1>4, StandsSound, NextState DEF Keeps
<1>6. ASSUME Watched PROVE Serves
  <2>1. Watched'
    BY <1>0, <1>4, <1>6, NextState DEF Watched
  <2>2. Queued(sched.pending) # << >>
    <3>1. sched.pending \in Seq(Pending)
      BY <1>1, <1>2, StateTypes DEF Sound
    <3> QED BY <1>0, <3>1, WaitingHead
  <2>3. Promise!LoseTarget
    BY <1>4, <2>2 DEF Promise!LoseTarget, Queued
  <2>4. ~StartsAnother
    BY <1>4, CalmWithin
  <2> QED BY <2>1, <2>3, <2>4 DEF Serves, Promise!Next
<1> QED
  BY <1>5, <1>6

\* The head of the queue leaves it for a lane that was free.
LEMMA HeadMeans ==
  ASSUME Here \in States, Then \in States, sched.pending # << >>, ~AtLimit(sched),
         NEW i \in Sessions \ ActiveIn(sched),
         ActiveIn(sched') = ActiveIn(sched) \cup {i}, sched'.limit = sched.limit,
         Promise!Fewer(sched'.pending, Tail(sched.pending)),
         Head(sched.pending).target \in {i, None}
  PROVE  Promise!StartHead /\ Takes(Here, Then)
<1>1. Here.s = sched /\ Then.s = sched' /\ sched.pending \in Seq(Pending)
  <2>1. Here.s = sched /\ Then.s = sched'
    BY NextState
  <2> QED BY <2>1, StateTypes
<1>2. /\ Queued(sched.pending) # << >>
      /\ Head(Queued(sched.pending)) = Entry(Head(sched.pending))
      /\ Queued(Tail(sched.pending)) = Tail(Queued(sched.pending))
      /\ Promise!Fewer(Tail(sched.pending), sched.pending)
  BY <1>1, WaitingHead
<1>3. Promise!Fewer(Queued(sched'.pending), Tail(Queued(sched.pending)))
  BY <1>2, FewerWaiting
<1>4. Promise!Occupy(i)
  BY RoomMeans DEF Promise!Occupy
<1>5. Head(Queued(sched.pending)).target \in {i, None}
  BY <1>2 DEF Entry
<1>6. Promise!StartHead
  BY <1>2, <1>3, <1>4, <1>5 DEF Promise!StartHead, Queued
<1>7. Takes(Here, Then)
  <2>1. Promise!Fewer(sched'.pending, sched.pending)
    BY <1>2, FewerFewer
  <2> QED BY <1>1, <2>1 DEF Takes
<1> QED
  BY <1>6, <1>7

\* What dispatching shows, once its effect is known.
LEMMA HeadServed ==
  ASSUME Standing, pc = "dispatch", pc' = "dispatch", UNCHANGED <<disk, left>>,
         Sound(Then), Tied(Here) => Tied(Then), sched.pending # << >>, ~AtLimit(sched),
         NEW i \in Sessions \ ActiveIn(sched),
         ActiveIn(sched') = ActiveIn(sched) \cup {i}, sched'.limit = sched.limit,
         Promise!Fewer(sched'.pending, Tail(sched.pending)),
         Head(sched.pending).target \in {i, None}
  PROVE  Keeps /\ (Watched => Serves)
<1>1. Sound(Here) /\ disk \in Saves /\ left \in Lefts
  BY StandsSound DEF Standing, Stands, Ending
<1>2. Here \in States /\ Then \in States
  BY <1>1 DEF Sound
<1>3. Keeps
  BY <1>1, StandsSound, NextState DEF Keeps
<1>4. ASSUME Watched PROVE Serves
  <2>1. Promise!StartHead /\ Takes(Here, Then)
    BY <1>2, HeadMeans
  <2>2. Watched' /\ Tied(Then)
    BY <1>4, NextState DEF Watched
  <2>3. Here.s = sched /\ Then.s = sched'
    BY NextState
  <2>4. Cardinality(LiveIn(Then)) <= sched'.limit
    BY <1>2, <2>1, <2>2, <2>3, TakesWithin
  <2>5. Cardinality(Live') <= sched'.limit
    BY <2>4, NextState
  <2> QED BY <2>1, <2>2, <2>5 DEF Serves, Promise!Next
<1> QED
  BY <1>3, <1>4

LEMMA PoppedFacts ==
  ASSUME Sound(Here), sched.pending # << >>
  PROVE  /\ Sound(Popped) /\ (Tied(Here) => Tied(Popped))
         /\ Popped.s.pending = Tail(sched.pending) /\ Popped.s.slots = sched.slots
         /\ Popped.s.limit = sched.limit /\ Popped.s.nextSession = sched.nextSession
         /\ ActiveIn(Popped.s) = ActiveIn(sched)
         /\ First \in Pending
<1>1. Here.s = sched /\ Here.l = lanes
  BY NextState
<1>2. Popped = [s |-> [Here.s EXCEPT !.pending = Tail(@)], l |-> Here.l]
  BY <1>1 DEF Popped
<1>3. sched.pending \in Seq(Pending)
  BY <1>1, StateTypes DEF Sound
<1>4. First \in Pending
  BY <1>3, WaitingHead DEF First
<1> QED
  BY <1>1, <1>2, <1>4, PoppedKeeps

LEMMA DispatchTargetStep ==
  ASSUME Standing, DispatchTarget
  PROVE  Keeps /\ (Watched => Serves)
<1> DEFINE i == First.target
           o == [Popped EXCEPT !.s.slots[i].origin = First.id]
           c == IF First.resume THEN Cmd("resume", None, None)
                ELSE Cmd("start", First.task, First.request)
           r == Send(Reserve(o, i), i, c)
<1>0. /\ pc = "dispatch" /\ pc' = "dispatch" /\ UNCHANGED <<disk, left>>
      /\ sched.pending # << >> /\ ~AtLimit(sched) /\ i \in DOMAIN sched.slots /\ ~HeadIsBusy
      /\ sched' = r.s /\ lanes' = r.l
  BY Zenon DEF DispatchTarget, MayDispatch
<1>1. Sound(Here)
  BY <1>0, StandsSound DEF Standing, Stands, Ending
<1>2. /\ Sound(Popped) /\ (Tied(Here) => Tied(Popped)) /\ First \in Pending
      /\ Popped.s.pending = Tail(sched.pending) /\ Popped.s.slots = sched.slots
      /\ Popped.s.limit = sched.limit /\ ActiveIn(Popped.s) = ActiveIn(sched)
  BY <1>0, <1>1, PoppedFacts
<1>3. i \in Sessions \ ActiveIn(sched) /\ First.id \in Nat
  <2>1. i \notin ActiveIn(sched)
    BY <1>0 DEF HeadIsBusy, ActiveIn, First
  <2>2. DOMAIN sched.slots \in SUBSET Sessions
    BY <1>2, StateTypes DEF Sound
  <2>3. First.id \in Nat
    BY <1>2 DEF Pending
  <2> QED BY <1>0, <2>1, <2>2, <2>3
<1>4. c \in Command /\ c.kind \in Starting
  <2>1. First.task \in MaybeTask /\ First.request \in MaybeTask /\ None \in MaybeTask
    BY <1>2 DEF Pending, MaybeTask
  <2>2. "resume" \in CommandKinds /\ "start" \in CommandKinds
    BY DEF CommandKinds
  <2> QED BY <2>1, <2>2, CommandTypes DEF Starting
<1>5. /\ Sound(o) /\ (Tied(Popped) => Tied(o)) /\ Harmless(Popped, o)
      /\ DOMAIN o.s.slots = DOMAIN sched.slots /\ o.s.pending = Tail(sched.pending)
  <2>1. i \in DOMAIN Popped.s.slots
    BY <1>0, <1>2
  <2> DEFINE id == First.id
             p == Popped
  <2>2. o = [p EXCEPT !.s.slots[i].origin = id]
    OBVIOUS
  <2>3. id \in Nat /\ Sound(p) /\ i \in DOMAIN p.s.slots
    BY <1>2, <1>3, <2>1
  <2> HIDE DEF i, o, id, p
  <2>4. /\ Sound(o) /\ (Tied(p) => Tied(o)) /\ Harmless(p, o)
        /\ DOMAIN o.s.slots = DOMAIN p.s.slots /\ o.s.pending = p.s.pending
    BY <2>2, <2>3, OriginKeeps
  <2>5. DOMAIN p.s.slots = DOMAIN sched.slots /\ p.s.pending = Tail(sched.pending)
    BY <1>2 DEF p
  <2> QED BY <2>4, <2>5 DEF p
<1>6. ActiveIn(o.s) = ActiveIn(sched) /\ o.s.limit = sched.limit
  BY <1>2, <1>5 DEF Harmless
<1> HIDE DEF i, o, c
<1>7. /\ Sound(r) /\ (Tied(o) => Tied(r)) /\ ActiveIn(r.s) = ActiveIn(sched) \cup {i}
      /\ r.s.pending = Tail(sched.pending) /\ r.s.limit = sched.limit
  <2>1. i \in DOMAIN o.s.slots /\ i \notin ActiveIn(o.s)
    BY <1>0, <1>3, <1>5, <1>6
  <2>2. Sound(o) /\ c \in Command /\ c.kind \in Starting
    BY <1>4, <1>5
  <2>3. /\ Sound(r) /\ (Tied(o) => Tied(r))
        /\ ActiveIn(r.s) = ActiveIn(o.s) \cup {i}
        /\ r.s.pending = o.s.pending /\ r.s.limit = o.s.limit
    BY <2>1, <2>2, CommitKeeps
  <2> HIDE DEF r
  <2> QED BY <1>5, <1>6, <2>3
<1>8. r = Then
  <2>1. r \in States
    BY <1>7 DEF Sound
  <2> HIDE DEF r
  <2> QED BY <1>0, <2>1 DEF Then, States
<1> HIDE DEF r
<1>9. Promise!Fewer(sched'.pending, Tail(sched.pending))
  BY <1>0, <1>7, FewerSelf
<1>10. Head(sched.pending).target \in {i, None}
  BY DEF i, First
<1> QED
  BY <1>0, <1>2, <1>3, <1>5, <1>7, <1>8, <1>9, <1>10, HeadServed

LEMMA DispatchNewStep ==
  ASSUME Standing, DispatchNew
  PROVE  Keeps /\ (Watched => Serves)
<1> DEFINE r == AssignNewTask(Popped, First.task, First.request, First.id)
<1>0. /\ pc = "dispatch" /\ pc' = "dispatch" /\ UNCHANGED <<disk, left>>
      /\ sched.pending # << >> /\ ~AtLimit(sched) /\ First.target = None /\ Fits(sched)
      /\ sched' = r.s /\ lanes' = r.l
  BY Zenon DEF DispatchNew, MayDispatch
<1>1. Sound(Here)
  BY <1>0, StandsSound DEF Standing, Stands, Ending
<1>2. /\ Sound(Popped) /\ (Tied(Here) => Tied(Popped)) /\ First \in Pending
      /\ Popped.s.pending = Tail(sched.pending) /\ Popped.s.slots = sched.slots
      /\ Popped.s.limit = sched.limit /\ ActiveIn(Popped.s) = ActiveIn(sched)
      /\ Popped.s.nextSession = sched.nextSession
  BY <1>0, <1>1, PoppedFacts
<1>3. Fits(Popped.s)
  <2>1. Pristine(Popped.s) = Pristine(sched)
    BY <1>2 DEF Pristine
  <2> QED BY <1>0, <1>2, <2>1 DEF Fits, AssignSlot
<1>4. First.task \in MaybeTask /\ First.request \in MaybeTask /\ First.id \in Nat
  BY <1>2 DEF Pending
<1>5. Sound(r) /\ (Tied(Popped) => Tied(r)) /\ Takes(Popped, r)
  BY <1>2, <1>3, <1>4, AssignKeeps
<1>6. r = Then
  <2>1. r \in States
    BY <1>5 DEF Sound
  <2> HIDE DEF r
  <2> QED BY <1>0, <2>1 DEF Then, States
<1> HIDE DEF r
<1>7. PICK i \in Sessions \ ActiveIn(sched) : ActiveIn(sched') = ActiveIn(sched) \cup {i}
  BY <1>0, <1>2, <1>5 DEF Takes
<1>8. /\ sched'.limit = sched.limit
      /\ Promise!Fewer(sched'.pending, Tail(sched.pending))
  BY <1>0, <1>2, <1>5 DEF Takes
<1>9. Head(sched.pending).target \in {i, None}
  BY <1>0 DEF First
<1> QED
  BY <1>0, <1>2, <1>5, <1>6, <1>7, <1>8, <1>9, HeadServed

LEMMA DispatchDoneStep ==
  ASSUME Standing, DispatchDone
  PROVE  Keeps /\ (Watched => Serves)
<1>0. /\ pc = "dispatch" /\ pc' = "loop" /\ disk' = Persisted(sched)
      /\ UNCHANGED <<sched, lanes, left>>
  BY DEF DispatchDone
<1>1. Here.s = sched /\ Then.s = sched /\ Then = Here
  BY <1>0 DEF Here, Then
<1>2. Sound(Here) /\ left \in Lefts
  BY <1>0, StandsSound DEF Standing, Stands, Ending
<1>3. disk' \in Saves /\ disk'.pending = sched.pending
  <2>1. /\ sched.selected \in Sessions /\ sched.nextSession \in Nat
        /\ sched.pending \in Seq(Pending)
    BY <1>1, <1>2, StateTypes DEF Sound
  <2> QED BY <1>0, <2>1 DEF Persisted, Saves
<1>4. Keeps
  BY <1>0, <1>1, <1>2, <1>3, StandsSound, NextState DEF Keeps
<1>5. ASSUME Watched PROVE Serves
  <2>1. Watched'
    BY <1>0, <1>1, <1>5, NextState DEF Watched
  <2>2. UNCHANGED Promise!vars
    BY <1>0, PromiseSame
  <2>3. ~StartsAnother
    BY <1>1, CalmWithin DEF Calm
  <2> QED BY <2>1, <2>2, <2>3 DEF Serves
<1> QED
  BY <1>4, <1>5

LEMMA RestartStep ==
  ASSUME Standing, Backed, CrashAndRestart
  PROVE  Keeps /\ Serves
<1>0. /\ pc = "loop" /\ pc' = "loop" /\ disk' = disk
      /\ \A i \in Sessions : lanes[i].inbox = << >>
      /\ left.crashes > 0 /\ left' = [left EXCEPT !.crashes = @ - 1]
  BY DEF CrashAndRestart, InFlight
<1>1. Here.s = sched /\ Then.s = sched' /\ Then = [s |-> sched', l |-> lanes']
  BY NextState DEF Then
<1>2. Sound(Here) /\ disk \in Saves /\ left' \in Lefts
  <2>1. Sound(Here) /\ disk \in Saves /\ left \in Lefts
    BY <1>0, StandsSound DEF Standing, Stands, Ending
  <2>2. left' \in Lefts
    BY <1>0, <2>1, SchedulerAssumption DEF Lefts
  <2> QED BY <2>1, <2>2
<1>3. PICK holding, limit : limit \in Limits /\ Initialize(holding, limit)
  BY Zenon DEF CrashAndRestart
<1>4. /\ Sound(Then) /\ Tied(Then) /\ Calm(Here, Then)
      /\ ActiveIn(sched') \subseteq Sessions /\ Cardinality(ActiveIn(sched')) <= limit
      /\ sched'.limit = limit /\ Queued(sched'.pending) = Queued(disk.pending)
  BY <1>0, <1>1, <1>2, <1>3, RestartKeeps
<1>5. Keeps
  BY <1>0, <1>2, <1>4, StandsSound, NextState DEF Keeps
<1>6. Queued(sched'.pending) = Queued(sched.pending)
  BY <1>0, <1>4 DEF Backed
<1>7. Promise!Restart
  BY <1>3, <1>4, <1>6, SameCardinality DEF Promise!Restart, Queued
<1>8. Watched' /\ ~StartsAnother
  BY <1>0, <1>4, CalmWithin, NextState
<1> QED
  BY <1>5, <1>7, <1>8 DEF Serves, Promise!Next

LEMMA ShutdownStep ==
  ASSUME Standing, ShutdownAll
  PROVE  Keeps /\ Serves
<1>0. /\ pc' = "off" /\ lanes' = [i \in Sessions |-> NoLane]
      /\ UNCHANGED <<sched, disk, left>>
  BY DEF ShutdownAll
<1>1. Here.s = sched /\ Then.s = sched /\ Then.l = lanes'
  BY <1>0, NextState
<1>2. Stands(pc, Here, disk, left)
  BY DEF Standing
<1>3. Then \in States
  <2>1. sched \in Scheds
    BY <1>1, <1>2, StateTypes DEF Stands
  <2> QED BY <1>0, <2>1, NoLaneFacts DEF Then, States
<1>4. Away(Then) /\ Calm(Here, Then)
  BY <1>0, <1>1, NoLaneFacts DEF Away, Calm
<1>5. Stands("off", Then, disk, left)
  BY <1>1, <1>2, <1>3, <1>4 DEF Stands, Ending
<1>6. Keeps
  BY <1>0, <1>5, NextState DEF Keeps
<1>7. Watched' /\ UNCHANGED Promise!vars /\ ~StartsAnother
  BY <1>0, <1>4, PromiseSame, CalmWithin, NextState
<1> QED
  BY <1>6, <1>7 DEF Serves

\* What a handler does, seen from the specification.
LEMMA OutcomeServes ==
  ASSUME Here \in States, Then \in States, Tied(Then), Outcome(Here, Then)
  PROVE  Serves
<1>1. Promise!Next
  BY OutcomeMeans
<1>2. StartsAnother => Cardinality(Live') <= sched'.limit
  <2>1. CASE Calm(Here, Then)
    BY <2>1, CalmWithin
  <2>2. CASE ~AtLimit(sched) /\ Takes(Here, Then)
    <3>1. Here.s = sched /\ Then.s = sched'
      BY NextState
    <3>2. Cardinality(LiveIn(Then)) <= sched'.limit
      BY <2>2, <3>1, TakesWithin
    <3> QED BY <3>2, NextState
  <2>3. Here.s = sched
    BY NextState
  <2> QED BY <2>1, <2>2, <2>3 DEF Outcome, Harmless, Joins, Limited
<1>3. Watched'
  BY NextState
<1> QED
  BY <1>1, <1>2, <1>3 DEF Serves

\* A turn that begins with a command.
LEMMA ReceiveStep ==
  ASSUME Standing, NEW c, Permits(Here, c), c.kind # "typeAhead", Receive(c), left' \in Lefts
  PROVE  Keeps /\ (Watched /\ ~Unseen(Here, c) => Serves)
<1> DEFINE r == HandleCommand(Here, c)
<1>1. /\ pc = "loop" /\ pc' = IF c.kind = "quit" THEN "closing" ELSE "refresh"
      /\ sched' = r.s /\ lanes' = r.l
      /\ disk' = IF Persisted(r.s) # Persisted(sched) THEN Persisted(r.s) ELSE disk
  BY Zenon DEF Receive
<1>2. Here.s = sched /\ Sound(Here) /\ disk \in Saves
  BY <1>1, StandsSound, NextState DEF Standing, Stands, Ending
<1>3. ASSUME r \in States PROVE r = Then /\ disk' \in Saves
  <2>1. /\ r.s.selected \in Sessions /\ r.s.nextSession \in Nat
        /\ r.s.pending \in Seq(Pending)
    BY <1>3, StateTypes
  <2>2. Persisted(r.s) \in Saves
    BY <2>1 DEF Persisted, Saves
  <2> HIDE DEF r
  <2>3. r = Then
    BY <1>1, <1>3 DEF Then, States
  <2> QED BY <1>1, <1>2, <2>2, <2>3
<1>4. ASSUME c.kind = "quit" PROVE Keeps /\ (Watched => Serves)
  <2>1. r = Shutdown(Here)
    BY <1>4 DEF HandleCommand
  <2>2. /\ r \in States /\ Numbered(r.s) /\ Away(r) /\ (Tied(Here) => Tied(r))
        /\ Harmless(Here, r)
    BY <1>2, <2>1, ShutdownKeeps
  <2> HIDE DEF r
  <2>3. r = Then /\ disk' \in Saves /\ pc = "loop" /\ pc' = "closing"
    BY <1>1, <1>3, <1>4, <2>2
  <2>4. Stands("closing", Then, disk', left')
    BY <2>2, <2>3 DEF Stands, Ending
  <2>5. Keeps
    BY <2>3, <2>4, NextState DEF Keeps
  <2>6. ASSUME Watched PROVE Serves
    <3>1. Tied(Then)
      BY <2>2, <2>3, <2>6 DEF Watched
    <3> QED BY <1>2, <2>2, <2>3, <3>1, OutcomeServes DEF Sound, Outcome
  <2> QED BY <2>5, <2>6
<1>5. ASSUME c.kind # "quit" PROVE Keeps /\ (Watched /\ ~Unseen(Here, c) => Serves)
  <2>1. Sound(r) /\ (~Unseen(Here, c) => Does(Here, r))
    BY <1>2, <1>5, HandleDoes
  <2> HIDE DEF r
  <2>2. r = Then /\ disk' \in Saves /\ pc = "loop" /\ pc' = "refresh"
    BY <1>1, <1>3, <1>5, <2>1 DEF Sound
  <2>3. Stands("refresh", Then, disk', left')
    BY <2>1, <2>2, StandsSound
  <2>4. Keeps
    BY <2>2, <2>3, NextState DEF Keeps
  <2>5. ASSUME Watched, ~Unseen(Here, c) PROVE Serves
    <3>1. Does(Here, Then)
      BY <2>1, <2>2, <2>5
    <3>2. Tied(Then)
      BY <2>2, <2>5, <3>1 DEF Watched, Does
    <3> QED BY <1>2, <3>1, <3>2, OutcomeServes DEF Sound, Does
  <2> QED BY <2>4, <2>5
<1> QED
  BY <1>4, <1>5

LEMMA UserStep ==
  ASSUME Standing, UserActs
  PROVE  Keeps /\ (Watched /\ Seen => Serves)
<1>a. PICK kind \in Asked \ {"typeAhead"} : \E arg \in Possible(kind) :
        /\ TypesAhead(kind) => "typeAhead" \in Asked
        /\ Receive([kind |-> kind, arg |-> arg])
        /\ IF kind \in {"new", "submit"} THEN left' = [left EXCEPT !.fresh = @ + 1]
           ELSE left.commands > 0 /\ left' = [left EXCEPT !.commands = @ - 1]
  BY Zenon DEF UserActs
<1>1. PICK arg \in Possible(kind) :
        /\ TypesAhead(kind) => "typeAhead" \in Asked
        /\ Receive([kind |-> kind, arg |-> arg])
        /\ IF kind \in {"new", "submit"} THEN left' = [left EXCEPT !.fresh = @ + 1]
           ELSE left.commands > 0 /\ left' = [left EXCEPT !.commands = @ - 1]
  BY <1>a
<1> DEFINE c == [kind |-> kind, arg |-> arg]
<1>2. c.kind = kind /\ c.arg = arg
  OBVIOUS
<1> HIDE DEF c
<1>3. Receive(c) /\ pc = "loop" /\ (kind \in {"new", "submit"} => Fits(sched))
  <2>1. Receive(c)
    BY <1>1 DEF c
  <2> QED BY <1>2, <2>1, Zenon DEF Receive
<1>4. Here.s = sched /\ left \in Lefts
  BY NextState DEF Standing, Stands
<1>5. Permits(Here, c) /\ kind # "typeAhead"
  <2>1. kind \in Requests
    BY <1>1, SchedulerAssumption
  <2>2. kind \in {"new", "submit"} => arg \in Tasks
    BY <1>1 DEF Possible
  <2>3. kind = "limit" => arg \in Limits
    BY <1>1 DEF Possible
  <2> QED BY <1>1, <1>2, <1>3, <1>4, <2>1, <2>2, <2>3 DEF Permits
<1>6. left' \in Lefts
  <2>1. CASE kind \in {"new", "submit"}
    <3>1. left.fresh \in Tasks
      BY <1>1, <2>1 DEF Possible
    <3>2. left.fresh + 1 \in 1..(MaxTask + 1)
      BY <3>1, LaneAssumption DEF Tasks
    <3> QED BY <1>1, <1>4, <2>1, <3>2 DEF Lefts
  <2>2. CASE kind \notin {"new", "submit"}
    <3>1. left.commands - 1 \in 0..MaxCommands
      BY <1>1, <1>4, <2>2, SchedulerAssumption DEF Lefts
    <3> QED BY <1>1, <1>4, <2>2, <3>1 DEF Lefts
  <2> QED BY <2>1, <2>2
<1>7. Keeps /\ (Watched /\ ~Unseen(Here, c) => Serves)
  BY <1>2, <1>3, <1>5, <1>6, ReceiveStep
<1>8. Seen => ~Unseen(Here, c)
  BY <1>1, <1>2, <1>4 DEF Unseen, Seen, TypesAhead
<1> QED
  BY <1>7, <1>8

-----------------------------------------------------------------------------
LEMMA EveryStep ==
  ASSUME Standing, Backed, [SchedNext]_schedVars
  PROVE  Keeps /\ (Watched /\ Seen => Serves)
<1>1. ASSUME UNCHANGED schedVars PROVE Keeps /\ (Watched => Serves)
  <2>0. /\ pc' = pc /\ sched' = sched /\ lanes' = lanes /\ disk' = disk /\ left' = left
    BY <1>1 DEF schedVars
  <2>1. Then = Here
    BY <2>0 DEF Then, Here
  <2>2. Keeps
    BY <2>0, <2>1, NextState DEF Keeps, Standing, Backed
  <2>3. Watched => Watched'
    BY <2>0, <2>1, NextState DEF Watched
  <2>4. UNCHANGED Promise!vars
    BY <2>0, PromiseSame
  <2>5. ~StartsAnother
    BY <2>1, CalmWithin DEF Calm
  <2> QED BY <2>2, <2>3, <2>4, <2>5 DEF Serves
<1>2. ASSUME Turning PROVE Keeps /\ (Watched => Serves)
  BY <1>2, RefreshStep, DetachStep, DispatchTargetStep, DispatchNewStep, DispatchDoneStep,
     ShutdownStep DEF Turning, Dispatching
<1> QED
  BY <1>1, <1>2, UserStep, LaneStep, RestartStep DEF SchedNext

\* Every slot has a live worker of its own, and no two entries of the queue
\* share an id, whatever the user does and however often Longwatch is killed
\* (spawn_slot, allocate_session_id, next_pending_id, initialize).
THEOREM TypeCorrect == SchedSpec => []TypeOK
<1> DEFINE Inv == Standing /\ Backed
<1>1. SchedInit => Inv
  BY InitStands
<1>2. Inv /\ [SchedNext]_schedVars => Inv'
  BY EveryStep DEF Keeps
<1>3. Inv => TypeOK
  BY StandingMeans
<1> QED
  BY <1>1, <1>2, <1>3, PTL DEF SchedSpec

\* A worker that runs or waits for its user, with no command under way, is in
\* the list of conversations: dismiss_session and prune_finished_sessions tell
\* a worker to end before they forget it, and initialize lists all it restores.
THEOREM NothingHiddenCorrect == SchedSpec => []NothingHidden
<1> DEFINE Inv == Standing /\ Backed
<1>1. SchedInit => Inv
  BY InitStands
<1>2. Inv /\ [SchedNext]_schedVars => Inv'
  BY EveryStep DEF Keeps
<1>3. Inv => NothingHidden
  BY StandingMeans
<1> QED
  BY <1>1, <1>2, <1>3, PTL DEF SchedSpec

\* A conversation that was dismissed or pruned leaves nothing that a restart
\* would bring back, once its worker has ended (handle_shutdown clears before
\* it ends).
THEOREM DismissedStaysAwayCorrect == SchedSpec => []DismissedStaysAway
<1> DEFINE Inv == Standing /\ Backed
<1>1. SchedInit => Inv
  BY InitStands
<1>2. Inv /\ [SchedNext]_schedVars => Inv'
  BY EveryStep DEF Keeps
<1>3. Inv => DismissedStaysAway
  BY StandingMeans
<1> QED
  BY <1>1, <1>2, <1>3, PTL DEF SchedSpec

\* max_concurrent_sessions holds for the workers themselves, although the
\* scheduler decides by snapshots: reserve_for_start keeps a lane taken until
\* refresh_workers has seen the worker's request counter move past the start.
\* Without Stop, which frees the lane before the worker has heard of it, and
\* without messages typed ahead, which a worker that has just ended runs.
THEOREM WithinLimitCorrect ==
  ASSUME {"stop", "typeAhead"} \cap Asked = {}
  PROVE  SchedSpec => WithinLimit
<1> DEFINE Inv == Standing /\ Backed /\ Watched
<1>0. Seen
  BY DEF Seen
<1>1. SchedInit => Inv
  BY InitStands
<1>2. Inv /\ [SchedNext]_schedVars =>
        Inv' /\ [StartsAnother => Cardinality(Live') <= sched'.limit]_schedVars
  BY <1>0, EveryStep DEF Keeps, Serves
<1> QED
  BY <1>1, <1>2, PTL DEF SchedSpec, WithinLimit

\* The scheduler implements the queue of LaneQueue: what waits is served in
\* order, nothing is lost, repeated or reordered, and a restart brings the
\* queue back as it was (dispatch_pending, persist_scheduler, initialize).
\* With the same two exceptions.
THEOREM ServesInOrderCorrect ==
  ASSUME {"stop", "typeAhead"} \cap Asked = {}
  PROVE  SchedSpec => ServesInOrder
<1> DEFINE Inv == Standing /\ Backed /\ Watched
<1>0. Seen
  BY DEF Seen
<1>1. SchedInit => Inv
  BY InitStands
<1>2. SchedInit => Promise!Init
  <2> SUFFICES ASSUME SchedInit PROVE Promise!Init
    OBVIOUS
  <2>1. sched.pending = << >> /\ sched.limit \in Limits /\ sched.slots = [i \in {1} |-> NewSlot(Blank, FALSE, 1)]
    BY DEF SchedInit
  <2>2. ActiveIn(sched) = {}
    BY <2>1 DEF ActiveIn, Active, Running, NewSlot, Blank
  <2>3. Queued(sched.pending) = << >>
    BY <2>1 DEF Queued
  <2> QED BY <2>1, <2>2, <2>3 DEF Promise!Init, Queued
<1>3. Inv /\ [SchedNext]_schedVars => Inv' /\ [Promise!Next]_(Promise!vars)
  BY <1>0, EveryStep DEF Keeps, Serves
<1> QED
  BY <1>1, <1>2, <1>3, PTL DEF SchedSpec, ServesInOrder, Promise!Spec

=============================================================================
