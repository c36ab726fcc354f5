----------------------------- MODULE WindowProofs -----------------------------
(***************************************************************************)
(* What holds of the window, the scheduler and the workers together, for   *)
(* any number of tasks, conversations and acts of the user, however far    *)
(* his window lags behind.                                                 *)
(*                                                                         *)
(* Texts travel: from the channel into the queue or to a conversation,     *)
(* and from the queue to a conversation.  Every handler of the scheduler   *)
(* is shown to do one of three things to them: to let some go (Drops), to  *)
(* give one to a conversation (Gives), or to put one into the queue        *)
(* (Queues).                                                               *)
(***************************************************************************)
EXTENDS Window, SchedulerProofs

-----------------------------------------------------------------------------
\* Where a text is.

\* The texts that a worker has or was sent.
Texts(l) == {l.view.task, l.view.queued} \cup {l.inbox[k].task : k \in DOMAIN l.inbox}

\* The conversation has the text, or the scheduler may send it there again
\* (configure).
Has(g, i, t) ==
  \/ t \in Texts(g.l[i])
  \/ i \in DOMAIN g.s.slots /\ g.s.slots[i].snap.task = t

\* The k-th entry of the queue waits with the text.
Waits(q, k, t) == k \in DOMAIN q /\ q[k].task = t /\ ~q[k].resume

Absent(g, t) ==
  /\ \A i \in Sessions : ~Has(g, i, t)
  /\ \A k \in DOMAIN g.s.pending : ~Waits(g.s.pending, k, t)

\* Every text is in one place.
Single(g) ==
  \A t \in Tasks :
    /\ \A i, j \in Sessions : Has(g, i, t) /\ Has(g, j, t) => i = j
    /\ \A i \in Sessions, k \in DOMAIN g.s.pending :
         ~(Has(g, i, t) /\ Waits(g.s.pending, k, t))
    /\ \A j, k \in DOMAIN g.s.pending :
         Waits(g.s.pending, j, t) /\ Waits(g.s.pending, k, t) => j = k

\* The text t is nowhere but in conversation i or waits for it.
HomeAt(g, t, i) ==
  /\ \A j \in Sessions : Has(g, j, t) => j = i
  /\ \A k \in DOMAIN g.s.pending :
       Waits(g.s.pending, k, t) => g.s.pending[k].target = i

\* The scheduler has no text beyond n.
Below(g, n) ==
  \A t \in Tasks : n < t => Absent(g, t)

\* What the queue and the selection speak of exists.
Bound(s) ==
  /\ 1 \in DOMAIN s.slots /\ s.selected \in DOMAIN s.slots
  /\ \A k \in DOMAIN s.pending :
       /\ s.pending[k].target \in DOMAIN s.slots \cup {None}
       /\ s.pending[k].resume => s.pending[k].target # None

\* What a step of the scheduler does to the texts.
Answered(g, r) == r.s.processed = g.s.processed /\ r.s.placed = g.s.placed
Drops(g, r) ==
  /\ \A j \in Sessions, t \in Tasks : Has(r, j, t) => Has(g, j, t)
  /\ Promise!Fewer(r.s.pending, g.s.pending)
Gives(g, r, i, x) ==
  /\ \A j \in Sessions, t \in Tasks : Has(r, j, t) => Has(g, j, t) \/ (j = i /\ t = x)
  /\ Promise!Fewer(r.s.pending, g.s.pending)
Longer(v, w, e) ==
  \A k \in DOMAIN v : \/ k \in DOMAIN w /\ v[k] = w[k]
                      \/ k = Len(w) + 1 /\ v[k] = e
Queues(g, r, e) ==
  /\ \A j \in Sessions, t \in Tasks : Has(r, j, t) => Has(g, j, t)
  /\ e \in Pending /\ Longer(r.s.pending, g.s.pending, e)

LEMMA DropsSelf == ASSUME NEW g PROVE Drops(g, g)
BY FewerSelf DEF Drops

LEMMA DropsTwice ==
  ASSUME NEW g, NEW h, NEW r, Drops(g, h), Drops(h, r)
  PROVE  Drops(g, r)
BY FewerFewer DEF Drops

LEMMA GivesDrops ==
  ASSUME NEW g, NEW h, NEW r, NEW i, NEW x
  PROVE  /\ Drops(g, h) /\ Gives(h, r, i, x) => Gives(g, r, i, x)
         /\ Gives(g, h, i, x) /\ Drops(h, r) => Gives(g, r, i, x)
         /\ Gives(g, h, i, x) /\ Gives(h, r, i, x) => Gives(g, r, i, x)
BY FewerFewer DEF Drops, Gives

LEMMA DropsGives ==
  ASSUME NEW g, NEW r, NEW i
  PROVE  /\ Gives(g, r, i, None) => Drops(g, r)
         /\ \A x : Drops(g, r) => Gives(g, r, i, x)
BY DEF Drops, Gives, Tasks, None

\* Entries that stay are what they were.
LEMMA FewerWaits ==
  ASSUME NEW v \in Seq(Pending), NEW w \in Seq(Pending), Promise!Fewer(v, w)
  PROVE  \E f \in [DOMAIN v -> DOMAIN w] :
           /\ \A j, k \in DOMAIN v : f[j] = f[k] => j = k
           /\ \A k \in DOMAIN v : v[k] = w[f[k]]
           /\ \A k \in DOMAIN v : \A t : Waits(v, k, t) => Waits(w, f[k], t)
<1>1. PICK f \in [DOMAIN v -> DOMAIN w] :
        /\ \A j, k \in DOMAIN v : j < k => f[j] < f[k]
        /\ \A k \in DOMAIN v : v[k] = w[f[k]]
  BY DEF Promise!Fewer
<1>2. /\ \A k \in DOMAIN v : k \in Nat /\ f[k] \in Nat
  BY <1>1
<1>3. ASSUME NEW j \in DOMAIN v, NEW k \in DOMAIN v, f[j] = f[k] PROVE j = k
  <2>1. ~(j < k) /\ ~(k < j)
    BY <1>1, <1>2, <1>3
  <2> QED BY <1>2, <2>1
<1>4. \A k \in DOMAIN v : \A t : Waits(v, k, t) => Waits(w, f[k], t)
  BY <1>1 DEF Waits
<1> QED
  BY <1>1, <1>3, <1>4

LEMMA AppendLonger ==
  ASSUME NEW w \in Seq(Pending), NEW e \in Pending
  PROVE  Longer(Append(w, e), w, e)
BY DEF Longer

LEMMA LongerWaits ==
  ASSUME NEW w, NEW e, NEW v, Longer(v, w, e)
  PROVE  \A k \in DOMAIN v : \A t : Waits(v, k, t) =>
              \/ Waits(w, k, t)
              \/ k = Len(w) + 1 /\ v[k] = e /\ e.task = t /\ ~e.resume
BY DEF Longer, Waits

LEMMA GivesKeeps ==
  ASSUME NEW g \in States, NEW r \in States, NEW i \in Sessions, NEW x, Gives(g, r, i, x),
         Single(g), x \in Tasks => Absent(g, x)
  PROVE  Single(r)
<1>0. g.s.pending \in Seq(Pending) /\ r.s.pending \in Seq(Pending)
  BY StateTypes
<1>1. PICK f \in [DOMAIN r.s.pending -> DOMAIN g.s.pending] :
        /\ \A j, k \in DOMAIN r.s.pending : f[j] = f[k] => j = k
        /\ \A k \in DOMAIN r.s.pending : \A t :
             Waits(r.s.pending, k, t) => Waits(g.s.pending, f[k], t)
  <2> DEFINE v == r.s.pending
             w == g.s.pending
  <2>1. v \in Seq(Pending) /\ w \in Seq(Pending) /\ Promise!Fewer(v, w)
    BY <1>0 DEF Gives
  <2> HIDE DEF v, w
  <2>2. \E f \in [DOMAIN v -> DOMAIN w] :
           /\ \A j, k \in DOMAIN v : f[j] = f[k] => j = k
           /\ \A k \in DOMAIN v : v[k] = w[f[k]]
           /\ \A k \in DOMAIN v : \A u : Waits(v, k, u) => Waits(w, f[k], u)
    BY <2>1, FewerWaits
  <2> QED
    BY <2>2, Zenon DEF v, w
<1> SUFFICES ASSUME NEW t \in Tasks
             PROVE  /\ \A a, b \in Sessions : Has(r, a, t) /\ Has(r, b, t) => a = b
                    /\ \A a \in Sessions, k \in DOMAIN r.s.pending :
                         ~(Has(r, a, t) /\ Waits(r.s.pending, k, t))
                    /\ \A j, k \in DOMAIN r.s.pending :
                         Waits(r.s.pending, j, t) /\ Waits(r.s.pending, k, t) => j = k
  BY DEF Single
<1>2. \A j, k \in DOMAIN r.s.pending :
        Waits(r.s.pending, j, t) /\ Waits(r.s.pending, k, t) => j = k
  BY <1>1 DEF Single
<1>3. CASE t # x
  <2>1. \A a \in Sessions : Has(r, a, t) => Has(g, a, t)
    BY <1>3 DEF Gives
  <2> QED BY <1>1, <1>2, <2>1 DEF Single
<1>4. CASE t = x
  <2>1. \A a \in Sessions : Has(r, a, t) => a = i
    BY <1>4 DEF Gives, Absent
  <2>2. \A k \in DOMAIN r.s.pending : ~Waits(r.s.pending, k, t)
    BY <1>1, <1>4 DEF Absent
  <2> QED BY <2>1, <2>2
<1> QED
  BY <1>3, <1>4

LEMMA DropsKeeps ==
  ASSUME NEW g \in States, NEW r \in States, Drops(g, r), Single(g)
  PROVE  Single(r)
<1>1. 1 \in Sessions /\ None \notin Tasks /\ Gives(g, r, 1, None)
  BY SchedulerAssumption, DropsGives DEF Sessions, Tasks, None
<1> QED
  BY <1>1, GivesKeeps

LEMMA QueuesKeeps ==
  ASSUME NEW g \in States, NEW r \in States, NEW e, Queues(g, r, e), Single(g),
         e.resume \/ (e.task \in Tasks => Absent(g, e.task))
  PROVE  Single(r)
<1>0. g.s.pending \in Seq(Pending) /\ e \in Pending /\ Longer(r.s.pending, g.s.pending, e)
  BY StateTypes DEF Queues
<1> DEFINE n == Len(g.s.pending) + 1
<1>1. \A k \in DOMAIN r.s.pending : \A t : Waits(r.s.pending, k, t) =>
              \/ Waits(g.s.pending, k, t)
              \/ k = n /\ e.task = t /\ ~e.resume
  BY <1>0, LongerWaits
<1> HIDE DEF n
<1> SUFFICES ASSUME NEW t \in Tasks
             PROVE  /\ \A a, b \in Sessions : Has(r, a, t) /\ Has(r, b, t) => a = b
                    /\ \A a \in Sessions, k \in DOMAIN r.s.pending :
                         ~(Has(r, a, t) /\ Waits(r.s.pending, k, t))
                    /\ \A j, k \in DOMAIN r.s.pending :
                         Waits(r.s.pending, j, t) /\ Waits(r.s.pending, k, t) => j = k
  BY DEF Single
<1>2. \A a \in Sessions : Has(r, a, t) => Has(g, a, t)
  BY DEF Queues
<1>3. \A k : Waits(g.s.pending, k, t) => k \in DOMAIN g.s.pending
  BY DEF Waits
<1>4. CASE e.resume \/ e.task # t
  <2>1. \A k \in DOMAIN r.s.pending : Waits(r.s.pending, k, t) => Waits(g.s.pending, k, t)
    BY <1>1, <1>4
  <2> QED BY <1>2, <1>3, <2>1 DEF Single
<1>5. CASE ~e.resume /\ e.task = t
  <2>1. Absent(g, t)
    BY <1>5
  <2>2. \A k \in DOMAIN r.s.pending : Waits(r.s.pending, k, t) => k = n
    BY <1>1, <1>3, <2>1 DEF Absent
  <2>3. \A a \in Sessions : ~Has(r, a, t)
    BY <1>2, <2>1 DEF Absent
  <2> QED BY <2>2, <2>3
<1> QED
  BY <1>4, <1>5

\* The same for one text at home, and for the bound on all.
LEMMA GivesHome ==
  ASSUME NEW g \in States, NEW r \in States, NEW i \in Sessions, NEW x, Gives(g, r, i, x),
         NEW t \in Tasks, NEW h, HomeAt(g, t, h), t = x => i = h
  PROVE  HomeAt(r, t, h)
<1>0. g.s.pending \in Seq(Pending) /\ r.s.pending \in Seq(Pending)
  BY StateTypes
<1>1. PICK f \in [DOMAIN r.s.pending -> DOMAIN g.s.pending] :
        /\ \A k \in DOMAIN r.s.pending : r.s.pending[k] = g.s.pending[f[k]]
        /\ \A k \in DOMAIN r.s.pending : \A u :
             Waits(r.s.pending, k, u) => Waits(g.s.pending, f[k], u)
  <2> DEFINE v == r.s.pending
             w == g.s.pending
  <2>1. v \in Seq(Pending) /\ w \in Seq(Pending) /\ Promise!Fewer(v, w)
    BY <1>0 DEF Gives
  <2> HIDE DEF v, w
  <2>2. \E f \in [DOMAIN v -> DOMAIN w] :
           /\ \A j, k \in DOMAIN v : f[j] = f[k] => j = k
           /\ \A k \in DOMAIN v : v[k] = w[f[k]]
           /\ \A k \in DOMAIN v : \A u : Waits(v, k, u) => Waits(w, f[k], u)
    BY <2>1, FewerWaits
  <2> QED
    BY <2>2, Zenon DEF v, w
<1> QED
  BY <1>1 DEF HomeAt, Gives

LEMMA QueuesHome ==
  ASSUME NEW g \in States, NEW r \in States, NEW e, Queues(g, r, e),
         NEW t \in Tasks, NEW h, HomeAt(g, t, h), ~e.resume /\ e.task = t => e.target = h
  PROVE  HomeAt(r, t, h)
<1>0. g.s.pending \in Seq(Pending) /\ e \in Pending /\ Longer(r.s.pending, g.s.pending, e)
  BY StateTypes DEF Queues
<1>1. /\ \A k \in DOMAIN r.s.pending : \/ k \in DOMAIN g.s.pending /\ r.s.pending[k] = g.s.pending[k]
                                       \/ r.s.pending[k] = e
      /\ \A k \in DOMAIN r.s.pending : \A u : Waits(r.s.pending, k, u) =>
              \/ Waits(g.s.pending, k, u)
              \/ r.s.pending[k] = e /\ e.task = u /\ ~e.resume
  <2>1. \A k \in DOMAIN r.s.pending :
          \/ k \in DOMAIN g.s.pending /\ r.s.pending[k] = g.s.pending[k]
          \/ r.s.pending[k] = e
    BY <1>0 DEF Longer
  <2> QED BY <1>0, <2>1, LongerWaits
<1>2. \A k : Waits(g.s.pending, k, t) => k \in DOMAIN g.s.pending
  BY DEF Waits
<1>3. ASSUME NEW k \in DOMAIN r.s.pending, Waits(r.s.pending, k, t)
      PROVE  r.s.pending[k].target = h
  <2>1. CASE r.s.pending[k] = e
    BY <1>3, <2>1 DEF Waits
  <2>2. CASE k \in DOMAIN g.s.pending /\ r.s.pending[k] = g.s.pending[k]
    <3>1. Waits(g.s.pending, k, t)
      BY <1>3, <2>2 DEF Waits
    <3> QED BY <2>2, <3>1 DEF HomeAt
  <2> QED BY <1>1, <2>1, <2>2
<1> QED
  BY <1>3 DEF HomeAt, Queues

LEMMA GivesBelow ==
  ASSUME NEW g \in States, NEW r \in States, NEW i \in Sessions, NEW x, Gives(g, r, i, x),
         NEW n \in Nat, NEW m \in Nat, Below(g, n), n <= m, x \in Tasks => x <= m
  PROVE  Below(r, m)
<1>0. g.s.pending \in Seq(Pending) /\ r.s.pending \in Seq(Pending)
  BY StateTypes
<1>1. PICK f \in [DOMAIN r.s.pending -> DOMAIN g.s.pending] :
        \A k \in DOMAIN r.s.pending : \A u :
             Waits(r.s.pending, k, u) => Waits(g.s.pending, f[k], u)
  <2> DEFINE v == r.s.pending
             w == g.s.pending
  <2>1. v \in Seq(Pending) /\ w \in Seq(Pending) /\ Promise!Fewer(v, w)
    BY <1>0 DEF Gives
  <2> HIDE DEF v, w
  <2>2. \E f \in [DOMAIN v -> DOMAIN w] :
           /\ \A j, k \in DOMAIN v : f[j] = f[k] => j = k
           /\ \A k \in DOMAIN v : v[k] = w[f[k]]
           /\ \A k \in DOMAIN v : \A u : Waits(v, k, u) => Waits(w, f[k], u)
    BY <2>1, FewerWaits
  <2> QED
    BY <2>2, Zenon DEF v, w
<1> SUFFICES ASSUME NEW t \in Tasks, m < t PROVE Absent(r, t)
  BY DEF Below
<1>2. t \in Nat /\ n < t /\ t # x
  BY DEF Tasks
<1>3. Absent(g, t)
  BY <1>2 DEF Below
<1> QED
  BY <1>1, <1>2, <1>3 DEF Absent, Gives

LEMMA QueuesBelow ==
  ASSUME NEW g \in States, NEW r \in States, NEW e, Queues(g, r, e),
         NEW n \in Nat, NEW m \in Nat, Below(g, n), n <= m,
         e.resume \/ (e.task \in Tasks => e.task <= m)
  PROVE  Below(r, m)
<1>0. g.s.pending \in Seq(Pending) /\ e \in Pending /\ Longer(r.s.pending, g.s.pending, e)
  BY StateTypes DEF Queues
<1>1. \A k \in DOMAIN r.s.pending : \A u : Waits(r.s.pending, k, u) =>
              \/ Waits(g.s.pending, k, u)
              \/ e.task = u /\ ~e.resume
  BY <1>0, LongerWaits
<1> SUFFICES ASSUME NEW t \in Tasks, m < t PROVE Absent(r, t)
  BY DEF Below
<1>2. t \in Nat /\ n < t /\ (e.resume \/ t # e.task)
  BY DEF Tasks
<1>3. Absent(g, t)
  BY <1>2 DEF Below
<1>4. \A k : Waits(g.s.pending, k, t) => k \in DOMAIN g.s.pending
  BY DEF Waits
<1>5. \A k \in DOMAIN r.s.pending : ~Waits(r.s.pending, k, t)
  BY <1>1, <1>2, <1>3, <1>4 DEF Absent
<1> QED
  BY <1>3, <1>5 DEF Absent, Queues

-----------------------------------------------------------------------------
\* The workers: sending a command gives them its text, and what they do with
\* it never makes another.

LEMMA SentTexts ==
  ASSUME NEW l \in Lane, NEW c \in Command, NEW t \in Texts(Sent(l, c))
  PROVE  t \in Texts(l) \/ t = c.task
<1> DEFINE x == Sent(l, c)
           n == Len(l.inbox) + 1
<1>1. /\ x.view = l.view /\ x.inbox[n] = c /\ DOMAIN x.inbox = DOMAIN l.inbox \cup {n}
      /\ \A k \in DOMAIN l.inbox : x.inbox[k] = l.inbox[k]
  BY SentFacts
<1>2. t \in Texts(x)
  OBVIOUS
<1> HIDE DEF x, n
<1> QED
  BY <1>1, <1>2 DEF Texts

LEMMA HandledTexts ==
  ASSUME NEW l \in Lane, NEW c \in Command, NEW x \in Handled(l, c)
  PROVE  {x.view.task, x.view.queued} \subseteq {l.view.task, l.view.queued, c.task, None}
<1>0. l.view \in View
  BY DEF Lane
<1> DEFINE From == {l.view.task, l.view.queued, c.task, None}
           Fine(y) == {y.view.task, y.view.queued} \subseteq From
<1>s. \A y \in Lane : Fine(y) => Fine(Saved(y)) /\ Fine(Processed(y))
  <2> HIDE DEF From
  <2> QED BY DEF Saved, Processed, Lane, View
<1>1. CASE c.kind = "start"
  <2>0. \/ x = StartAccepted(l, c)
        \/ x = Saved(Processed(l))
    BY <1>1 DEF Handled
  <2>1. CASE x = StartAccepted(l, c)
    BY <1>0, <2>1 DEF StartAccepted, Saved, Lane, View
  <2>2. CASE x = Saved(Processed(l))
    BY <1>s, <2>2, PlainTypes
  <2> QED BY <2>0, <2>1, <2>2
<1>2. CASE c.kind = "new"
  <2>1. x = StartNewAccepted(l, c)
    BY <1>2 DEF Handled
  <2> QED
    BY <1>0, <2>1 DEF StartNewAccepted, Saved, Blank, Lane, View
<1>3. CASE c.kind = "resume"
  <2>0. \/ x = Processed(l)
        \/ x = Saved(Processed([l EXCEPT !.view.phase = "Paused"]))
        \/ x = Saved([l EXCEPT !.doing = c, !.view.phase = "Running"])
    BY <1>3 DEF Handled
  <2>1. CASE x = Processed(l)
    BY <1>s, <2>1
  <2>2. CASE x = Saved(Processed([l EXCEPT !.view.phase = "Paused"]))
    BY <1>0, <2>2 DEF Processed, Saved, Lane, View
  <2>3. CASE x = Saved([l EXCEPT !.doing = c, !.view.phase = "Running"])
    BY <1>0, <2>3 DEF Saved, Lane, View
  <2> QED BY <2>0, <2>1, <2>2, <2>3
<1>4. CASE c.kind = "queue"
  <2>0. \/ x = Saved(Processed(l))
        \/ x = Saved(Processed([l EXCEPT !.view.queued = c.task, !.view.accepted = c.request]))
    BY <1>4 DEF Handled
  <2>1. CASE x = Saved(Processed(l))
    BY <1>s, <2>1, PlainTypes
  <2>2. CASE x = Saved(Processed([l EXCEPT !.view.queued = c.task, !.view.accepted = c.request]))
    BY <1>0, <2>2 DEF Processed, Saved, Lane, View
  <2> QED BY <2>0, <2>1, <2>2
<1>5. CASE c.kind \in {"pause", "stop", "withdraw"}
  <2>0. \/ x = Saved([l EXCEPT !.view.phase = "Paused"])
        \/ x = Saved([l EXCEPT !.view.phase = "Idle", !.view.accepted = None])
        \/ x = [l EXCEPT !.view.queued = None]
    BY <1>5 DEF Handled
  <2>1. CASE x = Saved([l EXCEPT !.view.phase = "Paused"])
    BY <1>0, <2>1 DEF Saved, Lane, View
  <2>2. CASE x = Saved([l EXCEPT !.view.phase = "Idle", !.view.accepted = None])
    BY <1>0, <2>2 DEF Saved, Lane, View
  <2>3. CASE x = [l EXCEPT !.view.queued = None]
    BY <1>0, <2>3 DEF Lane, View
  <2> QED BY <2>0, <2>1, <2>2, <2>3
<1>6. CASE c.kind \in {"reset", "shutdown"}
  <2>0. \/ x = Saved([Cleared(l) EXCEPT !.conf = None])
        \/ x = ShutDown(l)
    BY <1>6 DEF Handled
  <2>1. CASE x = Saved([Cleared(l) EXCEPT !.conf = None])
    BY <1>0, <2>1 DEF Saved, Cleared, Blank, Lane, View
  <2>2. CASE x = ShutDown(l)
    BY <1>0, <2>2 DEF Saved, Cleared, ShutDown, Blank, Lane, View
  <2> QED BY <2>0, <2>1, <2>2
<1>7. CASE c.kind = "configure"
  <2>0. \/ x = Saved([l EXCEPT !.conf = c.task, !.view.task = c.task])
        \/ x = Saved([l EXCEPT !.conf = l.view.task])
    BY <1>7 DEF Handled
  <2>1. CASE x = Saved([l EXCEPT !.conf = c.task, !.view.task = c.task])
    BY <1>0, <2>1 DEF Saved, Lane, View
  <2>2. CASE x = Saved([l EXCEPT !.conf = l.view.task])
    BY <2>2 DEF Saved, Lane
  <2> QED BY <2>0, <2>1, <2>2
<1> QED
  BY <1>1, <1>2, <1>3, <1>4, <1>5, <1>6, <1>7 DEF Command, CommandKinds

LEMMA MovesTexts ==
  ASSUME NEW l \in Lane, NEW x \in Moves(l), NEW t \in Tasks, t \in Texts(x)
  PROVE  t \in Texts(l)
<1>0. l.view \in View /\ t # None
  BY DEF Lane, Tasks, None
<1>1. CASE x \in Taken(l)
  <2>1. l.inbox # << >> /\ x \in Handled([l EXCEPT !.inbox = Tail(@)], Head(l.inbox))
    BY <1>1 DEF Taken
  <2> DEFINE m == [l EXCEPT !.inbox = Tail(@)]
             c == Head(l.inbox)
  <2>2. /\ m \in Lane /\ c \in Command /\ c = l.inbox[1] /\ m.view = l.view
        /\ 1 \in DOMAIN l.inbox
        /\ \A k \in DOMAIN m.inbox : k + 1 \in DOMAIN l.inbox /\ m.inbox[k] = l.inbox[k + 1]
    BY <2>1, TakenInbox
  <2>3. x \in Handled(m, c)
    BY <2>1
  <2> HIDE DEF m, c
  <2>4. /\ x.inbox = m.inbox
        /\ {x.view.task, x.view.queued} \subseteq {l.view.task, l.view.queued, c.task, None}
    BY <2>2, <2>3, HandledTypes, HandledTexts
  <2>5. c.task \in Texts(l)
    BY <2>2 DEF Texts
  <2>6. \A k \in DOMAIN x.inbox : x.inbox[k].task \in Texts(l)
    BY <2>2, <2>4 DEF Texts
  <2> QED BY <1>0, <2>4, <2>5, <2>6 DEF Texts
<1>2. CASE x \in Finished(l)
  <2> DEFINE m(a) == [l EXCEPT !.doing = Nothing, !.view.accepted = a]
  <2>1. \E a : x = Processed(m(a))
    BY <1>2 DEF Finished
  <2>2. PICK a : x = Processed(m(a))
    BY <2>1
  <2>3. x.inbox = l.inbox /\ x.view.task = l.view.task /\ x.view.queued = l.view.queued
    BY <1>0, <2>2 DEF Processed, Lane, View
  <2> QED BY <2>3 DEF Texts
<1>3. CASE x \in Progressed(l)
  <2>1. \/ \E p \in Endings : x = [l EXCEPT !.view.phase = p]
        \/ x = [l EXCEPT !.conf = l.view.queued,
                         !.view = [@ EXCEPT !.task = l.view.queued,
                                            !.queued = None, !.accepted = None]]
    BY <1>3 DEF Progressed
  <2>2. /\ x.inbox = l.inbox
        /\ {x.view.task, x.view.queued} \subseteq {l.view.task, l.view.queued, None}
    <3>1. ASSUME NEW p \in Endings, x = [l EXCEPT !.view.phase = p]
          PROVE  x.inbox = l.inbox /\ x.view.task = l.view.task /\ x.view.queued = l.view.queued
      BY <1>0, <3>1 DEF Lane, View
    <3>2. CASE x = [l EXCEPT !.conf = l.view.queued,
                         !.view = [@ EXCEPT !.task = l.view.queued,
                                            !.queued = None, !.accepted = None]]
      BY <1>0, <3>2 DEF Lane, View
    <3> QED BY <2>1, <3>1, <3>2
  <2> QED BY <1>0, <2>2 DEF Texts
<1>4. CASE l.saved /\ x = [l EXCEPT !.saved = FALSE]
  BY <1>4 DEF Texts, Lane
<1> QED
  BY <1>1, <1>2, <1>3, <1>4 DEF Moves

-----------------------------------------------------------------------------
\* What each helper of a handler does to the texts.

\* Some texts go, or none; one may go to conversation i.
Slight(g, r) == Drops(g, r) /\ Answered(g, r) /\ (Bound(g.s) => Bound(r.s))
Lets(g, r, i, x) == Gives(g, r, i, x) /\ Answered(g, r) /\ (Bound(g.s) => Bound(r.s))

\* None moves at all.
Still(g, r) ==
  /\ r.l = g.l /\ r.s.pending = g.s.pending /\ r.s.selected = g.s.selected
  /\ Answered(g, r)
  /\ DOMAIN r.s.slots = DOMAIN g.s.slots
  /\ \A j \in DOMAIN g.s.slots : r.s.slots[j].snap = g.s.slots[j].snap

LEMMA StillSlight == ASSUME NEW g, NEW r, Still(g, r) PROVE Slight(g, r)
<1>1. \A j \in Sessions, t \in Tasks : Has(r, j, t) => Has(g, j, t)
  BY DEF Still, Has
<1>2. Promise!Fewer(r.s.pending, g.s.pending)
  BY FewerSelf DEF Still
<1> QED
  BY <1>1, <1>2 DEF Still, Slight, Drops, Bound

LEMMA SlightSelf == ASSUME NEW g PROVE Slight(g, g)
BY DropsSelf DEF Slight, Answered

LEMMA SlightTwice ==
  ASSUME NEW g, NEW h, NEW r, Slight(g, h), Slight(h, r)
  PROVE  Slight(g, r)
BY DropsTwice DEF Slight, Answered

LEMMA LetsMeans ==
  ASSUME NEW g, NEW h, NEW r, NEW i, NEW x
  PROVE  /\ Slight(g, h) /\ Lets(h, r, i, x) => Lets(g, r, i, x)
         /\ Lets(g, h, i, x) /\ Slight(h, r) => Lets(g, r, i, x)
         /\ Lets(g, h, i, x) /\ Lets(h, r, i, x) => Lets(g, r, i, x)
         /\ Lets(g, r, i, None) => Slight(g, r)
         /\ Slight(g, r) => Lets(g, r, i, x)
BY GivesDrops, DropsGives DEF Slight, Lets, Answered

LEMMA SendLets ==
  ASSUME NEW g \in States, NEW i \in Sessions, NEW c \in Command
  PROVE  Lets(g, Send(g, i, c), i, c.task)
<1> DEFINE r == Send(g, i, c)
<1>0. g.l \in [Sessions -> Lane]
  BY DEF States
<1>1. r.s = g.s /\ r.l = [g.l EXCEPT ![i] = Sent(g.l[i], c)]
  BY SendEffect
<1>2. /\ r.l[i] = Sent(g.l[i], c) /\ g.l[i] \in Lane
      /\ \A j \in Sessions : j # i => r.l[j] = g.l[j]
  BY <1>0, <1>1
<1> HIDE DEF r
<1>3. \A t : t \in Texts(r.l[i]) => t \in Texts(g.l[i]) \/ t = c.task
  BY <1>2, SentTexts
<1>4. ASSUME NEW j \in Sessions, NEW t \in Tasks, Has(r, j, t)
      PROVE  Has(g, j, t) \/ (j = i /\ t = c.task)
  BY <1>1, <1>2, <1>3, <1>4 DEF Has
<1> QED
  BY <1>1, <1>4, FewerSelf DEF r, Lets, Gives, Answered

LEMMA ReserveStill ==
  ASSUME NEW g \in States, NEW i \in DOMAIN g.s.slots
  PROVE  Reserve(g, i) \in States /\ Still(g, Reserve(g, i))
<1> DEFINE r == Reserve(g, i)
           n == g.s.counter + 1
           m == [g.s.slots EXCEPT ![i] = Reserved(g.s.slots[i], n)]
           s == [g.s EXCEPT !.counter = n, !.slots = m]
<1>0. /\ g.s \in Scheds /\ n \in Nat
      /\ g.s.slots \in SlotMaps /\ DOMAIN g.s.slots \in SUBSET Sessions
      /\ \A j \in DOMAIN g.s.slots : g.s.slots[j] \in Slot
  BY StateTypes
<1>1. g.s.slots[i] \in Slot /\ g.s.slots[i].snap.done \in Nat
  BY <1>0 DEF Slot, View
<1>2. Reserved(g.s.slots[i], n) \in Slot
      /\ Reserved(g.s.slots[i], n).snap = g.s.slots[i].snap
  BY <1>0, <1>1 DEF Reserved, Slot
<1>3. m \in SlotMaps /\ DOMAIN m = DOMAIN g.s.slots
  <2>1. m \in [DOMAIN g.s.slots -> Slot]
    BY <1>0, <1>2, SlotMap
  <2> QED BY <1>0, <2>1, SlotMap
<1>4. \A j \in DOMAIN m : m[j].snap = g.s.slots[j].snap
  BY <1>2
<1>5. r = [g EXCEPT !.s = s]
  BY <1>0 DEF Reserve, Reserved, States, Scheds
<1> HIDE DEF m, n, r
<1>6. /\ s \in Scheds /\ s.slots = m /\ s.pending = g.s.pending
      /\ s.selected = g.s.selected /\ s.processed = g.s.processed /\ s.placed = g.s.placed
  BY <1>0, <1>3 DEF Scheds
<1> HIDE DEF s
<1>7. r \in States /\ r.l = g.l /\ r.s = s
  BY <1>5, <1>6 DEF States
<1> QED
  BY <1>3, <1>4, <1>6, <1>7 DEF r, Still, Answered

LEMMA OriginStill ==
  ASSUME NEW g \in States, NEW i \in DOMAIN g.s.slots, NEW o \in Nat
  PROVE  LET r == [g EXCEPT !.s.slots[i].origin = o]
         IN r \in States /\ Still(g, r)
<1> DEFINE slot == [g.s.slots[i] EXCEPT !.origin = o]
           m == [g.s.slots EXCEPT ![i] = slot]
           r == [g EXCEPT !.s.slots[i].origin = o]
           s == [g.s EXCEPT !.slots = m]
<1>0. /\ g.s \in Scheds /\ g.s.slots \in SlotMaps /\ DOMAIN g.s.slots \in SUBSET Sessions
      /\ \A j \in DOMAIN g.s.slots : g.s.slots[j] \in Slot
  BY StateTypes
<1>1. slot \in Slot /\ slot.snap = g.s.slots[i].snap
  BY <1>0 DEF Slot
<1>2. m \in SlotMaps /\ DOMAIN m = DOMAIN g.s.slots
  <2>1. m \in [DOMAIN g.s.slots -> Slot]
    BY <1>0, <1>1, SlotMap
  <2> QED BY <1>0, <2>1, SlotMap
<1>3. \A j \in DOMAIN m : m[j].snap = g.s.slots[j].snap
  BY <1>1
<1>4. r = [g EXCEPT !.s = s]
  BY <1>0 DEF States, Scheds
<1> HIDE DEF m, slot, r
<1>5. /\ s \in Scheds /\ s.slots = m /\ s.pending = g.s.pending
      /\ s.selected = g.s.selected /\ s.processed = g.s.processed /\ s.placed = g.s.placed
  BY <1>0, <1>2 DEF Scheds
<1> HIDE DEF s
<1>6. r \in States /\ r.l = g.l /\ r.s = s
  BY <1>4, <1>5 DEF States
<1> QED
  BY <1>2, <1>3, <1>5, <1>6 DEF r, Still, Answered

\* A slot is reserved, and its worker gets a command.
LEMMA CommitLets ==
  ASSUME NEW g \in States, NEW i \in DOMAIN g.s.slots, NEW c \in Command
  PROVE  LET r == Send(Reserve(g, i), i, c)
         IN Lets(g, r, i, c.task) /\ r.s.selected = g.s.selected
<1> DEFINE h == Reserve(g, i)
           r == Send(h, i, c)
<1>1. i \in Sessions
  BY StateTypes
<1>2. h \in States /\ Still(g, h)
  BY ReserveStill
<1> HIDE DEF h
<1>3. Lets(h, r, i, c.task) /\ r.s = h.s
  BY <1>1, <1>2, SendLets, SendEffect
<1> HIDE DEF r
<1>4. Lets(g, r, i, c.task)
  BY <1>2, <1>3, StillSlight, LetsMeans
<1> QED
  BY <1>2, <1>3, <1>4 DEF r, h, Still

\* An entry joins the queue.
LEMMA EnqueueQueues ==
  ASSUME NEW g \in States, NEW task \in MaybeTask, NEW request \in MaybeTask,
         NEW target \in Sessions \cup {None}, NEW resume \in BOOLEAN
  PROVE  \E e \in Pending :
           LET r == Enqueue(g, task, request, target, resume)
           IN /\ e.task = task /\ e.target = target /\ e.resume = resume
              /\ r \in States /\ Queues(g, r, e) /\ Answered(g, r)
              /\ r.s.selected = g.s.selected
              /\ Bound(g.s) /\ target \in DOMAIN g.s.slots \cup {None}
                   /\ (resume => target # None) => Bound(r.s)
<1> DEFINE e == [id |-> g.s.nextPending, task |-> task, request |-> request,
                 target |-> target, resume |-> resume]
           q == Append(g.s.pending, e)
           s == [g.s EXCEPT !.nextPending = g.s.nextPending + 1, !.pending = q]
           r == Enqueue(g, task, request, target, resume)
<1>0. /\ g.s \in Scheds /\ g.s.pending \in Seq(Pending) /\ g.s.nextPending + 1 \in Nat
      /\ g.s.nextPending \in Nat
  BY StateTypes
<1>1. e \in Pending /\ e.task = task /\ e.target = target /\ e.resume = resume
  BY <1>0 DEF Pending
<1>2. r = [g EXCEPT !.s = s]
  BY <1>0 DEF Enqueue, States, Scheds
<1> HIDE DEF e
<1>3. q \in Seq(Pending) /\ Longer(q, g.s.pending, e)
  BY <1>0, <1>1, AppendLonger
<1> HIDE DEF q
<1>4. /\ s \in Scheds /\ s.slots = g.s.slots /\ s.pending = q
      /\ s.selected = g.s.selected /\ s.processed = g.s.processed /\ s.placed = g.s.placed
  BY <1>0, <1>3 DEF Scheds
<1> HIDE DEF s, r
<1>5. r \in States /\ r.l = g.l /\ r.s = s
  BY <1>2, <1>4 DEF States
<1>6. Queues(g, r, e) /\ Answered(g, r)
  BY <1>1, <1>3, <1>4, <1>5 DEF Queues, Has, Answered
<1>7. ASSUME Bound(g.s), target \in DOMAIN g.s.slots \cup {None}, resume => target # None
      PROVE  Bound(r.s)
  <2>1. ASSUME NEW k \in DOMAIN q
        PROVE  /\ q[k].target \in DOMAIN g.s.slots \cup {None}
               /\ q[k].resume => q[k].target # None
    <3>1. CASE k \in DOMAIN g.s.pending /\ q[k] = g.s.pending[k]
      BY <1>7, <3>1 DEF Bound
    <3>2. CASE q[k] = e
      BY <1>1, <1>7, <3>2
    <3> QED BY <1>3, <3>1, <3>2 DEF Longer
  <2> QED BY <1>4, <1>5, <1>7, <2>1 DEF Bound
<1>8. r.s.selected = g.s.selected
  BY <1>4, <1>5
<1> QED
  BY <1>1, <1>5, <1>6, <1>7, <1>8 DEF r

\* Only what was to be kept is left of a queue.
LEMMA RetainKept ==
  ASSUME NEW S, NEW q \in Seq(S), NEW kept
  PROVE  \A i \in DOMAIN Retain(q, kept) :
           \E j \in DOMAIN q : j \in kept /\ Retain(q, kept)[i] = q[j]
<1> DEFINE n == Len(q)
           From(v) == v \in Seq(S) /\ \A i \in DOMAIN v : \E j \in DOMAIN q : j \in kept /\ v[i] = q[j]
<1>0. n \in Nat /\ DOMAIN q = 1..n
  OBVIOUS
<1>1. PICK f : /\ Picks(q, kept, f, n) /\ Retain(q, kept) = f[n]
  <2>1. \E f : f = [k \in 0..n |-> IF k = 0 THEN << >>
                      ELSE IF k \in kept THEN Append(f[k - 1], q[k]) ELSE f[k - 1]]
    <3>1. PICK f : Picks(q, kept, f, n)
      BY <1>0, PicksExist
    <3> QED
      BY <3>1 DEF Picks, Pick
  <2> QED
    BY <2>1 DEF Retain, Picks, Pick
<1>e. From(<< >>)
  OBVIOUS
<1>a. ASSUME NEW v, From(v), NEW j \in DOMAIN q, j \in kept PROVE From(Append(v, q[j]))
  <2> DEFINE w == Append(v, q[j])
  <2>1. v \in Seq(S) /\ q[j] \in S
    BY <1>a
  <2>2. w \in Seq(S) /\ \A i \in DOMAIN w : w[i] = q[j] \/ (i \in DOMAIN v /\ w[i] = v[i])
    BY <2>1
  <2> HIDE DEF w
  <2>3. From(w)
    BY <1>a, <2>2
  <2> QED BY <2>3 DEF w
<1> HIDE DEF n, From
<1>2. \A k \in 0..n : f[k] = Pick(q, kept, f, k)
  BY <1>1 DEF Picks
<1> DEFINE P == {k \in 0..n : From(f[k])}
<1>p. P \in SUBSET (0..n) /\ \A k \in 0..n : k \in P <=> From(f[k])
  OBVIOUS
<1> HIDE DEF P
<1>3. 0 \in P
  <2>1. 0 \in 0..n /\ f[0] = << >>
    BY <1>0, <1>2 DEF Pick
  <2> QED BY <1>e, <1>p, <2>1
<1>4. ASSUME NEW m \in P, m < n PROVE m + 1 \in P
  <2>0. m + 1 \in 1..n /\ m + 1 \in 0..n /\ m \in Nat /\ m + 1 - 1 = m /\ From(f[m])
    BY <1>0, <1>4, <1>p
  <2>1. f[m + 1] = IF m + 1 \in kept THEN Append(f[m], q[m + 1]) ELSE f[m]
    BY <1>0, <1>2, <2>0 DEF Pick
  <2>2. CASE m + 1 \in kept
    <3>1. m + 1 \in DOMAIN q
      BY <1>0, <2>0
    <3>2. From(Append(f[m], q[m + 1]))
      BY <1>a, <2>0, <2>2, <3>1
    <3> QED BY <1>p, <2>0, <2>1, <2>2, <3>2
  <2>3. CASE m + 1 \notin kept
    BY <1>p, <2>0, <2>1, <2>3
  <2> QED BY <2>2, <2>3
<1>5. From(f[n])
  BY <1>0, <1>3, <1>4, <1>p, UpTo
<1> QED
  BY <1>1, <1>5 DEF From

\* Entries leave the queue.
LEMMA RetainSlight ==
  ASSUME NEW g \in States, NEW kept
  PROVE  LET r == [g EXCEPT !.s.pending = Retain(@, kept)]
         IN /\ r \in States /\ Slight(g, r) /\ r.l = g.l /\ r.s.slots = g.s.slots
            /\ r.s.selected = g.s.selected /\ r.s.pending = Retain(g.s.pending, kept)
<1> DEFINE q == Retain(g.s.pending, kept)
           s == [g.s EXCEPT !.pending = q]
           r == [g EXCEPT !.s.pending = Retain(@, kept)]
<1>0. g.s \in Scheds /\ g.s.pending \in Seq(Pending)
  BY StateTypes
<1>1. q \in Seq(Pending) /\ Promise!Fewer(q, g.s.pending)
  BY <1>0, RetainFewer
<1>2. \A k \in DOMAIN q : \E j \in DOMAIN g.s.pending : q[k] = g.s.pending[j]
  BY <1>0, RetainKept
<1>3. r = [g EXCEPT !.s = s]
  BY <1>0 DEF States, Scheds
<1>q. q = Retain(g.s.pending, kept)
  OBVIOUS
<1> HIDE DEF q, r
<1>4. /\ s \in Scheds /\ s.slots = g.s.slots /\ s.pending = q
      /\ s.selected = g.s.selected /\ s.processed = g.s.processed /\ s.placed = g.s.placed
  BY <1>0, <1>1 DEF Scheds
<1> HIDE DEF s
<1>5. r \in States /\ r.l = g.l /\ r.s = s
  BY <1>3, <1>4 DEF States
<1>6. Drops(g, r) /\ Answered(g, r)
  BY <1>1, <1>4, <1>5 DEF Drops, Has, Answered
<1>7. Bound(g.s) => Bound(r.s)
  BY <1>2, <1>4, <1>5 DEF Bound
<1> QED
  BY <1>4, <1>5, <1>6, <1>7, <1>q DEF r, Slight

\* dismiss_session: what is bound to the conversation leaves with it.
LEMMA DismissSlight ==
  ASSUME NEW g, Sound(g), NEW i
  PROVE  LET r == DismissSession(g, i)
         IN Slight(g, r) /\ (g.s.selected # i => r.s.selected = g.s.selected)
<1>1. CASE i \notin DOMAIN g.s.slots \/ Active(g.s.slots[i])
  <2>1. DismissSession(g, i) = g
    BY <1>1 DEF DismissSession
  <2> QED BY <2>1, SlightSelf
<1>2. CASE i \in DOMAIN g.s.slots /\ ~Active(g.s.slots[i])
  <2> DEFINE c == Cmd(IF i = 1 THEN "reset" ELSE "shutdown", None, None)
             u == Unqueue(g, i)
             f == Farewell(u, i)
             gone == [f EXCEPT !.s.slots = IF i = 1 THEN [@ EXCEPT ![1].origin = 0]
                                           ELSE Without(@, i)]
             others == {j \in DOMAIN gone.s.slots \ {i} : HasHistory(gone.s.slots[j])}
             newest == CHOOSE j \in others :
                         \A k \in others : gone.s.slots[j].order >= gone.s.slots[k].order
             to == IF others = {} THEN 1 ELSE newest
  <2>0. g \in States /\ i \in Sessions /\ c \in Command /\ c.task = None
        /\ g.s.pending \in Seq(Pending)
    BY <1>2, StateTypes
       DEF Sound, Cmd, Command, CommandKinds, MaybeTask, None
  <2>1. /\ u \in States /\ Slight(g, u) /\ u.l = g.l /\ u.s.slots = g.s.slots
        /\ u.s.selected = g.s.selected
        /\ u.s.pending = Retain(g.s.pending, {k \in DOMAIN g.s.pending : g.s.pending[k].target # i})
    BY <2>0, RetainSlight DEF Unqueue
  <2>2. \A k \in DOMAIN u.s.pending : u.s.pending[k].target # i
    BY <2>0, <2>1, RetainKept
  <2>3. f = Send(u, i, c)
    BY DEF Farewell
  <2> HIDE DEF c, u, f
  <2>4. Slight(u, f) /\ f.s = u.s /\ f \in States
    <3>1. f \in States /\ f.s = u.s
      BY <2>0, <2>1, <2>3, SendEffect
    <3>2. Lets(u, f, i, None)
      BY <2>0, <2>1, <2>3, SendLets
    <3> QED BY <3>1, <3>2, LetsMeans
  <2>5. Slight(g, f) /\ i \in DOMAIN f.s.slots
    BY <1>2, <2>1, <2>4, SlightTwice
  <2>6. /\ gone.l = f.l /\ gone.s.pending = f.s.pending /\ gone.s.selected = f.s.selected
        /\ Answered(f, gone) /\ gone \in States
        /\ DOMAIN gone.s.slots \subseteq DOMAIN f.s.slots
        /\ \A j \in DOMAIN f.s.slots : j = 1 \/ j # i => j \in DOMAIN gone.s.slots
        /\ \A j \in DOMAIN gone.s.slots : gone.s.slots[j].snap = f.s.slots[j].snap
    <3>1. CASE i = 1
      <4>1. gone = [f EXCEPT !.s.slots[1].origin = 0]
        BY <3>1
      <4>2. 1 \in DOMAIN f.s.slots /\ 0 \in Nat
        BY <2>5, <3>1
      <4> HIDE DEF gone
      <4>3. gone \in States /\ Still(f, gone)
        BY <2>4, <4>1, <4>2, OriginStill
      <4> QED BY <4>3 DEF Still
    <3>2. CASE i # 1
      <4> DEFINE m == Without(f.s.slots, i)
                 s == [f.s EXCEPT !.slots = m]
      <4>0. f.s \in Scheds /\ f.s.slots \in SlotMaps /\ DOMAIN f.s.slots \in SUBSET Sessions
            /\ \A j \in DOMAIN f.s.slots : f.s.slots[j] \in Slot
        BY <2>4, StateTypes
      <4>1. gone = [f EXCEPT !.s = s]
        BY <2>4, <3>2, <4>0 DEF States, Scheds
      <4>2. DOMAIN m = DOMAIN f.s.slots \ {i} /\ \A j \in DOMAIN m : m[j] = f.s.slots[j]
        BY DEF Without
      <4>3. m \in SlotMaps
        <5>1. m \in [DOMAIN f.s.slots \ {i} -> Slot]
          BY <4>0 DEF Without
        <5> QED BY <4>0, <5>1, SlotMap
      <4> HIDE DEF gone, m
      <4>4. /\ s \in Scheds /\ s.slots = m /\ s.pending = f.s.pending
            /\ s.selected = f.s.selected /\ s.processed = f.s.processed
            /\ s.placed = f.s.placed
        BY <4>0, <4>3 DEF Scheds
      <4> HIDE DEF s
      <4>5. gone \in States /\ gone.l = f.l /\ gone.s = s
        BY <2>4, <4>1, <4>4 DEF States
      <4> QED BY <3>2, <4>2, <4>4, <4>5 DEF Answered
    <3> QED BY <3>1, <3>2
  <2> HIDE DEF gone
  <2>7. Drops(g, gone) /\ Answered(g, gone)
    <3>1. Drops(f, gone)
      BY <2>6, FewerSelf DEF Drops, Has
    <3> QED BY <2>5, <2>6, <3>1, DropsTwice DEF Slight, Answered
  <2>8. to \in others \/ to = 1
    <3>1. CASE others = {}
      BY <3>1
    <3>2. CASE others # {}
      <4>0. MaxSession \in Nat /\ others \in SUBSET (1..MaxSession)
            /\ \A j \in others : gone.s.slots[j] \in Slot
        BY <2>6, StateTypes, SchedulerAssumption DEF Sessions
      <4> DEFINE o == [j \in others |-> gone.s.slots[j].order]
      <4>1. \A j \in others : o[j] \in Int /\ o[j] = gone.s.slots[j].order
        BY <4>0 DEF Slot
      <4> HIDE DEF o, others
      <4>2. \E j \in others : \A k \in others : o[j] >= o[k]
        BY <3>2, <4>0, <4>1, Best
      <4>3. \E j \in others : \A k \in others : gone.s.slots[j].order >= gone.s.slots[k].order
        BY <4>1, <4>2
      <4>4. newest \in others
        BY <4>3
      <4> QED BY <3>2, <4>4
    <3> QED BY <3>1, <3>2
  <2> DEFINE moved == [gone EXCEPT !.s.selected = to]
  <2>9. to \in DOMAIN gone.s.slots \/ to = 1
    BY <2>8
  <2> HIDE DEF to
  <2>10. DismissSession(g, i) = IF g.s.selected # i THEN gone ELSE moved
    BY <1>2 DEF DismissSession, gone, f, u, to
  <2>11. /\ moved.l = gone.l /\ moved.s.pending = gone.s.pending
         /\ moved.s.slots = gone.s.slots /\ Answered(gone, moved) /\ moved.s.selected = to
    BY <2>6 DEF States, Scheds, Answered
  <2> HIDE DEF moved
  <2>12. ASSUME Bound(g.s)
         PROVE  /\ g.s.selected # i => Bound(gone.s)
                /\ Bound(moved.s)
    <3>1. Bound(f.s) /\ 1 \in DOMAIN f.s.slots /\ 1 \in DOMAIN gone.s.slots
      BY <2>5, <2>6, <2>12 DEF Slight, Bound
    <3>2. \A k \in DOMAIN gone.s.pending :
            /\ gone.s.pending[k].target \in DOMAIN gone.s.slots \cup {None}
            /\ gone.s.pending[k].resume => gone.s.pending[k].target # None
      BY <2>2, <2>4, <2>6, <3>1 DEF Bound
    <3>3. g.s.selected # i => gone.s.selected \in DOMAIN gone.s.slots
      BY <2>1, <2>4, <2>6, <3>1 DEF Bound
    <3> QED BY <2>9, <2>11, <3>1, <3>2, <3>3 DEF Bound
  <2>13. Drops(g, moved) /\ Answered(g, moved)
    <3>1. Drops(gone, moved)
      BY <2>11, FewerSelf DEF Drops, Has
    <3> QED BY <2>7, <2>11, <3>1, DropsTwice DEF Answered
  <2>14. g.s.selected # i => gone.s.selected = g.s.selected
    BY <2>1, <2>4, <2>6
  <2> QED
    BY <2>7, <2>10, <2>12, <2>13, <2>14 DEF Slight
<1> QED
  BY <1>1, <1>2

LEMMA DismissAllSlight ==
  ASSUME NEW g, Sound(g), NEW ids
  PROVE  LET r == DismissAll(g, ids)
         IN Slight(g, r) /\ (g.s.selected \notin ids => r.s.selected = g.s.selected)
<1> DEFINE n == MaxSession
           Fine(r) == /\ Sound(r) /\ Slight(g, r)
                      /\ g.s.selected \notin ids => r.s.selected = g.s.selected
<1>0. n \in Nat
  BY SchedulerAssumption
<1>1. PICK f : Dismisses(g, ids, f, n) /\ DismissAll(g, ids) = f[n]
  <2>1. \E f : f = [k \in 0..n |-> IF k = 0 THEN g
                      ELSE IF k \in ids THEN DismissSession(f[k - 1], k) ELSE f[k - 1]]
    <3>1. PICK f : Dismisses(g, ids, f, n)
      BY <1>0, DismissesExist
    <3> QED
      BY <3>1 DEF Dismisses, Next1
  <2> QED
    BY <2>1 DEF DismissAll, Dismisses, Next1
<1>e. Fine(g)
  BY SlightSelf
<1>a. ASSUME NEW h, Fine(h), NEW k \in ids PROVE Fine(DismissSession(h, k))
  <2> DEFINE r == DismissSession(h, k)
  <2>1. Sound(r)
    BY <1>a, DismissKeeps DEF Spares
  <2>2. Slight(h, r) /\ (h.s.selected # k => r.s.selected = h.s.selected)
    BY <1>a, DismissSlight
  <2> HIDE DEF r
  <2>3. Slight(g, r)
    BY <1>a, <2>2, SlightTwice
  <2>4. g.s.selected \notin ids => r.s.selected = g.s.selected
    BY <1>a, <2>2
  <2> QED BY <2>1, <2>3, <2>4 DEF r
<1> HIDE DEF n, Fine
<1>2. \A k \in 0..n : f[k] = Next1(g, ids, f, k)
  BY <1>1 DEF Dismisses
<1> DEFINE P == {k \in 0..n : Fine(f[k])}
<1>p. P \in SUBSET (0..n) /\ \A k \in 0..n : k \in P <=> Fine(f[k])
  OBVIOUS
<1> HIDE DEF P
<1>3. 0 \in P
  <2>1. 0 \in 0..n /\ f[0] = g
    BY <1>0, <1>2 DEF Next1
  <2> QED BY <1>e, <1>p, <2>1
<1>4. ASSUME NEW m \in P, m < n PROVE m + 1 \in P
  <2>0. m + 1 \in 0..n /\ m \in Nat /\ m + 1 # 0 /\ (m + 1) - 1 = m /\ Fine(f[m])
    BY <1>0, <1>4, <1>p
  <2>1. f[m + 1] = IF m + 1 \in ids THEN DismissSession(f[m], m + 1) ELSE f[m]
    BY <1>2, <2>0 DEF Next1
  <2>2. Fine(f[m + 1])
    BY <1>a, <2>0, <2>1
  <2> QED BY <1>p, <2>0, <2>2
<1>5. Fine(f[n])
  BY <1>0, <1>3, <1>4, <1>p, UpTo
<1> QED
  BY <1>1, <1>5 DEF Fine

\* prune_finished_sessions never dismisses the selected conversation.
LEMMA PruneSlight ==
  ASSUME NEW g, Sound(g)
  PROVE  LET r == PruneFinishedSessions(g)
         IN Slight(g, r) /\ r.s.selected = g.s.selected
<1> DEFINE finished == {i \in DOMAIN g.s.slots \ {g.s.selected} : IsFinished(g.s.slots[i])}
           newer(i) == {j \in finished : g.s.slots[j].order > g.s.slots[i].order}
           ids == {i \in finished : Cardinality(newer(i)) >= MaxFinished}
<1>1. PruneFinishedSessions(g) = DismissAll(g, ids)
  BY DEF PruneFinishedSessions
<1>2. g.s.selected \notin ids
  OBVIOUS
<1> HIDE DEF ids
<1> QED
  BY <1>1, <1>2, DismissAllSlight

\* spawn_slot: the text is that of the new conversation.
LEMMA SpawnLets ==
  ASSUME NEW g, Sound(g), g.s.nextSession \in Sessions, NEW task \in MaybeTask
  PROVE  LET r == SpawnSlot(g, task)
         IN Lets(g, r, g.s.nextSession, task) /\ r.s.selected = g.s.selected
<1> DEFINE i == g.s.nextSession
           lane == SpawnLane(task)
           slot == NewSlot(lane.view, FALSE, g.s.counter + 1)
           m == With(g.s.slots, i, slot)
           n == g.s.counter + 1
           s == [g.s EXCEPT !.nextSession = i + 1, !.counter = n, !.slots = m]
           r == SpawnSlot(g, task)
<1>0. /\ g \in States /\ i \in Sessions /\ g.s \in Scheds /\ n \in Nat /\ i + 1 \in Nat
      /\ g.s.slots \in SlotMaps /\ DOMAIN g.s.slots \in SUBSET Sessions
      /\ \A j \in DOMAIN g.s.slots : g.s.slots[j] \in Slot
      /\ g.l \in [Sessions -> Lane]
  BY StateTypes DEF Sound
<1>1. lane \in Lane /\ slot \in Slot
  BY <1>0, SpawnedFacts DEF n
<1>2. slot.snap.task = task /\ \A t \in Tasks : t \in Texts(lane) => t = task
  <2>1. /\ lane.inbox = << >> /\ lane.view.task = task /\ lane.view.queued = None
        /\ slot.snap = lane.view
    BY DEF SpawnLane, NoLane, Blank, NewSlot
  <2>2. DOMAIN lane.inbox = {} /\ None \notin Tasks
    BY <2>1 DEF Tasks, None
  <2> QED BY <2>1, <2>2 DEF Texts
<1> HIDE DEF lane, slot
<1>3. /\ DOMAIN m = DOMAIN g.s.slots \cup {i} /\ m[i] = slot
      /\ \A j \in DOMAIN m : j # i => j \in DOMAIN g.s.slots /\ m[j] = g.s.slots[j]
  BY DEF With
<1>4. m \in SlotMaps
  <2>1. m \in [DOMAIN g.s.slots \cup {i} -> Slot]
    BY <1>0, <1>1, <1>3 DEF With
  <2> QED BY <1>0, <2>1, SlotMap
<1>5. r = [g EXCEPT !.s = s, !.l = [g.l EXCEPT ![i] = lane]]
  BY <1>0 DEF SpawnSlot, States, Scheds, lane, slot
<1> HIDE DEF m, n, r
<1>6. /\ s.slots = m /\ s.pending = g.s.pending
      /\ s.selected = g.s.selected /\ s.processed = g.s.processed /\ s.placed = g.s.placed
  BY <1>0 DEF Scheds
<1> HIDE DEF s
<1>7. r.l = [g.l EXCEPT ![i] = lane] /\ r.s = s
  BY <1>0, <1>5 DEF States
<1>8. r.l[i] = lane /\ \A j \in Sessions : j # i => r.l[j] = g.l[j]
  BY <1>0, <1>7
<1>9. ASSUME NEW j \in Sessions, NEW t \in Tasks, Has(r, j, t)
      PROVE  Has(g, j, t) \/ (j = i /\ t = task)
  BY <1>2, <1>3, <1>6, <1>7, <1>8, <1>9 DEF Has
<1>10. Bound(g.s) => Bound(r.s)
  BY <1>3, <1>6, <1>7 DEF Bound
<1> QED
  BY <1>6, <1>7, <1>9, <1>10, FewerSelf DEF r, Lets, Gives, Answered

\* assign_new_task.
LEMMA AssignLets ==
  ASSUME NEW g, Sound(g), Fits(g.s), NEW task \in MaybeTask, NEW request \in MaybeTask,
         NEW origin \in Nat
  PROVE  LET r == AssignNewTask(g, task, request, origin)
             i == AssignSlot(g.s)
         IN /\ Sound(r) /\ Lets(g, r, i, task) /\ r.s.selected = g.s.selected
            /\ i \in DOMAIN r.s.slots /\ i \in Sessions
<1> DEFINE i == AssignSlot(g.s)
           g1 == IF i \in DOMAIN g.s.slots THEN g ELSE SpawnSlot(g, task)
           g2 == [g1 EXCEPT !.s.slots[i].origin = origin]
           c == Cmd("new", task, request)
           g3 == Send(Reserve(g2, i), i, c)
           r == PruneFinishedSessions(g3)
<1>0. /\ i \in Sessions /\ i \notin ActiveIn(g.s)
      /\ i \in DOMAIN g.s.slots \/ i = g.s.nextSession
  BY AssignSlotFree
<1>1. c \in Command /\ c.kind \in Starting /\ c.task = task
  BY CommandTypes DEF CommandKinds, Starting, Cmd
<1>r. AssignNewTask(g, task, request, origin) = r
  BY DEF AssignNewTask
<1>s. Sound(AssignNewTask(g, task, request, origin))
      /\ ActiveIn(AssignNewTask(g, task, request, origin).s) = ActiveIn(g.s) \cup {i}
  BY AssignKeeps
<1> HIDE DEF i, c
<1>2. Sound(g1) /\ ActiveIn(g1.s) = ActiveIn(g.s) /\ i \in DOMAIN g1.s.slots
      /\ Lets(g, g1, i, task) /\ g1.s.selected = g.s.selected
  <2>1. CASE i \in DOMAIN g.s.slots
    BY <2>1, SlightSelf, LetsMeans
  <2>2. CASE i \notin DOMAIN g.s.slots
    <3>1. i = g.s.nextSession /\ g1 = SpawnSlot(g, task)
      BY <1>0, <2>2
    <3>2. Spares(g, g1) /\ i \in DOMAIN g1.s.slots
      BY <1>0, <3>1, SpawnKeeps
    <3>3. Lets(g, g1, i, task) /\ g1.s.selected = g.s.selected
      BY <1>0, <3>1, SpawnLets
    <3> QED BY <3>2, <3>3 DEF Spares, Harmless
  <2> QED BY <2>1, <2>2
<1> HIDE DEF g1
<1>3. Sound(g2) /\ ActiveIn(g2.s) = ActiveIn(g.s) /\ i \in DOMAIN g2.s.slots /\ Still(g1, g2)
  BY <1>2, OriginKeeps, OriginStill DEF Harmless, Sound
<1> HIDE DEF g2
<1>4. Sound(g3)
  BY <1>0, <1>1, <1>3, CommitKeeps
<1>5. Lets(g2, g3, i, task) /\ g3.s.selected = g2.s.selected
  BY <1>1, <1>3, CommitLets DEF Sound
<1> HIDE DEF g3
<1>6. Slight(g3, r) /\ r.s.selected = g3.s.selected
  BY <1>4, PruneSlight
<1> HIDE DEF r
<1>7. Lets(g, g2, i, task)
  BY <1>2, <1>3, StillSlight, LetsMeans
<1>8. Lets(g, g3, i, task)
  BY <1>5, <1>7, LetsMeans
<1>9. Lets(g, r, i, task) /\ r.s.selected = g.s.selected
  BY <1>2, <1>3, <1>5, <1>6, <1>8, LetsMeans DEF Still
<1> QED
  BY <1>0, <1>9, <1>r, <1>s DEF i, ActiveIn

-----------------------------------------------------------------------------
\* The commands.

\* The text x goes to a conversation of to, or waits for one (None: for a fresh
\* one).
Travels(g, r, x, to) ==
  \/ \E i \in Sessions \cap to : Gives(g, r, i, x)
  \/ \E e : Queues(g, r, e) /\ ~e.resume /\ e.task = x /\ e.target \in to

\* Only what is no text changes.
Apart(g, r) == r.l = g.l /\ r.s.slots = g.s.slots /\ r.s.pending = g.s.pending

LEMMA ApartTravels ==
  ASSUME NEW g, NEW h, NEW r, NEW x, NEW to, Travels(g, h, x, to), Apart(h, r)
  PROVE  Travels(g, r, x, to)
<1>1. \A j \in Sessions, t \in Tasks : Has(r, j, t) <=> Has(h, j, t)
  BY DEF Apart, Has
<1>2. r.s.pending = h.s.pending
  BY DEF Apart
<1>3. \A i : Gives(g, h, i, x) => Gives(g, r, i, x)
  BY <1>1, <1>2 DEF Gives
<1>4. \A e : Queues(g, h, e) => Queues(g, r, e)
  BY <1>1, <1>2 DEF Queues
<1> QED
  BY <1>3, <1>4 DEF Travels

\* The answer to the window.
LEMMA PlaceAnswers ==
  ASSUME NEW g \in States, NEW r \in Tasks, NEW session \in Sessions \cup {None},
         NEW n \in Nat
  PROVE  LET p == Place(g, r, session, n)
             a == Acknowledge(g, r)
         IN /\ p \in States /\ Apart(g, p) /\ p.s.processed = g.s.processed
            /\ p.s.placed.request = r /\ p.s.selected = g.s.selected
            /\ a \in States /\ Apart(g, a) /\ a.s.processed = Larger(g.s.processed, r)
            /\ a.s.selected = g.s.selected
<1>0. g.s \in Scheds /\ r \in MaybeTask /\ r # None
  BY StateTypes DEF Tasks, MaybeTask, None
<1> DEFINE p == Place(g, r, session, n)
           a == Acknowledge(g, r)
           q == [request |-> r, session |-> session, pending |-> n]
<1>1. p \in States /\ a \in States /\ Apart(g, p) /\ Apart(g, a)
  BY <1>0, PlaceAside DEF Aside, Apart
<1>2. p = [g EXCEPT !.s.placed = q]
  BY <1>0 DEF Place
<1>3. p.s.processed = g.s.processed /\ p.s.placed = q /\ p.s.selected = g.s.selected
  <2> HIDE DEF q
  <2> QED BY <1>0, <1>2 DEF States, Scheds
<1>4. /\ a.s.processed = Larger(g.s.processed, r) /\ a.s.selected = g.s.selected
  BY <1>0 DEF Acknowledge, States, Scheds
<1> QED
  BY <1>1, <1>3, <1>4

LEMMA EnqueueAnsweredTravels ==
  ASSUME NEW g \in States, NEW x \in Tasks, NEW target \in Sessions \cup {None}
  PROVE  LET r == EnqueueAnswered(g, x, x, target)
         IN /\ Travels(g, r, x, {target}) /\ r.s.placed.request = x
            /\ r.s.processed = Larger(g.s.processed, x)
            /\ Bound(g.s) /\ target \in DOMAIN g.s.slots \cup {None} => Bound(r.s)
<1> DEFINE h == Enqueue(g, x, x, target, FALSE)
           a == Acknowledge(h, x)
           r == Place(a, x, None, g.s.nextPending)
<1>0. x \in MaybeTask /\ g.s.nextPending \in Nat /\ None \in Sessions \cup {None}
  BY StateTypes DEF MaybeTask
<1>f. \E e \in Pending :
        /\ e.task = x /\ e.target = target /\ e.resume = FALSE
        /\ h \in States /\ Queues(g, h, e) /\ Answered(g, h)
        /\ h.s.selected = g.s.selected
        /\ Bound(g.s) /\ target \in DOMAIN g.s.slots \cup {None}
             /\ (FALSE => target # None) => Bound(h.s)
  <2>1. FALSE \in BOOLEAN
    OBVIOUS
  <2> QED BY <1>0, <2>1, EnqueueQueues
<1> HIDE DEF h
<1>1. PICK e \in Pending :
        /\ e.task = x /\ e.target = target /\ e.resume = FALSE
        /\ h \in States /\ Queues(g, h, e) /\ Answered(g, h)
        /\ h.s.selected = g.s.selected
        /\ Bound(g.s) /\ target \in DOMAIN g.s.slots \cup {None} => Bound(h.s)
  BY <1>f
<1>2. /\ a \in States /\ Apart(h, a) /\ a.s.processed = Larger(h.s.processed, x)
      /\ a.s.selected = h.s.selected
  BY <1>0, <1>1, PlaceAnswers
<1> HIDE DEF a
<1> DEFINE n == g.s.nextPending
           nowhere == None
<1>n. n \in Nat /\ nowhere \in Sessions \cup {None} /\ r = Place(a, x, nowhere, n)
  BY <1>0
<1> HIDE DEF n, nowhere, r
<1>3. /\ Apart(a, r) /\ r.s.processed = a.s.processed
      /\ r.s.placed.request = x /\ r.s.selected = a.s.selected
  <2>1. a \in States
    BY <1>2
  <2>2. \A y \in States : \A v \in Sessions \cup {None}, m \in Nat :
          LET p == Place(y, x, v, m)
          IN /\ Apart(y, p) /\ p.s.processed = y.s.processed
             /\ p.s.placed.request = x /\ p.s.selected = y.s.selected
    BY PlaceAnswers
  <2> QED BY <2>1, <2>2, <1>n
<1> HIDE DEF r
<1>4. Travels(g, h, x, {target})
  BY <1>1 DEF Travels
<1>5. Travels(g, r, x, {target})
  BY <1>2, <1>3, <1>4, ApartTravels
<1>6. r.s.slots = h.s.slots /\ r.s.pending = h.s.pending /\ r.s.selected = h.s.selected
  BY <1>2, <1>3 DEF Apart
<1>7. Bound(h.s) => Bound(r.s)
  BY <1>6 DEF Bound
<1>8. r.s.processed = Larger(g.s.processed, x)
  BY <1>1, <1>2, <1>3 DEF Answered
<1> QED
  BY <1>1, <1>3, <1>5, <1>7, <1>8 DEF r, a, h, EnqueueAnswered

LEMMA StartNewTravels ==
  ASSUME NEW g, Sound(g), Fits(g.s), NEW x \in Tasks
  PROVE  LET r == StartNewTask(g, x, x)
         IN /\ Travels(g, r, x, Sessions \cup {None}) /\ r.s.placed.request = x
            /\ r.s.processed = Larger(g.s.processed, x)
            /\ Bound(g.s) => Bound(r.s)
<1>0. g \in States /\ x \in MaybeTask /\ 0 \in Nat
  BY DEF Sound, MaybeTask
<1>1. CASE AtLimit(g.s)
  <2> DEFINE r == StartNewTask(g, x, x)
  <2>1. r = EnqueueAnswered(g, x, x, None) /\ None \in Sessions \cup {None}
    BY <1>1 DEF StartNewTask
  <2> HIDE DEF r
  <2>2. /\ Travels(g, r, x, {None}) /\ r.s.placed.request = x
        /\ r.s.processed = Larger(g.s.processed, x)
        /\ Bound(g.s) => Bound(r.s)
    BY <1>0, <2>1, EnqueueAnsweredTravels
  <2>3. Travels(g, r, x, Sessions \cup {None})
    BY <2>2 DEF Travels
  <2> QED BY <2>2, <2>3 DEF r
<1>2. CASE ~AtLimit(g.s)
  <2> DEFINE i == AssignSlot(g.s)
             g1 == AssignNewTask(g, x, x, 0)
             g2 == [g1 EXCEPT !.s.selected = i]
             a == Acknowledge(g2, x)
             r == Place(a, x, i, 0)
  <2>1. Sound(g1) /\ Lets(g, g1, i, x) /\ i \in DOMAIN g1.s.slots /\ i \in Sessions
    BY <1>0, AssignLets
  <2>r. StartNewTask(g, x, x) = r
    BY <1>2 DEF StartNewTask
  <2> HIDE DEF g1, i
  <2>2. /\ g2 \in States /\ Apart(g1, g2) /\ g2.s.processed = g1.s.processed
        /\ g2.s.selected = i
    <3>1. g1 \in States /\ g1.s \in Scheds
      BY <2>1, StateTypes DEF Sound
    <3> QED BY <2>1, <3>1 DEF States, Scheds, Apart
  <2> HIDE DEF g2
  <2>3. /\ a \in States /\ Apart(g2, a) /\ a.s.processed = Larger(g2.s.processed, x)
        /\ a.s.selected = i
    BY <1>0, <2>1, <2>2, PlaceAnswers
  <2> HIDE DEF a
  <2>4. /\ Apart(a, r) /\ r.s.processed = a.s.processed
        /\ r.s.placed.request = x /\ r.s.selected = i
    BY <1>0, <2>1, <2>3, PlaceAnswers
  <2> HIDE DEF r
  <2>5. Travels(g, g1, x, Sessions \cup {None})
    BY <2>1 DEF Travels, Lets
  <2>6. Apart(g1, r)
    BY <2>2, <2>3, <2>4 DEF Apart
  <2>7. Travels(g, r, x, Sessions \cup {None})
    BY <2>5, <2>6, ApartTravels
  <2>8. Bound(g.s) => Bound(r.s)
    BY <2>1, <2>4, <2>6 DEF Lets, Apart, Bound
  <2>9. r.s.processed = Larger(g.s.processed, x)
    BY <2>1, <2>2, <2>3, <2>4 DEF Lets, Answered
  <2> QED BY <2>4, <2>7, <2>8, <2>9, <2>r
<1> QED
  BY <1>1, <1>2

\* start_configured: the text stays with the selected conversation.
LEMMA StartConfiguredTravels ==
  ASSUME NEW g, Sound(g), NEW x \in Tasks, g.s.selected \in DOMAIN g.s.slots
  PROVE  LET r == StartConfigured(g, x, x)
         IN /\ Travels(g, r, x, {g.s.selected}) /\ r.s.placed.request = x
            /\ r.s.processed \in {g.s.processed, Larger(g.s.processed, x)}
            /\ Bound(g.s) => Bound(r.s)
<1> DEFINE i == g.s.selected
           r == StartConfigured(g, x, x)
<1>0. /\ i \in Sessions /\ i \in DOMAIN g.s.slots /\ i \in Sessions \cup {None} /\ 0 \in Nat
      /\ g \in States /\ x \in MaybeTask
  BY StateTypes DEF Sound, MaybeTask
\* A command with the text is sent to it.
<1>1. ASSUME NEW h, h \in States, Lets(g, h, i, x), h.s.selected = g.s.selected,
             r = Place(h, x, i, 0)
      PROVE  /\ Travels(g, r, x, {i}) /\ r.s.placed.request = x
             /\ r.s.processed = g.s.processed
             /\ Bound(g.s) => Bound(r.s)
  <2> HIDE DEF r, i
  <2>1. /\ Apart(h, r) /\ r.s.processed = h.s.processed
        /\ r.s.placed.request = x /\ r.s.selected = h.s.selected
    BY <1>0, <1>1, PlaceAnswers
  <2>2. Travels(g, h, x, {i})
    BY <1>0, <1>1 DEF Travels, Lets
  <2>3. Travels(g, r, x, {i})
    BY <2>1, <2>2, ApartTravels
  <2>4. Bound(g.s) => Bound(r.s)
    BY <1>1, <2>1 DEF Lets, Apart, Bound
  <2>5. r.s.processed = g.s.processed
    BY <1>1, <2>1 DEF Lets, Answered
  <2> QED BY <2>1, <2>3, <2>4, <2>5
<1>2. CASE i \in ActiveIn(g.s)
  <2> DEFINE c == Cmd("queue", x, x)
             h == Send(g, i, c)
  <2>1. r = Place(h, x, i, 0)
    BY <1>0, <1>2 DEF StartConfigured
  <2>2. c \in Command /\ c.task = x
    BY <1>0, CommandTypes DEF CommandKinds, Cmd
  <2> HIDE DEF c
  <2>3. h \in States /\ Lets(g, h, i, x) /\ h.s = g.s
    BY <1>0, <2>2, SendLets, SendEffect
  <2> HIDE DEF h, r
  <2> QED BY <1>1, <2>1, <2>3 DEF r
<1>3. CASE i \notin ActiveIn(g.s) /\ AtLimit(g.s)
  <2>1. r = EnqueueAnswered(g, x, x, i)
    BY <1>0, <1>3 DEF StartConfigured
  <2> HIDE DEF r
  <2> QED BY <1>0, <2>1, EnqueueAnsweredTravels DEF r
<1>4. CASE i \notin ActiveIn(g.s) /\ ~AtLimit(g.s)
  <2> DEFINE c == Cmd("start", x, x)
             h == Send(Reserve(g, i), i, c)
  <2>1. r = Place(h, x, i, 0)
    BY <1>0, <1>4 DEF StartConfigured
  <2>2. c \in Command /\ c.task = x
    BY <1>0, CommandTypes DEF CommandKinds, Cmd
  <2> HIDE DEF c
  <2>3. Lets(g, h, i, x) /\ h.s.selected = g.s.selected
    BY <1>0, <2>2, CommitLets
  <2>4. h \in States
    BY <1>0, <2>2, ReserveStill, SendEffect
  <2> HIDE DEF h, r
  <2> QED BY <1>1, <2>1, <2>3, <2>4 DEF r
<1> QED
  BY <1>2, <1>3, <1>4

\* Pause and ClearQueuedMessage, and the first half of Stop.
LEMMA ForwardSlight ==
  ASSUME NEW g \in States, NEW kind \in {"pause", "withdraw", "stop"}
  PROVE  LET r == Forward(g, kind) IN Slight(g, r) /\ r \in States /\ r.s = g.s
<1> DEFINE i == g.s.selected
           c == Cmd(kind, None, None)
           r == Forward(g, kind)
<1>1. CASE i \notin DOMAIN g.s.slots
  <2>1. r = g
    BY <1>1 DEF Forward
  <2> QED BY <2>1, SlightSelf
<1>2. CASE i \in DOMAIN g.s.slots
  <2>1. r = Send(g, i, c)
    BY <1>2 DEF Forward
  <2>2. c \in Command /\ c.task = None /\ i \in Sessions
    <3>1. c \in Command /\ c.task = None
      BY CommandTypes DEF CommandKinds, MaybeTask, Cmd
    <3> QED BY <3>1, StateTypes
  <2> HIDE DEF r, c, i
  <2>3. Lets(g, r, i, None) /\ r \in States /\ r.s = g.s
    BY <2>1, <2>2, SendLets, SendEffect
  <2> QED BY <2>3, LetsMeans DEF r
<1> QED
  BY <1>1, <1>2

\* Stop.
LEMMA StopSlight == ASSUME NEW g \in States PROVE Slight(g, Stop(g))
<1> DEFINE i == g.s.selected
           h == Forward(g, "stop")
           slot == [h.s.slots[i] EXCEPT !.assigned = FALSE, !.base = NoBase]
           m == [h.s.slots EXCEPT ![i] = slot]
           r == [h EXCEPT !.s.slots[i].assigned = FALSE, !.s.slots[i].base = NoBase]
<1>1. CASE i \notin DOMAIN g.s.slots
  BY <1>1, SlightSelf DEF Stop
<1>2. CASE i \in DOMAIN g.s.slots
  <2>1. Slight(g, h) /\ h \in States /\ h.s = g.s
    BY ForwardSlight
  <2> HIDE DEF h
  <2>2. /\ i \in DOMAIN h.s.slots /\ h.s \in Scheds
        /\ \A j \in DOMAIN h.s.slots : h.s.slots[j] \in Slot
    BY <1>2, <2>1, StateTypes
  <2>3. slot.snap = h.s.slots[i].snap
    BY <2>2 DEF Slot
  <2>4. /\ DOMAIN m = DOMAIN h.s.slots
        /\ \A j \in DOMAIN h.s.slots : m[j].snap = h.s.slots[j].snap
    BY <2>2, <2>3
  <2>5. r = [h EXCEPT !.s = [h.s EXCEPT !.slots = m]]
    <3> DEFINE half == [h.s.slots[i] EXCEPT !.assigned = FALSE]
               n == [h.s.slots EXCEPT ![i] = half]
               q == [h EXCEPT !.s = [h.s EXCEPT !.slots = n]]
    <3>1. r = [q EXCEPT !.s.slots[i].base = NoBase]
      BY Zenon
    <3>2. /\ q.s = [h.s EXCEPT !.slots = n] /\ q.s.slots = n
          /\ [q EXCEPT !.s = [h.s EXCEPT !.slots = m]] = [h EXCEPT !.s = [h.s EXCEPT !.slots = m]]
      BY <2>1, <2>2 DEF States, Scheds
    <3>3. r = [q EXCEPT !.s = [q.s EXCEPT !.slots = [q.s.slots EXCEPT ![i] = [q.s.slots[i] EXCEPT !.base = NoBase]]]]
      BY <3>1, Zenon
    <3>4. n[i] = half /\ [n EXCEPT ![i] = [half EXCEPT !.base = NoBase]] = m
      BY <2>2
    <3>5. [q.s EXCEPT !.slots = m] = [h.s EXCEPT !.slots = m]
      <4> HIDE DEF q, n, m, half, slot, r
      <4>1. q.s = [h.s EXCEPT !.slots = n]
        BY <3>2
      <4> QED
        BY <2>2, <4>1 DEF Scheds
    <3>6. [q.s.slots EXCEPT ![i] = [q.s.slots[i] EXCEPT !.base = NoBase]] = m
      <4> HIDE DEF q, half, m
      <4> QED
        BY <3>2, <3>4, Zenon
    <3> HIDE DEF q, n, half, m, r, slot
    <3>7. r = [q EXCEPT !.s = [q.s EXCEPT !.slots = m]]
      BY <3>3, <3>6, Zenon
    <3> QED
      BY <3>2, <3>5, <3>7, Zenon
  <2> HIDE DEF m, slot
  <2> HIDE DEF r
  <2>6. /\ r.l = h.l /\ r.s.slots = m /\ r.s.pending = h.s.pending
        /\ r.s.selected = h.s.selected /\ Answered(h, r)
    BY <2>1, <2>2, <2>5 DEF States, Scheds, Answered
  <2>7. Still(h, r)
    BY <2>4, <2>6 DEF Still
  <2>8. Slight(g, r)
    BY <2>1, <2>7, StillSlight, SlightTwice
  <2>9. Stop(g) = r
    BY <1>2 DEF Stop, r, h
  <2> QED BY <2>8, <2>9
<1> QED
  BY <1>1, <1>2

LEMMA SelectSlight == ASSUME NEW g \in States, NEW i PROVE Slight(g, SelectSession(g, i))
<1>1. CASE i \notin DOMAIN g.s.slots
  BY <1>1, SlightSelf DEF SelectSession
<1>2. CASE i \in DOMAIN g.s.slots
  <2> DEFINE r == [g EXCEPT !.s.selected = i]
  <2>1. /\ r.l = g.l /\ r.s.slots = g.s.slots /\ r.s.pending = g.s.pending
        /\ r.s.selected = i /\ Answered(g, r)
    BY StateTypes DEF States, Scheds, Answered
  <2>2. SelectSession(g, i) = r
    BY <1>2 DEF SelectSession
  <2> HIDE DEF r
  <2>3. Drops(g, r)
    BY <2>1, FewerSelf DEF Drops, Has
  <2>4. Bound(g.s) => Bound(r.s)
    BY <1>2, <2>1 DEF Bound
  <2> QED BY <2>1, <2>2, <2>3, <2>4 DEF Slight
<1> QED
  BY <1>1, <1>2

\* configure: a worker gets the text that was last seen there.
LEMMA ConfigureSlight ==
  ASSUME NEW g \in States, NEW limit \in Limits
  PROVE  Slight(g, Configure(g, limit))
<1> DEFINE c(i) == Cmd("configure", g.s.slots[i].snap.task, None)
           L == [i \in Sessions |-> IF i \in DOMAIN g.s.slots THEN Sent(g.l[i], c(i))
                                    ELSE g.l[i]]
           r == Configure(g, limit)
<1>0. /\ g.l \in [Sessions -> Lane] /\ DOMAIN g.s.slots \in SUBSET Sessions
      /\ \A i \in DOMAIN g.s.slots : g.s.slots[i] \in Slot
      /\ g.s \in Scheds
  BY StateTypes
<1>1. r = [g EXCEPT !.s.limit = limit, !.l = L]
  BY <1>0, Zenon DEF Configure
<1>2. ASSUME NEW i \in DOMAIN g.s.slots PROVE c(i) \in Command /\ c(i).task = g.s.slots[i].snap.task
  <2>1. g.s.slots[i].snap.task \in MaybeTask
    BY <1>0 DEF Slot, View
  <2> QED BY <2>1 DEF Cmd, Command, CommandKinds, MaybeTask
<1>3. ASSUME NEW i \in Sessions, NEW t \in Texts(L[i])
      PROVE  t \in Texts(g.l[i]) \/ (i \in DOMAIN g.s.slots /\ g.s.slots[i].snap.task = t)
  <2>1. CASE i \notin DOMAIN g.s.slots
    BY <1>3, <2>1
  <2>2. CASE i \in DOMAIN g.s.slots
    <3>1. g.l[i] \in Lane /\ t \in Texts(Sent(g.l[i], c(i)))
      BY <1>0, <1>3, <2>2
    <3>2. c(i) \in Command /\ c(i).task = g.s.slots[i].snap.task
      BY <1>2, <2>2
    <3> HIDE DEF c
    <3>3. t \in Texts(g.l[i]) \/ t = c(i).task
      BY <3>1, <3>2, SentTexts
    <3> QED BY <2>2, <3>2, <3>3
  <2> QED BY <2>1, <2>2
<1> HIDE DEF L, r
<1>4. /\ r.l = L /\ r.s.slots = g.s.slots /\ r.s.pending = g.s.pending
      /\ r.s.selected = g.s.selected /\ Answered(g, r)
  BY <1>0, <1>1 DEF States, Scheds, Answered
<1>5. Drops(g, r)
  BY <1>3, <1>4, FewerSelf DEF Drops, Has
<1> QED
  BY <1>4, <1>5 DEF r, Slight, Bound

LEMMA ShutdownSlight == ASSUME NEW g \in States PROVE Slight(g, Shutdown(g))
<1> DEFINE c == Cmd("shutdown", None, None)
           L == [i \in Sessions |-> IF i \in DOMAIN g.s.slots THEN Sent(g.l[i], c)
                                    ELSE g.l[i]]
           r == Shutdown(g)
<1>0. g.l \in [Sessions -> Lane] /\ g.s \in Scheds
  BY StateTypes
<1>1. r = [g EXCEPT !.s.pending = << >>, !.s.selected = 1, !.s.nextSession = 2, !.l = L]
  BY <1>0, Zenon DEF Shutdown
<1>2. c \in Command /\ c.task = None
  BY DEF Cmd, Command, CommandKinds, MaybeTask
<1>3. ASSUME NEW i \in Sessions, NEW t \in Tasks, t \in Texts(L[i])
      PROVE  t \in Texts(g.l[i])
  <2>1. CASE i \notin DOMAIN g.s.slots
    BY <1>3, <2>1
  <2>2. CASE i \in DOMAIN g.s.slots
    <3>1. g.l[i] \in Lane /\ t \in Texts(Sent(g.l[i], c))
      BY <1>0, <1>3, <2>2
    <3> HIDE DEF c
    <3>3. t \in Texts(g.l[i]) \/ t = None
      BY <1>2, <3>1, SentTexts
    <3> QED BY <3>3 DEF Tasks, None
  <2> QED BY <2>1, <2>2
<1> HIDE DEF L, r
<1>4. /\ r.l = L /\ r.s.slots = g.s.slots /\ r.s.pending = << >>
      /\ r.s.selected = 1 /\ Answered(g, r)
  BY <1>0, <1>1 DEF States, Scheds, Answered
<1>5. Promise!Fewer(<< >>, g.s.pending) /\ DOMAIN << >> = {}
  <2>1. << >> \in [{} -> DOMAIN g.s.pending] /\ DOMAIN << >> = {}
    OBVIOUS
  <2> QED BY <2>1 DEF Promise!Fewer
<1>6. Drops(g, r)
  BY <1>3, <1>4, <1>5 DEF Drops, Has
<1>7. Bound(g.s) => Bound(r.s)
  BY <1>4, <1>5 DEF Bound
<1> QED
  BY <1>4, <1>6, <1>7 DEF r, Slight

\* No text moves, but for those that go; an entry that resumes may join.
Settles(g, r) ==
  /\ Answered(g, r)
  /\ Drops(g, r) \/ \E e : Queues(g, r, e) /\ e.resume

\* Resume.
LEMMA ResumeSettles ==
  ASSUME NEW g \in States
  PROVE  LET r == StartOrQueueSelected(g)
         IN Settles(g, r) /\ (Bound(g.s) => Bound(r.s))
<1> DEFINE i == g.s.selected
           r == StartOrQueueSelected(g)
<1>1. CASE r = g
  BY <1>1, SlightSelf DEF Settles, Slight
<1>2. CASE /\ i \in DOMAIN g.s.slots
           /\ r = Enqueue(g, g.s.slots[i].snap.task, None, i, TRUE)
  <2> DEFINE task == g.s.slots[i].snap.task
  <2>1. task \in MaybeTask /\ i \in Sessions /\ i # None
    <3>1. g.s.slots[i] \in Slot /\ i \in Sessions
      BY <1>2, StateTypes
    <3> QED BY <3>1 DEF Slot, View, Sessions, None
  <2>2. None \in MaybeTask /\ TRUE \in BOOLEAN
    BY DEF MaybeTask
  <2>3. r = Enqueue(g, task, None, i, TRUE) /\ i \in DOMAIN g.s.slots
    BY <1>2
  <2> HIDE DEF r, task
  <2>4. \E e \in Pending :
          /\ e.resume = TRUE /\ Queues(g, r, e) /\ Answered(g, r)
          /\ Bound(g.s) /\ i \in DOMAIN g.s.slots \cup {None}
               /\ (TRUE => i # None) => Bound(r.s)
    <3>1. ASSUME NEW x1 \in MaybeTask, NEW x2 \in MaybeTask,
                 NEW to \in Sessions \cup {None}, NEW b \in BOOLEAN
          PROVE  \E e \in Pending :
                   LET x == Enqueue(g, x1, x2, to, b)
                   IN /\ e.task = x1 /\ e.target = to /\ e.resume = b
                      /\ x \in States /\ Queues(g, x, e) /\ Answered(g, x)
                      /\ x.s.selected = g.s.selected
                      /\ Bound(g.s) /\ to \in DOMAIN g.s.slots \cup {None}
                           /\ (b => to # None) => Bound(x.s)
      BY EnqueueQueues
    <3>2. i \in Sessions \cup {None}
      BY <2>1
    <3> HIDE DEF i
    <3>3. \E e \in Pending :
            LET x == Enqueue(g, task, None, i, TRUE)
            IN /\ e.task = task /\ e.target = i /\ e.resume = TRUE
               /\ x \in States /\ Queues(g, x, e) /\ Answered(g, x)
               /\ x.s.selected = g.s.selected
               /\ Bound(g.s) /\ i \in DOMAIN g.s.slots \cup {None}
                    /\ (TRUE => i # None) => Bound(x.s)
      BY <2>1, <2>2, <3>1, <3>2
    <3> QED BY <2>3, <3>3
  <2> QED BY <2>1, <2>3, <2>4 DEF Settles, r
<1>3. CASE /\ i \in DOMAIN g.s.slots
           /\ r = Send(Reserve(g, i), i, Cmd("resume", None, None))
  <2> DEFINE c == Cmd("resume", None, None)
  <2>1. c \in Command /\ c.task = None
    BY CommandTypes DEF CommandKinds, MaybeTask, Cmd
  <2>2. r = Send(Reserve(g, i), i, c)
    BY <1>3
  <2> HIDE DEF r, c
  <2>3. Lets(g, r, i, None)
    BY <1>3, <2>1, <2>2, CommitLets
  <2>4. Slight(g, r)
    BY <2>3, LetsMeans
  <2> QED BY <2>4 DEF r, Settles, Slight
<1>4. \/ r = g
      \/ i \in DOMAIN g.s.slots /\ r = Enqueue(g, g.s.slots[i].snap.task, None, i, TRUE)
      \/ i \in DOMAIN g.s.slots /\ r = Send(Reserve(g, i), i, Cmd("resume", None, None))
  BY DEF StartOrQueueSelected
<1> QED
  BY <1>1, <1>2, <1>3, <1>4

\* The commands that carry a text.
Submissions == {"new", "submit"}

\* handle_command.
LEMMA HandleTexts ==
  ASSUME NEW g, Sound(g), Bound(g.s), NEW c, Permits(g, c), c.kind # "typeAhead"
  PROVE  LET r == HandleCommand(g, c)
         IN /\ Bound(r.s)
            /\ c.kind \in Submissions /\ g.s.processed < c.arg =>
                 /\ Travels(g, r, c.arg, IF c.kind = "new" THEN Sessions \cup {None}
                                         ELSE {g.s.selected})
                 /\ r.s.processed = c.arg /\ r.s.placed.request = c.arg
            /\ c.kind \notin Submissions => Settles(g, r)
<1> DEFINE r == HandleCommand(g, c)
<1>0. g \in States /\ g.s.processed \in MaybeTask /\ g.s.selected \in DOMAIN g.s.slots
  BY StateTypes DEF Sound, Bound
<1>s. ASSUME Slight(g, r), c.kind \notin Submissions PROVE Bound(r.s) /\ Settles(g, r)
  BY <1>s DEF Slight, Settles
<1>t. ASSUME NEW h \in States, c.arg \in Tasks, NEW to, Travels(g, h, c.arg, to),
             h.s.placed.request = c.arg, Bound(h.s), c.kind \in Submissions,
             h.s.processed \in {g.s.processed, Larger(g.s.processed, c.arg)},
             r = [h EXCEPT !.s.processed = Larger(@, c.arg)]
      PROVE  /\ Bound(r.s) /\ Travels(g, r, c.arg, to) /\ r.s.placed.request = c.arg
             /\ g.s.processed < c.arg => r.s.processed = c.arg
  <2> HIDE DEF r
  <2>0. h.s \in Scheds
    BY <1>t, StateTypes
  <2>1. /\ Apart(h, r) /\ r.s.selected = h.s.selected /\ r.s.placed = h.s.placed
        /\ r.s.processed = Larger(h.s.processed, c.arg)
    BY <1>t, <2>0 DEF States, Scheds, Apart
  <2>2. Travels(g, r, c.arg, to)
    BY <1>t, <2>1, ApartTravels
  <2>3. Bound(r.s)
    BY <1>t, <2>1 DEF Apart, Bound
  <2>4. g.s.processed < c.arg => r.s.processed = c.arg
    BY <1>0, <1>t, <2>1 DEF Larger, Tasks, MaybeTask, None
  <2> QED BY <1>t, <2>1, <2>2, <2>3, <2>4
<1>1. CASE c.kind = "new"
  <2> DEFINE h == StartNewTask(g, c.arg, c.arg)
  <2>1. c.arg \in MaybeTask /\ c.arg \in Tasks /\ Fits(g.s)
    BY <1>1 DEF Permits, MaybeTask
  <2>2. Does(g, h)
    BY <2>1, StartNewDoes
  <2>3. r = [h EXCEPT !.s.processed = Larger(@, c.arg)]
    BY <1>1 DEF HandleCommand, StartNewConfigured
  <2>4. /\ Travels(g, h, c.arg, Sessions \cup {None}) /\ h.s.placed.request = c.arg
        /\ h.s.processed = Larger(g.s.processed, c.arg) /\ Bound(h.s)
    BY <2>1, StartNewTravels
  <2> HIDE DEF h, r
  <2>5. h \in States
    BY <2>2 DEF Does, Sound
  <2>6. /\ Bound(r.s) /\ Travels(g, r, c.arg, Sessions \cup {None})
        /\ r.s.placed.request = c.arg
        /\ g.s.processed < c.arg => r.s.processed = c.arg
    BY <1>1, <1>t, <2>1, <2>3, <2>4, <2>5 DEF Submissions
  <2> QED BY <1>1, <2>6 DEF r, Submissions
<1>2. CASE c.kind = "submit"
  <2> DEFINE h == StartConfigured(g, c.arg, c.arg)
  <2>1. c.arg \in MaybeTask /\ c.arg \in Tasks /\ Fits(g.s)
    BY <1>2 DEF Permits, MaybeTask
  <2>2. Sound(h)
    BY <2>1, StartConfiguredDoes
  <2>3. r = [h EXCEPT !.s.processed = Larger(@, c.arg)]
    BY <1>2 DEF HandleCommand, SubmitConfigured
  <2>4. /\ Travels(g, h, c.arg, {g.s.selected}) /\ h.s.placed.request = c.arg
        /\ h.s.processed \in {g.s.processed, Larger(g.s.processed, c.arg)} /\ Bound(h.s)
    BY <1>0, <2>1, StartConfiguredTravels
  <2> HIDE DEF h, r
  <2>5. h \in States
    BY <2>2 DEF Sound
  <2>6. /\ Bound(r.s) /\ Travels(g, r, c.arg, {g.s.selected})
        /\ r.s.placed.request = c.arg
        /\ g.s.processed < c.arg => r.s.processed = c.arg
    BY <1>2, <1>t, <2>1, <2>3, <2>4, <2>5 DEF Submissions
  <2> QED BY <1>2, <2>6 DEF r, Submissions
<1>3. CASE c.kind = "resume"
  <2>1. Settles(g, r) /\ Bound(r.s)
    BY <1>0, <1>3, ResumeSettles DEF HandleCommand
  <2> QED BY <1>3, <2>1 DEF Submissions
<1>4. CASE c.kind \in {"pause", "withdraw"}
  <2>1. r = Forward(g, c.kind)
    BY <1>4 DEF HandleCommand
  <2>2. Slight(g, r)
    BY <1>0, <1>4, <2>1, ForwardSlight
  <2> QED BY <1>4, <1>s, <2>2 DEF Submissions
<1>5. CASE c.kind = "stop"
  <2>1. r = Stop(g)
    BY <1>5 DEF HandleCommand
  <2> QED BY <1>0, <1>5, <1>s, <2>1, StopSlight DEF Submissions
<1>6. CASE c.kind = "select"
  <2>1. r = SelectSession(g, c.arg)
    BY <1>6 DEF HandleCommand
  <2> QED BY <1>0, <1>6, <1>s, <2>1, SelectSlight DEF Submissions
<1>7. CASE c.kind = "cancel"
  <2>1. r = CancelPending(g, c.arg)
    BY <1>7 DEF HandleCommand
  <2>2. Slight(g, CancelPending(g, c.arg))
    BY <1>0, RetainSlight DEF CancelPending
  <2> QED BY <1>7, <1>s, <2>1, <2>2 DEF Submissions
<1>8. CASE c.kind = "dismiss"
  <2>1. r = DismissSession(g, c.arg)
    BY <1>8 DEF HandleCommand
  <2>2. Slight(g, DismissSession(g, c.arg))
    BY DismissSlight
  <2> QED BY <1>8, <1>s, <2>1, <2>2 DEF Submissions
<1>9. CASE c.kind = "clear"
  <2>1. r = ClearFinished(g)
    BY <1>9 DEF HandleCommand
  <2>2. Slight(g, ClearFinished(g))
    BY DismissAllSlight DEF ClearFinished
  <2> QED BY <1>9, <1>s, <2>1, <2>2 DEF Submissions
<1>10. CASE c.kind = "limit"
  <2>1. r = Configure(g, c.arg) /\ c.arg \in Limits
    BY <1>10 DEF HandleCommand, Permits
  <2>2. Slight(g, r)
    BY <1>0, <2>1, ConfigureSlight
  <2> QED BY <1>10, <1>s, <2>2 DEF Submissions
<1>11. CASE c.kind = "quit"
  <2>1. r = Shutdown(g)
    BY <1>11 DEF HandleCommand
  <2> QED BY <1>0, <1>11, <1>s, <2>1, ShutdownSlight DEF Submissions
<1> QED
  BY <1>1, <1>2, <1>3, <1>4, <1>5, <1>6, <1>7, <1>8, <1>9, <1>10, <1>11
     DEF Permits, Requests

-----------------------------------------------------------------------------
\* What a step of the scheduler keeps.

\* Every text stays in one place, at home, and none is new.
Carries(g, r) ==
  /\ Single(r)
  /\ \A t \in Tasks, h \in Sessions : HomeAt(g, t, h) => HomeAt(r, t, h)
  /\ \A n \in Nat : Below(g, n) => Below(r, n)

\* The window is told nothing, and the selection stays.
Quietly(g, r) == Answered(g, r) /\ r.s.selected = g.s.selected /\ Bound(r.s)

LEMMA DropsCarries ==
  ASSUME NEW g \in States, NEW r \in States, Drops(g, r), Single(g)
  PROVE  Carries(g, r)
<1>1. 1 \in Sessions /\ None \notin Tasks /\ Gives(g, r, 1, None)
  BY SchedulerAssumption, DropsGives DEF Sessions, Tasks, None
<1>2. Single(r)
  BY DropsKeeps
<1>3. \A t \in Tasks, h \in Sessions : HomeAt(g, t, h) => HomeAt(r, t, h)
  BY <1>1, GivesHome
<1>4. ASSUME NEW n \in Nat, Below(g, n) PROVE Below(r, n)
  <2>1. n <= n
    OBVIOUS
  <2> QED BY <1>1, <1>4, <2>1, GivesBelow
<1> QED
  BY <1>2, <1>3, <1>4 DEF Carries

LEMMA SettlesCarries ==
  ASSUME NEW g \in States, NEW r \in States, Settles(g, r), Single(g)
  PROVE  Carries(g, r)
<1>1. CASE Drops(g, r)
  BY <1>1, DropsCarries
<1>2. ASSUME NEW e, Queues(g, r, e), e.resume PROVE Carries(g, r)
  <2>1. Single(r)
    BY <1>2, QueuesKeeps
  <2>2. \A t \in Tasks, h \in Sessions : HomeAt(g, t, h) => HomeAt(r, t, h)
    BY <1>2, QueuesHome
  <2>3. ASSUME NEW n \in Nat, Below(g, n) PROVE Below(r, n)
    <3>1. n <= n
      OBVIOUS
    <3> QED BY <1>2, <2>3, <3>1, QueuesBelow
  <2> QED BY <2>1, <2>2, <2>3 DEF Carries
<1> QED
  BY <1>1, <1>2 DEF Settles

\* A text that the scheduler did not have arrives.
LEMMA TravelsKeeps ==
  ASSUME NEW g \in States, NEW r \in States, NEW x \in Tasks, NEW to, Travels(g, r, x, to),
         Single(g), NEW n \in Nat, Below(g, n), n < x
  PROVE  /\ Single(r) /\ Below(r, x)
         /\ \A t \in Tasks, h \in Sessions :
              (t # x /\ HomeAt(g, t, h)) \/ (t = x /\ to = {h}) => HomeAt(r, t, h)
<1>0. x \in Nat /\ n <= x /\ x <= x /\ Absent(g, x)
  BY DEF Below, Tasks
<1>h. \A h : HomeAt(g, x, h)
  BY <1>0 DEF HomeAt, Absent
<1>1. ASSUME NEW i \in Sessions \cap to, Gives(g, r, i, x)
      PROVE  /\ Single(r) /\ Below(r, x)
             /\ \A t \in Tasks, h \in Sessions :
                  (t # x /\ HomeAt(g, t, h)) \/ (t = x /\ to = {h}) => HomeAt(r, t, h)
  <2>1. Single(r)
    BY <1>0, <1>1, GivesKeeps
  <2>2. Below(r, x)
    BY <1>0, <1>1, GivesBelow
  <2>3. ASSUME NEW t \in Tasks, NEW h \in Sessions,
               (t # x /\ HomeAt(g, t, h)) \/ (t = x /\ to = {h})
        PROVE  HomeAt(r, t, h)
    <3>1. HomeAt(g, t, h) /\ (t = x => i = h)
      BY <1>h, <1>1, <2>3
    <3> QED BY <1>1, <3>1, GivesHome
  <2> QED BY <2>1, <2>2, <2>3
<1>2. ASSUME NEW e, Queues(g, r, e), ~e.resume, e.task = x, e.target \in to
      PROVE  /\ Single(r) /\ Below(r, x)
             /\ \A t \in Tasks, h \in Sessions :
                  (t # x /\ HomeAt(g, t, h)) \/ (t = x /\ to = {h}) => HomeAt(r, t, h)
  <2>1. Single(r)
    BY <1>0, <1>2, QueuesKeeps
  <2>2. Below(r, x)
    BY <1>0, <1>2, QueuesBelow
  <2>3. ASSUME NEW t \in Tasks, NEW h \in Sessions,
               (t # x /\ HomeAt(g, t, h)) \/ (t = x /\ to = {h})
        PROVE  HomeAt(r, t, h)
    <3>1. HomeAt(g, t, h) /\ (t = x => e.target = h)
      BY <1>h, <1>2, <2>3
    <3> QED BY <1>2, <3>1, QueuesHome
  <2> QED BY <2>1, <2>2, <2>3
<1> QED
  BY <1>1, <1>2 DEF Travels

\* The head of the queue leaves it, and its text goes to conversation i.
LEMMA ServedCarries ==
  ASSUME NEW g \in States, NEW p \in States, NEW r \in States, Single(g),
         g.s.pending # << >>, p.l = g.l, p.s.slots = g.s.slots,
         p.s.pending = Tail(g.s.pending),
         NEW i \in Sessions, NEW x, Gives(p, r, i, x),
         x \in Tasks => Waits(g.s.pending, 1, x) /\ g.s.pending[1].target \in {i, None}
  PROVE  Carries(g, r)
<1>0. g.s.pending \in Seq(Pending)
  BY StateTypes
<1> DEFINE q == g.s.pending
<1>1. /\ 1 \in DOMAIN q
      /\ \A k \in DOMAIN Tail(q) : /\ k + 1 \in DOMAIN q /\ Tail(q)[k] = q[k + 1]
                                   /\ k + 1 # 1
  BY <1>0
<1>2. \A k : \A t : Waits(p.s.pending, k, t) =>
                    k \in DOMAIN p.s.pending /\ k + 1 # 1 /\ Waits(q, k + 1, t)
  BY <1>1 DEF Waits
<1>3. Drops(g, p)
  <2>1. Promise!Fewer(Tail(q), q)
    BY <1>0, WaitingHead
  <2> QED BY <2>1 DEF Drops, Has
<1>4. Carries(g, p)
  BY <1>3, DropsCarries
<1>5. x \in Tasks => Absent(p, x)
  <2> SUFFICES ASSUME x \in Tasks PROVE Absent(p, x)
    OBVIOUS
  <2>1. \A j \in Sessions : ~Has(g, j, x)
    BY <1>1 DEF Single
  <2>2. \A j \in Sessions : Has(p, j, x) => Has(g, j, x)
    BY DEF Has
  <2>3. \A k : Waits(q, k, x) => k = 1
    BY <1>1 DEF Single, Waits
  <2> QED BY <1>2, <2>1, <2>2, <2>3 DEF Absent
<1>6. Single(r)
  BY <1>4, <1>5, GivesKeeps DEF Carries
<1>7. ASSUME NEW t \in Tasks, NEW h \in Sessions, HomeAt(g, t, h) PROVE HomeAt(r, t, h)
  <2>1. HomeAt(p, t, h)
    BY <1>4, <1>7 DEF Carries
  <2>2. t = x => i = h
    <3>1. t = x => q[1].target = h
      BY <1>1, <1>7 DEF HomeAt
    <3>2. h # None
      BY DEF Sessions, None
    <3> QED BY <3>1, <3>2
  <2> QED BY <2>1, <2>2, GivesHome
<1>8. ASSUME NEW n \in Nat, Below(g, n) PROVE Below(r, n)
  <2>1. Below(p, n) /\ n <= n
    BY <1>4, <1>8 DEF Carries
  <2>2. x \in Tasks => x <= n
    <3>1. x \in Tasks => ~(n < x)
      BY <1>1, <1>8 DEF Below, Absent
    <3> QED BY <3>1 DEF Tasks
  <2> QED BY <2>1, <2>2, GivesBelow
<1> QED
  BY <1>6, <1>7, <1>8 DEF Carries

-----------------------------------------------------------------------------
\* The steps of the scheduler and of its workers.

LEMMA LaneTexts ==
  ASSUME Standing, Single(Here), Bound(sched), NEW i \in Sessions, LaneSteps(i), Standing'
  PROVE  Carries(Here, Then) /\ Quietly(Here, Then)
<1>1. PICK x \in Moves(lanes[i]) : lanes' = [lanes EXCEPT ![i] = x]
  BY DEF LaneSteps, Serve, TakeCommand, FinishCommand, RunTask, RemoveSession, LaneMoves, Moves
<1>2. UNCHANGED <<pc, sched, disk, left>>
  BY DEF LaneSteps, Serve, TakeCommand, FinishCommand, RunTask, RemoveSession, LaneMoves
<1>3. /\ Here \in States /\ Then \in States
      /\ Here.s = sched /\ Here.l = lanes /\ Then.s = sched /\ Then.l = lanes'
  BY <1>2, NextState DEF Standing, Stands
<1>4. lanes \in [Sessions -> Lane]
  BY <1>3, StateTypes
<1>5. \A j \in Sessions : lanes'[j] = IF j = i THEN x ELSE lanes[j]
  BY <1>1, <1>4
<1>6. \A j \in Sessions, t \in Tasks : t \in Texts(lanes'[j]) => t \in Texts(lanes[j])
  BY <1>1, <1>4, <1>5, MovesTexts
<1>7. Drops(Here, Then)
  BY <1>3, <1>6, FewerSelf DEF Drops, Has
<1> QED
  BY <1>3, <1>7, DropsCarries DEF Quietly, Answered

LEMMA RefreshTexts ==
  ASSUME Standing, Single(Here), Bound(sched), RefreshWorkers, Standing'
  PROVE  Carries(Here, Then) /\ Quietly(Here, Then)
<1> DEFINE m == [i \in DOMAIN sched.slots |-> RefreshSlot(sched.slots[i], lanes[i].view)]
<1>1. UNCHANGED <<lanes, disk, left>> /\ sched' = [sched EXCEPT !.slots = m]
  BY DEF RefreshWorkers
<1>2. /\ Here \in States /\ Then \in States
      /\ Here.s = sched /\ Here.l = lanes /\ Then.s = sched' /\ Then.l = lanes
  BY <1>1, NextState DEF Standing, Stands
<1>3. /\ sched \in Scheds /\ \A i \in DOMAIN sched.slots : sched.slots[i] \in Slot
  BY <1>2, StateTypes
<1>4. \A i \in DOMAIN m : m[i].snap = lanes[i].view
  BY <1>3 DEF RefreshSlot, Slot
<1>5. DOMAIN m = DOMAIN sched.slots
  OBVIOUS
<1> HIDE DEF m
<1>6. /\ sched'.slots = m /\ sched'.pending = sched.pending
      /\ sched'.selected = sched.selected /\ Answered(Here, Then)
  BY <1>1, <1>2, <1>3 DEF Scheds, Answered
<1>7. \A j \in Sessions, t \in Tasks : Has(Then, j, t) => Has(Here, j, t)
  BY <1>2, <1>4, <1>6 DEF Has, Texts
<1>8. Drops(Here, Then)
  BY <1>2, <1>6, <1>7, FewerSelf DEF Drops
<1>9. Quietly(Here, Then)
  BY <1>2, <1>5, <1>6 DEF Quietly, Bound
<1> QED
  BY <1>2, <1>8, <1>9, DropsCarries

LEMMA PoppedQuietly ==
  ASSUME Sound(Here), sched.pending # << >>, Bound(sched)
  PROVE  /\ Sound(Popped) /\ Quietly(Here, Popped) /\ First \in Pending
         /\ Popped.l = lanes /\ Popped.s.slots = sched.slots
         /\ Popped.s.pending = Tail(sched.pending) /\ First = sched.pending[1]
         /\ 1 \in DOMAIN sched.pending
<1>1. Here.s = sched /\ Here.l = lanes
  BY NextState
<1>2. sched \in Scheds /\ sched.pending \in Seq(Pending)
  BY <1>1, StateTypes DEF Sound
<1>3. /\ Sound(Popped) /\ First \in Pending
      /\ Popped.s.slots = sched.slots /\ Popped.s.pending = Tail(sched.pending)
  BY PoppedFacts
<1>4. Popped.l = lanes /\ Popped.s.selected = sched.selected /\ Answered(Here, Popped)
  BY <1>1, <1>2 DEF Popped, Scheds, Answered
<1>5. /\ First = sched.pending[1] /\ 1 \in DOMAIN sched.pending
      /\ \A k \in DOMAIN Tail(sched.pending) :
           k + 1 \in DOMAIN sched.pending /\ Tail(sched.pending)[k] = sched.pending[k + 1]
  BY <1>2 DEF First
<1>6. Bound(Popped.s)
  BY <1>3, <1>4, <1>5 DEF Bound
<1> QED
  BY <1>1, <1>3, <1>4, <1>5, <1>6 DEF Quietly

LEMMA DispatchTargetTexts ==
  ASSUME Standing, Single(Here), Bound(sched), DispatchTarget, Standing'
  PROVE  Carries(Here, Then) /\ Quietly(Here, Then)
<1> DEFINE i == First.target
           id == First.id
           o == [Popped EXCEPT !.s.slots[i].origin = id]
           c == IF First.resume THEN Cmd("resume", None, None)
                ELSE Cmd("start", First.task, First.request)
           r == Send(Reserve(o, i), i, c)
<1>0. /\ pc = "dispatch"
      /\ sched.pending # << >> /\ i \in DOMAIN sched.slots
      /\ sched' = r.s /\ lanes' = r.l
  BY Zenon DEF DispatchTarget, MayDispatch
<1>1. Sound(Here) /\ Here \in States /\ Then \in States
  BY <1>0, StandsSound, NextState DEF Standing, Stands, Ending
<1>2. /\ Sound(Popped) /\ Quietly(Here, Popped) /\ First \in Pending
      /\ Popped.l = lanes /\ Popped.s.slots = sched.slots
      /\ Popped.s.pending = Tail(sched.pending) /\ First = sched.pending[1]
      /\ 1 \in DOMAIN sched.pending
  BY <1>0, <1>1, PoppedQuietly
<1>3. Here.s = sched /\ Here.l = lanes /\ Then.s = r.s /\ Then.l = r.l
  BY <1>0, NextState
<1>4. i \in Sessions /\ id \in Nat /\ Popped \in States /\ i \in DOMAIN Popped.s.slots
  <2>1. id \in Nat
    BY <1>2 DEF Pending
  <2> QED BY <1>0, <1>2, <2>1, StateTypes DEF Sound
<1>5. c \in Command /\ c.task = IF First.resume THEN None ELSE First.task
  <2>1. First.task \in MaybeTask /\ First.request \in MaybeTask /\ None \in MaybeTask
    BY <1>2 DEF Pending, MaybeTask
  <2> QED BY <2>1 DEF Cmd, Command, CommandKinds
<1>w. c.task \in Tasks => Waits(sched.pending, 1, c.task) /\ sched.pending[1].target \in {i, None}
  BY <1>2, <1>5 DEF Waits, Tasks, None, Pending
<1>6. o \in States /\ Still(Popped, o)
  <2> DEFINE p == Popped
  <2>1. o = [p EXCEPT !.s.slots[i].origin = id]
    OBVIOUS
  <2> HIDE DEF i, o, id, p
  <2>2. o \in States /\ Still(p, o)
    BY <1>4, <2>1, OriginStill DEF p
  <2> QED BY <2>2 DEF p
<1> HIDE DEF o, c
<1>7. i \in DOMAIN o.s.slots
  BY <1>4, <1>6 DEF Still
<1> HIDE DEF i
<1>8. Lets(o, r, i, c.task) /\ r.s.selected = o.s.selected
  BY <1>5, <1>6, <1>7, CommitLets
<1>r. r = Then
  <2>1. r \in States
    BY <1>4, <1>5, <1>6, <1>7, ReserveStill, SendEffect
  <2> HIDE DEF r
  <2> QED BY <1>0, <2>1 DEF Then, States
<1> HIDE DEF r
<1>9. Lets(Popped, Then, i, c.task) /\ Then.s.selected = Popped.s.selected
  BY <1>6, <1>8, <1>r, StillSlight, LetsMeans DEF Still
<1>10. Carries(Here, Then)
  BY <1>0, <1>1, <1>2, <1>3, <1>4, <1>9, <1>w, ServedCarries DEF Lets
<1>11. Quietly(Here, Then)
  BY <1>2, <1>9 DEF Lets, Quietly, Answered
<1> QED
  BY <1>10, <1>11

LEMMA DispatchNewTexts ==
  ASSUME Standing, Single(Here), Bound(sched), DispatchNew, Standing'
  PROVE  Carries(Here, Then) /\ Quietly(Here, Then)
<1> DEFINE r == AssignNewTask(Popped, First.task, First.request, First.id)
           i == AssignSlot(Popped.s)
<1>0. /\ pc = "dispatch"
      /\ sched.pending # << >> /\ First.target = None /\ Fits(sched)
      /\ sched' = r.s /\ lanes' = r.l
  BY Zenon DEF DispatchNew, MayDispatch
<1>1. Sound(Here) /\ Here \in States /\ Then \in States
  BY <1>0, StandsSound, NextState DEF Standing, Stands, Ending
<1>2. /\ Sound(Popped) /\ Quietly(Here, Popped) /\ First \in Pending
      /\ Popped.l = lanes /\ Popped.s.slots = sched.slots
      /\ Popped.s.pending = Tail(sched.pending) /\ First = sched.pending[1]
      /\ 1 \in DOMAIN sched.pending
  BY <1>0, <1>1, PoppedQuietly
<1>3. Here.s = sched /\ Here.l = lanes /\ Then.s = r.s /\ Then.l = r.l
  BY <1>0, NextState
<1>4. Fits(Popped.s)
  <2>1. Popped.s.nextSession = sched.nextSession
    BY <1>0, <1>1, PoppedFacts
  <2>2. Pristine(Popped.s) = Pristine(sched)
    BY <1>2 DEF Pristine
  <2> QED BY <1>0, <2>1, <2>2 DEF Fits, AssignSlot
<1>5. First.task \in MaybeTask /\ First.request \in MaybeTask /\ First.id \in Nat
  BY <1>2 DEF Pending
<1>6. /\ Sound(r) /\ Lets(Popped, r, i, First.task) /\ r.s.selected = Popped.s.selected
      /\ i \in Sessions
  BY <1>2, <1>4, <1>5, AssignLets
<1>r. r = Then
  <2>1. r \in States
    BY <1>6 DEF Sound
  <2> HIDE DEF r
  <2> QED BY <1>0, <2>1 DEF Then, States
<1> HIDE DEF r, i
<1>w. /\ Waits(sched.pending, 1, First.task)
      /\ sched.pending[1].target \in {i, None}
  BY <1>0, <1>2 DEF Bound, Waits
<1>7. Lets(Popped, Then, i, First.task) /\ Then.s.selected = Popped.s.selected
  BY <1>6, <1>r
<1>8. Popped \in States
  BY <1>2 DEF Sound
<1>9. Carries(Here, Then)
  BY <1>0, <1>1, <1>2, <1>3, <1>6, <1>7, <1>8, <1>w, ServedCarries DEF Lets
<1>10. Quietly(Here, Then)
  BY <1>2, <1>7 DEF Lets, Quietly, Answered
<1> QED
  BY <1>9, <1>10

LEMMA ShutdownTexts ==
  ASSUME Standing, Single(Here), Bound(sched), ShutdownAll, Standing'
  PROVE  Carries(Here, Then) /\ Quietly(Here, Then)
<1>1. lanes' = [i \in Sessions |-> NoLane] /\ UNCHANGED sched
  BY DEF ShutdownAll
<1>2. /\ Here \in States /\ Then \in States
      /\ Here.s = sched /\ Then.s = sched /\ Then.l = lanes'
  BY <1>1, NextState DEF Standing, Stands
<1>3. \A t \in Tasks : t \notin Texts(NoLane)
  <2>1. /\ NoLane.view.task = None /\ NoLane.view.queued = None /\ NoLane.inbox = << >>
        /\ DOMAIN << >> = {}
    BY DEF NoLane, Blank
  <2> QED BY <2>1 DEF Texts, Tasks, None
<1>4. \A j \in Sessions, t \in Tasks : Has(Then, j, t) => Has(Here, j, t)
  BY <1>1, <1>2, <1>3 DEF Has
<1>5. Drops(Here, Then)
  BY <1>2, <1>4, FewerSelf DEF Drops
<1> QED
  BY <1>2, <1>5, DropsCarries DEF Quietly, Answered

\* What goes on without the user: nothing of it is lost on the conversations,
\* since no entry of the queue outlives its own (Detach never happens).
LEMMA BackgroundStep ==
  ASSUME Standing, Backed, Single(Here), Bound(sched), Background
  PROVE  Keeps /\ Carries(Here, Then) /\ Quietly(Here, Then)
<1>1. ASSUME NEW i \in Sessions, LaneSteps(i)
      PROVE  Keeps /\ Carries(Here, Then) /\ Quietly(Here, Then)
  BY <1>1, LaneStep, LaneTexts DEF Keeps
<1>2. CASE RefreshWorkers
  BY <1>2, RefreshStep, RefreshTexts DEF Keeps
<1>3. CASE DispatchTarget
  BY <1>3, DispatchTargetStep, DispatchTargetTexts DEF Keeps
<1>4. CASE DispatchNew
  BY <1>4, DispatchNewStep, DispatchNewTexts DEF Keeps
<1>5. CASE ShutdownAll
  BY <1>5, ShutdownStep, ShutdownTexts DEF Keeps
<1>6. CASE DispatchDone
  <2>1. Keeps /\ Then = Here /\ Here \in States /\ Here.s = sched
    BY <1>6, DispatchDoneStep, NextState DEF DispatchDone, Here, Then, Standing, Stands
  <2> QED BY <2>1, DropsSelf, DropsCarries DEF Quietly, Answered
<1>7. ASSUME Detach PROVE FALSE
  <2>1. /\ sched.pending # << >> /\ First.target \notin DOMAIN sched.slots \cup {None}
    BY <1>7 DEF Detach, MayDispatch
  <2>2. sched.pending \in Seq(Pending)
    BY NextState, StateTypes DEF Standing, Stands
  <2>3. First = sched.pending[1] /\ 1 \in DOMAIN sched.pending
    BY <2>1, <2>2 DEF First
  <2> QED BY <2>1, <2>3 DEF Bound
<1> QED
  BY <1>1, <1>2, <1>3, <1>4, <1>5, <1>6, <1>7 DEF Background, Turning, Dispatching

-----------------------------------------------------------------------------
\* What the window has, and what it sends.

Ways == [id : Nat, target : Sessions \cup {None}]
Views ==
  [session : Sessions, phase : Phases, queued : MaybeTask,
   list : UNION {[D -> Summary] : D \in SUBSET Sessions}, waiting : Seq(Ways),
   accepted : MaybeTask, processed : MaybeTask, placed : Placement]
Windows ==
  [view : Views, selection : Selection, requested : Sessions \cup {None},
   clearing : MaybeTask, back : MaybeTask, awaiting : MaybeTask,
   initial : BOOLEAN, closed : BOOLEAN, limit : Limits]

\* What the window asks for is not what it shows, and its page is one that
\* there can be.
Sensible(w) ==
  /\ w \in Windows /\ w.requested # w.view.session
  /\ w.selection.kind = "Session" => w.selection.id \in Sessions

Fit(c) ==
  /\ c \in UserCommand /\ c.kind # "typeAhead"
  /\ c.kind \in Submissions => c.arg \in Tasks
  /\ c.kind = "limit" => c.arg \in Limits
Channelled(q) == q \in Seq(UserCommand) /\ Len(q) <= Channel /\ \A k \in DOMAIN q : Fit(q[k])

Handles(h) == h \in [w : Windows, q : Seq(UserCommand)] /\ Sensible(h.w) /\ Channelled(h.q)

\* A handler of the window that sends no text, and leaves what it awaits.
Asks(h, r) ==
  /\ Handles(r)
  /\ r.w.view = h.w.view /\ r.w.clearing = h.w.clearing /\ r.w.awaiting = h.w.awaiting
  /\ \A k \in DOMAIN h.q : k \in DOMAIN r.q /\ r.q[k] = h.q[k]
  /\ \A k \in DOMAIN r.q \ DOMAIN h.q : r.q[k].kind \notin Submissions

LEMMA AsksSelf == ASSUME NEW h, Handles(h) PROVE Asks(h, h)
BY DEF Asks

LEMMA AsksTwice ==
  ASSUME NEW h, NEW g, NEW r, Asks(h, g), Asks(g, r)
  PROVE  Asks(h, r)
BY DEF Asks

\* A command is appended to the channel.
LEMMA Appended ==
  ASSUME NEW q, Channelled(q), Len(q) < Channel, NEW c, Fit(c)
  PROVE  LET r == Append(q, c)
             n == Len(q) + 1
         IN /\ Channelled(r) /\ n \in DOMAIN r /\ r[n] = c /\ n \notin DOMAIN q
            /\ DOMAIN r = DOMAIN q \cup {n}
            /\ \A k \in DOMAIN q : k \in DOMAIN r /\ r[k] = q[k] /\ k < n
<1> DEFINE r == Append(q, c)
           n == Len(q) + 1
<1>1. q \in Seq(UserCommand) /\ c \in UserCommand /\ Channel \in Nat
  BY WindowAssumption DEF Channelled, Fit
<1>2. /\ r \in Seq(UserCommand) /\ Len(r) = n /\ n <= Channel /\ DOMAIN r = DOMAIN q \cup {n}
      /\ r[n] = c /\ \A k \in DOMAIN q : r[k] = q[k] /\ k < n
  BY <1>1
<1>3. Channelled(r)
  BY <1>2 DEF Channelled
<1> HIDE DEF r, n
<1> QED
  BY <1>2, <1>3 DEF r, n

LEMMA TrySendAsks ==
  ASSUME NEW h, Handles(h), NEW kind \in Requests \ (Submissions \cup {"typeAhead"}),
         NEW arg \in Nat, kind = "limit" => arg \in Limits
  PROVE  Asks(h, TrySend(h, kind, arg)) /\ TrySend(h, kind, arg).w = h.w
<1> DEFINE c == [kind |-> kind, arg |-> arg]
           q == Append(h.q, c)
           r == TrySend(h, kind, arg)
<1>1. CASE ~HasRoomFor(h)
  BY <1>1, AsksSelf DEF TrySend
<1>2. CASE HasRoomFor(h)
  <2>1. Fit(c) /\ c.kind \notin Submissions
    BY DEF Fit, UserCommand, Submissions
  <2>2. r = [h EXCEPT !.q = q]
    BY <1>2 DEF TrySend, Handles
  <2> HIDE DEF c
  <2>3. /\ Channelled(q) /\ \A k \in DOMAIN h.q : k \in DOMAIN q /\ q[k] = h.q[k]
        /\ \A k \in DOMAIN q \ DOMAIN h.q : q[k] = c
    BY <1>2, <2>1, Appended DEF Handles, HasRoomFor
  <2> HIDE DEF q, r
  <2>4. r.q = q /\ r.w = h.w /\ r \in [w : Windows, q : Seq(UserCommand)]
    BY <2>2, <2>3 DEF Handles, Channelled
  <2> QED BY <2>1, <2>3, <2>4 DEF r, Asks, Handles
<1> QED
  BY <1>1, <1>2

\* The window changes, but not what it awaits, and the channel does not.
LEMMA WindowAsks ==
  ASSUME NEW h, Handles(h), NEW w, Sensible(w), w.view = h.w.view,
         w.clearing = h.w.clearing, w.awaiting = h.w.awaiting
  PROVE  LET r == [h EXCEPT !.w = w] IN Asks(h, r) /\ r.w = w
<1> DEFINE r == [h EXCEPT !.w = w]
<1>1. r.w = w /\ r.q = h.q /\ r \in [w : Windows, q : Seq(UserCommand)]
  BY DEF Handles, Sensible
<1> HIDE DEF r
<1> QED
  BY <1>1 DEF r, Asks, Handles

LEMMA RequestAsks ==
  ASSUME NEW h, Handles(h), NEW i \in Sessions
  PROVE  LET r == RequestRuntimeSelection(h, i)
         IN Asks(h, r) /\ r.w.selection = h.w.selection
<1> DEFINE r == RequestRuntimeSelection(h, i)
           g == TrySend(h, "select", i)
           w == [g.w EXCEPT !.requested = i]
<1>1. CASE h.w.view.session = i \/ h.w.requested = i \/ ~HasRoomFor(h)
  BY <1>1, AsksSelf DEF RequestRuntimeSelection
<1>2. CASE ~(h.w.view.session = i \/ h.w.requested = i \/ ~HasRoomFor(h))
  <2>1. "select" \in Requests \ (Submissions \cup {"typeAhead"}) /\ i \in Nat
    BY DEF Requests, Submissions, Sessions
  <2>2. Asks(h, g) /\ g.w = h.w
    BY <2>1, TrySendAsks
  <2>3. r = [g EXCEPT !.w.requested = i]
    BY <1>2 DEF RequestRuntimeSelection
  <2> HIDE DEF g
  <2>4. Handles(g) /\ g.w \in Windows
    BY <2>2 DEF Asks, Handles, Sensible
  <2>5. r = [g EXCEPT !.w = w]
    BY <2>3, <2>4 DEF Handles, Windows
  <2>6. /\ w \in Windows /\ w.requested = i /\ w.view = g.w.view
        /\ w.selection = g.w.selection /\ w.clearing = g.w.clearing
        /\ w.awaiting = g.w.awaiting
    BY <2>4 DEF Windows
  <2> HIDE DEF w, r
  <2>7. Sensible(w)
    BY <1>2, <2>2, <2>4, <2>6 DEF Handles, Sensible
  <2>8. Asks(g, r) /\ r.w = w
    BY <2>4, <2>5, <2>6, <2>7, WindowAsks
  <2> QED BY <2>2, <2>6, <2>8, AsksTwice DEF r
<1> QED
  BY <1>1, <1>2

\* A page that there can be.
Pages == {p \in Selection : p.kind = "Session" => p.id \in Sessions}

LEMMA NewPages ==
  /\ NewPage \in Pages
  /\ \A i \in Sessions : Page("Session", i) \in Pages
  /\ \A n \in Nat : Page("Pending", n) \in Pages
BY DEF NewPage, Page, Pages, Selection, None, Sessions

LEMMA SelectPageAsks ==
  ASSUME NEW h, Handles(h), NEW page \in Pages
  PROVE  Asks(h, SelectPage(h, page))
<1> DEFINE w == [h.w EXCEPT !.selection = page, !.initial = FALSE]
           g == [h EXCEPT !.w.selection = page, !.w.initial = FALSE]
<1>0. h.w \in Windows /\ page \in Selection /\ (page.kind = "Session" => page.id \in Sessions)
  BY DEF Handles, Pages, Sensible
<1>1. g = [h EXCEPT !.w = w]
  BY <1>0 DEF Handles, Windows
<1>2. /\ w \in Windows /\ w.requested = h.w.requested /\ w.view = h.w.view
      /\ w.selection = page /\ w.clearing = h.w.clearing /\ w.awaiting = h.w.awaiting
  BY <1>0 DEF Windows
<1>s. SelectPage(h, page) = IF page.kind = "Session"
                            THEN RequestRuntimeSelection(g, page.id) ELSE g
  BY DEF SelectPage
<1> HIDE DEF w, g
<1>3. Sensible(w)
  BY <1>0, <1>2 DEF Handles, Sensible
<1>4. Asks(h, g)
  BY <1>1, <1>2, <1>3, WindowAsks
<1>5. Handles(g)
  BY <1>4 DEF Asks
<1>6. page.kind = "Session" => Asks(g, RequestRuntimeSelection(g, page.id))
  BY <1>0, <1>5, RequestAsks
<1> QED
  BY <1>4, <1>6, <1>s, AsksTwice

LEMMA RunSelectedAsks ==
  ASSUME NEW h, Handles(h), h.w.selection.id \in Sessions,
         NEW kind \in Requests \ (Submissions \cup {"typeAhead", "limit"})
  PROVE  Asks(h, RunSelected(h, kind))
<1> DEFINE g == RequestRuntimeSelection(h, h.w.selection.id)
<1>1. Asks(h, g) /\ RunSelected(h, kind) = TrySend(g, kind, None)
  BY RequestAsks DEF RunSelected
<1> HIDE DEF g
<1>2. Handles(g) /\ None \in Nat /\ kind \in Requests \ (Submissions \cup {"typeAhead"})
  BY <1>1 DEF Asks, None
<1>3. Asks(g, TrySend(g, kind, None))
  BY <1>2, TrySendAsks
<1> QED
  BY <1>1, <1>3, AsksTwice

LEMMA CancelEntryAsks ==
  ASSUME NEW h, Handles(h), NEW id \in Nat
  PROVE  Asks(h, CancelEntry(h, id))
<1> DEFINE g == TrySend(h, "cancel", id)
<1>1. "cancel" \in Requests \ (Submissions \cup {"typeAhead"}) /\ "cancel" # "limit"
  BY DEF Requests, Submissions
<1>2. Asks(h, g)
  BY <1>1, TrySendAsks
<1>3. CancelEntry(h, id) = IF h.w.selection = Page("Pending", id)
                           THEN SelectPage(g, NewPage) ELSE g
  BY DEF CancelEntry
<1> HIDE DEF g
<1>4. Handles(g) /\ NewPage \in Pages
  BY <1>2, NewPages DEF Asks
<1>5. Asks(g, SelectPage(g, NewPage))
  BY <1>4, SelectPageAsks
<1> QED
  BY <1>2, <1>3, <1>5, AsksTwice

\* The window reads off its snapshot what there is.
LEMMA ViewTypes ==
  ASSUME NEW w \in Windows
  PROVE  /\ DOMAIN w.view.list \in SUBSET Sessions
         /\ \A i \in DOMAIN w.view.list : w.view.list[i] \in Summary
         /\ Listed(w) \in SUBSET Sessions /\ Waiting(w) \in SUBSET Nat
         /\ \A i : FollowUps(w, i) \in SUBSET Nat
         /\ w.view.session \in Sessions
<1>1. w.view \in Views
  BY DEF Windows
<1>2. /\ w.view.list \in UNION {[D -> Summary] : D \in SUBSET Sessions}
      /\ w.view.waiting \in Seq(Ways) /\ w.view.session \in Sessions
  BY <1>1 DEF Views
<1>3. /\ DOMAIN w.view.list \in SUBSET Sessions
      /\ \A i \in DOMAIN w.view.list : w.view.list[i] \in Summary
  BY <1>2
<1>4. \A k \in DOMAIN w.view.waiting : w.view.waiting[k].id \in Nat
  <2>1. \A k \in DOMAIN w.view.waiting : w.view.waiting[k] \in Ways
    BY <1>2
  <2> QED BY <2>1 DEF Ways
<1> QED
  BY <1>2, <1>3, <1>4 DEF Listed, Waiting, FollowUps

\* The snapshot of the scheduler.
LEMMA PublishedFacts ==
  ASSUME Here \in States, Bound(sched)
  PROVE  /\ Published \in Views /\ Published.session = sched.selected
         /\ Published.processed = sched.processed /\ Published.placed = sched.placed
<1>1. Here.s = sched
  BY NextState
<1>2. /\ DOMAIN sched.slots \in SUBSET Sessions
      /\ \A i \in DOMAIN sched.slots : sched.slots[i] \in Slot
      /\ sched.pending \in Seq(Pending) /\ sched.selected \in Sessions
      /\ sched.accepted \in MaybeTask /\ sched.processed \in MaybeTask
      /\ sched.placed \in Placement
  BY <1>1, StateTypes
<1> DEFINE i == sched.selected
           list == [j \in DOMAIN sched.slots |->
                      [phase   |-> sched.slots[j].snap.phase,
                       active  |-> Active(sched.slots[j]),
                       history |-> HasHistory(sched.slots[j]),
                       origin  |-> sched.slots[j].origin]]
           waiting == [k \in DOMAIN sched.pending |->
                         [id |-> sched.pending[k].id, target |-> sched.pending[k].target]]
           accepted == Larger(sched.accepted, sched.slots[i].snap.accepted)
<1>3. Shown(sched) = i /\ i \in DOMAIN sched.slots
  BY DEF Shown, Bound
<1>4. /\ sched.slots[i].snap.phase \in Phases /\ sched.slots[i].snap.queued \in MaybeTask
      /\ sched.slots[i].snap.accepted \in MaybeTask
  BY <1>2, <1>3 DEF Slot, View
<1>5. list \in UNION {[D -> Summary] : D \in SUBSET Sessions}
  <2>1. ASSUME NEW j \in DOMAIN sched.slots
        PROVE  /\ sched.slots[j].snap.phase \in Phases /\ Active(sched.slots[j]) \in BOOLEAN
               /\ HasHistory(sched.slots[j]) \in BOOLEAN /\ sched.slots[j].origin \in Nat
    <3>1. sched.slots[j] \in Slot
      BY <1>2
    <3>2. sched.slots[j].assigned \in BOOLEAN /\ sched.slots[j].snap \in View
          /\ sched.slots[j].origin \in Nat
      BY <3>1 DEF Slot
    <3>3. Active(sched.slots[j]) \in BOOLEAN /\ HasHistory(sched.slots[j]) \in BOOLEAN
      BY <3>2 DEF Active, Running, HasHistory
    <3> QED BY <3>2, <3>3 DEF View
  <2>2. \A j \in DOMAIN sched.slots : list[j] \in Summary
    BY <2>1 DEF Summary
  <2>3. list \in [DOMAIN sched.slots -> Summary]
    BY <2>2
  <2> HIDE DEF list
  <2> QED BY <1>2, <2>3
<1>6. waiting \in Seq(Ways)
  <2>1. \A k \in DOMAIN sched.pending :
          sched.pending[k].id \in Nat /\ sched.pending[k].target \in Sessions \cup {None}
    <3>1. \A k \in DOMAIN sched.pending : sched.pending[k] \in Pending
      BY <1>2
    <3> QED BY <3>1 DEF Pending
  <2>2. \A k \in DOMAIN sched.pending : waiting[k] \in Ways
    BY <2>1 DEF Ways
  <2>3. /\ DOMAIN sched.pending = 1..Len(sched.pending) /\ Len(sched.pending) \in Nat
        /\ waiting = [k \in 1..Len(sched.pending) |-> waiting[k]]
    BY <1>2
  <2> HIDE DEF waiting
  <2> QED BY <2>2, <2>3
<1>7. accepted \in MaybeTask
  BY <1>2, <1>4 DEF Larger
<1>8. Published = [session |-> i, phase |-> sched.slots[i].snap.phase,
                   queued |-> sched.slots[i].snap.queued, list |-> list,
                   waiting |-> waiting, accepted |-> accepted,
                   processed |-> sched.processed, placed |-> sched.placed]
  BY <1>3 DEF Published
<1> HIDE DEF list, waiting, accepted
<1> QED
  BY <1>2, <1>4, <1>5, <1>6, <1>7, <1>8 DEF Views

\* update_snapshot, one part after the other.
LEMMA AnswerMeans ==
  ASSUME NEW w, Sensible(w), NEW v \in Views
  PROVE  LET a == AnswerSubmission(w, v)
         IN /\ Sensible(a) /\ a.awaiting = w.awaiting
            /\ a.clearing \in {None, w.clearing}
            /\ a.clearing # None => v.processed < a.clearing
<1> DEFINE a == AnswerSubmission(w, v)
<1>0. /\ w \in Windows /\ v.processed \in Nat /\ v.accepted \in Nat
      /\ w.clearing \in Nat /\ w.clearing \in MaybeTask /\ None \in MaybeTask
  BY DEF Sensible, Windows, Views, MaybeTask, Tasks, None
<1>1. CASE a = w /\ (w.clearing = None \/ v.processed < w.clearing)
  <2> HIDE DEF a
  <2> QED BY <1>1 DEF a
<1>2. CASE a = [w EXCEPT !.clearing = None]
  <2> HIDE DEF a
  <2>1. /\ a \in Windows /\ a.clearing = None /\ a.awaiting = w.awaiting
        /\ a.view = w.view /\ a.requested = w.requested /\ a.selection = w.selection
    BY <1>0, <1>2 DEF Windows
  <2> QED BY <2>1 DEF a, Sensible
<1>3. CASE a = [w EXCEPT !.clearing = None, !.back = w.clearing]
  <2> HIDE DEF a
  <2>1. /\ a \in Windows /\ a.clearing = None /\ a.awaiting = w.awaiting
        /\ a.view = w.view /\ a.requested = w.requested /\ a.selection = w.selection
    BY <1>0, <1>3 DEF Windows
  <2> QED BY <2>1 DEF a, Sensible
<1>4. \/ a = w /\ (w.clearing = None \/ v.processed < w.clearing)
      \/ a = [w EXCEPT !.clearing = None]
      \/ a = [w EXCEPT !.clearing = None, !.back = w.clearing]
  <2>1. CASE w.clearing = None
    BY <2>1 DEF AnswerSubmission
  <2>2. CASE w.clearing # None /\ v.accepted >= w.clearing
    BY <2>2 DEF AnswerSubmission
  <2>3. CASE w.clearing # None /\ v.accepted < w.clearing /\ v.processed >= w.clearing
    <3>1. ~(v.accepted >= w.clearing)
      BY <1>0, <2>3
    <3> QED BY <2>3, <3>1 DEF AnswerSubmission
  <2>4. CASE w.clearing # None /\ v.accepted < w.clearing /\ ~(v.processed >= w.clearing)
    <3>1. ~(v.accepted >= w.clearing) /\ v.processed < w.clearing
      BY <1>0, <2>4
    <3> QED BY <2>4, <3>1 DEF AnswerSubmission
  <2>5. v.accepted >= w.clearing \/ v.accepted < w.clearing
    BY <1>0
  <2> QED BY <2>1, <2>2, <2>3, <2>4, <2>5
<1> QED
  BY <1>1, <1>2, <1>3, <1>4

LEMMA PlacementMeans ==
  ASSUME NEW w, Sensible(w), NEW v \in Views
  PROVE  LET a == FollowPlacement(w, v)
         IN /\ Sensible(a) /\ a.clearing = w.clearing
            /\ a.awaiting \in {None, w.awaiting}
            /\ a.awaiting # None => v.placed.request # a.awaiting
<1> DEFINE a == FollowPlacement(w, v)
           page == CASE v.placed.session # None -> Page("Session", v.placed.session)
                     [] v.placed.pending # 0    -> Page("Pending", v.placed.pending)
                     [] OTHER                   -> w.selection
<1>0. /\ w \in Windows /\ None \in MaybeTask /\ w.selection \in Pages
      /\ v.placed.session \in Sessions \cup {None} /\ v.placed.pending \in Nat
  <2>1. v.placed \in Placement
    BY DEF Views
  <2> QED BY <2>1 DEF Sensible, Windows, Pages, MaybeTask, Placement
<1>p. page \in Pages
  <2>1. CASE v.placed.session # None
    BY <1>0, <2>1, NewPages
  <2>2. CASE v.placed.session = None /\ v.placed.pending # 0
    BY <1>0, <2>2, NewPages
  <2>3. CASE v.placed.session = None /\ v.placed.pending = 0
    BY <1>0, <2>3
  <2> QED BY <2>1, <2>2, <2>3
<1>1. CASE a = w /\ (w.awaiting = None \/ v.placed.request # w.awaiting)
  <2> HIDE DEF a
  <2> QED BY <1>1 DEF a
<1>2. CASE a = [w EXCEPT !.awaiting = None, !.selection = page]
  <2> HIDE DEF a, page
  <2>1. /\ a \in Windows /\ a.clearing = w.clearing /\ a.awaiting = None
        /\ a.view = w.view /\ a.requested = w.requested /\ a.selection = page
    BY <1>0, <1>2, <1>p DEF Windows, Pages
  <2> QED BY <1>p, <2>1 DEF a, Sensible, Pages
<1>3. CASE a = [w EXCEPT !.awaiting = None]
  <2> HIDE DEF a
  <2>1. /\ a \in Windows /\ a.clearing = w.clearing /\ a.awaiting = None
        /\ a.view = w.view /\ a.requested = w.requested /\ a.selection = w.selection
    BY <1>0, <1>3 DEF Windows
  <2> QED BY <2>1 DEF a, Sensible
<1>4. \/ a = w /\ (w.awaiting = None \/ v.placed.request # w.awaiting)
      \/ a = [w EXCEPT !.awaiting = None, !.selection = page]
      \/ a = [w EXCEPT !.awaiting = None]
  BY DEF FollowPlacement
<1> QED
  BY <1>1, <1>2, <1>3, <1>4

\* The window, with what it awaits left alone.
Adjusts(w, a) ==
  /\ Sensible(a) /\ a.view = w.view /\ a.clearing = w.clearing /\ a.awaiting = w.awaiting

LEMMA TurnsPage ==
  ASSUME NEW w, Sensible(w), NEW page \in Pages, NEW b \in BOOLEAN
  PROVE  /\ Adjusts(w, [w EXCEPT !.selection = page])
         /\ Adjusts(w, [w EXCEPT !.initial = b])
         /\ Adjusts(w, [w EXCEPT !.initial = b, !.selection = page])
<1>0. w \in Windows
  BY DEF Sensible
<1>1. ASSUME NEW a \in Windows, a.view = w.view, a.clearing = w.clearing,
             a.awaiting = w.awaiting, a.requested = w.requested,
             a.selection \in {page, w.selection}
      PROVE  Adjusts(w, a)
  BY <1>1 DEF Adjusts, Sensible, Pages
<1>2. Adjusts(w, [w EXCEPT !.selection = page])
  <2> DEFINE a == [w EXCEPT !.selection = page]
  <2>1. /\ a \in Windows /\ a.view = w.view /\ a.clearing = w.clearing
        /\ a.awaiting = w.awaiting /\ a.requested = w.requested /\ a.selection = page
    BY <1>0 DEF Windows, Pages
  <2> HIDE DEF a
  <2>2. Adjusts(w, a)
    BY <1>1, <2>1
  <2> QED BY <2>2 DEF a
<1>3. Adjusts(w, [w EXCEPT !.initial = b])
  <2> DEFINE a == [w EXCEPT !.initial = b]
  <2>1. /\ a \in Windows /\ a.view = w.view /\ a.clearing = w.clearing
        /\ a.awaiting = w.awaiting /\ a.requested = w.requested
        /\ a.selection = w.selection
    BY <1>0 DEF Windows
  <2> HIDE DEF a
  <2>2. Adjusts(w, a)
    BY <1>1, <2>1
  <2> QED BY <2>2 DEF a
<1>4. Adjusts(w, [w EXCEPT !.initial = b, !.selection = page])
  <2> DEFINE a == [w EXCEPT !.initial = b, !.selection = page]
  <2>1. /\ a \in Windows /\ a.view = w.view /\ a.clearing = w.clearing
        /\ a.awaiting = w.awaiting /\ a.requested = w.requested /\ a.selection = page
    BY <1>0 DEF Windows, Pages
  <2> HIDE DEF a
  <2>2. Adjusts(w, a)
    BY <1>1, <2>1
  <2> QED BY <2>2 DEF a
<1> QED
  BY <1>2, <1>3, <1>4

LEMMA SelectInitialAdjusts == ASSUME NEW w, Sensible(w) PROVE Adjusts(w, SelectInitial(w))
<1> DEFINE running == {i \in Listed(w) : w.view.list[i].active}
           best == IF running # {} THEN Max(running) ELSE Max(Listed(w))
<1>0. Listed(w) \in SUBSET (1..MaxSession) /\ MaxSession \in Nat
  BY ViewTypes, SchedulerAssumption DEF Sensible, Sessions
<1>1. Listed(w) # {} => best \in Sessions
  <2>1. \A S \in SUBSET (1..MaxSession) : S # {} => Max(S) \in S
    BY <1>0, MaxOf
  <2>2. running \in SUBSET (1..MaxSession)
    BY <1>0
  <2> HIDE DEF running
  <2> QED BY <1>0, <2>1, <2>2 DEF Sessions
<1>2. \/ SelectInitial(w) = w
      \/ SelectInitial(w) = [w EXCEPT !.initial = FALSE]
      \/ /\ Listed(w) # {}
         /\ SelectInitial(w) = [[w EXCEPT !.initial = FALSE]
                                  EXCEPT !.selection = Page("Session", best)]
  BY DEF SelectInitial
<1> HIDE DEF best
<1>3. Adjusts(w, w)
  BY DEF Adjusts
<1>4. Adjusts(w, [w EXCEPT !.initial = FALSE])
  BY NewPages, TurnsPage
<1>5. CASE /\ Listed(w) # {}
           /\ SelectInitial(w) = [[w EXCEPT !.initial = FALSE]
                                    EXCEPT !.selection = Page("Session", best)]
  <2> DEFINE page == Page("Session", best)
             u == [w EXCEPT !.initial = FALSE]
  <2>1. page \in Pages
    BY <1>1, <1>5, NewPages
  <2>2. SelectInitial(w) = [u EXCEPT !.selection = page]
    BY <1>5
  <2>3. Adjusts(w, u)
    BY <1>4
  <2> HIDE DEF page, u
  <2>4. Sensible(u)
    BY <2>3 DEF Adjusts
  <2>5. Adjusts(u, [u EXCEPT !.selection = page])
    BY <2>1, <2>4, TurnsPage
  <2> QED BY <2>2, <2>3, <2>5 DEF Adjusts
<1> QED
  BY <1>2, <1>3, <1>4, <1>5

LEMMA ReconcileAdjusts == ASSUME NEW w, Sensible(w) PROVE Adjusts(w, ReconcileSelection(w))
<1> DEFINE started == {i \in DOMAIN w.view.list : w.view.list[i].origin = w.selection.id}
           page == IF started = {} THEN NewPage ELSE Page("Session", Min(started))
<1>0. DOMAIN w.view.list \in SUBSET (1..MaxSession) /\ MaxSession \in Nat
  BY ViewTypes, SchedulerAssumption DEF Sensible, Sessions
<1>1. page \in Pages
  <2>1. \A S \in SUBSET (1..MaxSession) : S # {} => Min(S) \in S
    BY <1>0, MinOf
  <2>2. started \in SUBSET (1..MaxSession)
    BY <1>0
  <2> HIDE DEF started
  <2>3. started # {} => Min(started) \in Sessions
    BY <2>1, <2>2 DEF Sessions
  <2> QED BY <2>3, NewPages
<1>2. \/ ReconcileSelection(w) = w
      \/ ReconcileSelection(w) = [w EXCEPT !.selection = NewPage]
      \/ ReconcileSelection(w) = [w EXCEPT !.selection = page]
  BY DEF ReconcileSelection
<1> HIDE DEF page
<1>3. Adjusts(w, w)
  BY DEF Adjusts
<1>4. Adjusts(w, [w EXCEPT !.selection = NewPage]) /\ Adjusts(w, [w EXCEPT !.selection = page])
  BY <1>1, NewPages, TurnsPage
<1> QED
  BY <1>2, <1>3, <1>4

LEMMA UpdateMeans ==
  ASSUME NEW h, Handles(h), NEW v \in Views
  PROVE  LET r == UpdateSnapshot(h, v)
         IN /\ Handles(r) /\ r.w.view = v
            /\ r.w.clearing \in {None, h.w.clearing}
            /\ r.w.clearing # None => v.processed < r.w.clearing
            /\ r.w.awaiting \in {None, h.w.awaiting}
            /\ r.w.awaiting # None => v.placed.request # r.w.awaiting
            /\ \A k \in DOMAIN h.q : k \in DOMAIN r.q /\ r.q[k] = h.q[k]
            /\ \A k \in DOMAIN r.q \ DOMAIN h.q : r.q[k].kind \notin Submissions
<1> DEFINE a == AnswerSubmission(h.w, v)
           b == FollowPlacement(a, v)
           c == ViewUpdated(b, v)
           d == SelectInitial(c)
           w == ReconcileSelection(d)
           g == [h EXCEPT !.w = w]
           r == UpdateSnapshot(h, v)
<1>r. r = IF w.selection.kind = "Session" THEN RequestRuntimeSelection(g, w.selection.id)
          ELSE g
  BY DEF UpdateSnapshot
<1>1. /\ Sensible(a) /\ a.awaiting = h.w.awaiting
      /\ a.clearing \in {None, h.w.clearing}
      /\ a.clearing # None => v.processed < a.clearing
  BY AnswerMeans DEF Handles
<1> HIDE DEF a
<1>2. /\ Sensible(b) /\ b.clearing = a.clearing
      /\ b.awaiting \in {None, a.awaiting}
      /\ b.awaiting # None => v.placed.request # b.awaiting
  BY <1>1, PlacementMeans
<1> HIDE DEF b
<1>3. /\ Sensible(c) /\ c.view = v /\ c.clearing = b.clearing /\ c.awaiting = b.awaiting
  <2> DEFINE new == IF v.session = b.requested THEN None ELSE b.requested
  <2>1. b \in Windows /\ v.session \in Sessions /\ None \notin Sessions
    BY <1>2 DEF Sensible, Views, Sessions, None
  <2>2. c = [b EXCEPT !.view = v, !.requested = new]
    BY <2>1 DEF ViewUpdated, Windows
  <2>3. new \in Sessions \cup {None} /\ new # v.session
    BY <2>1 DEF Windows
  <2> HIDE DEF c, new
  <2>4. /\ c \in Windows /\ c.view = v /\ c.requested = new /\ c.selection = b.selection
        /\ c.clearing = b.clearing /\ c.awaiting = b.awaiting
    BY <2>1, <2>2, <2>3 DEF Windows
  <2> QED BY <1>2, <2>3, <2>4 DEF Sensible
<1> HIDE DEF c
<1>4. Adjusts(c, d)
  BY <1>3, SelectInitialAdjusts
<1> HIDE DEF d
<1>5. Adjusts(d, w)
  BY <1>4, ReconcileAdjusts DEF Adjusts
<1> HIDE DEF w
<1>6. /\ Sensible(w) /\ w.view = v /\ w.clearing = b.clearing /\ w.awaiting = b.awaiting
  BY <1>3, <1>4, <1>5 DEF Adjusts
<1>7. Handles(g) /\ g.q = h.q /\ g.w = w
  BY <1>6 DEF Handles, Sensible
<1> HIDE DEF g
<1>8. Asks(g, r)
  <2>1. w.selection.kind = "Session" => w.selection.id \in Sessions
    BY <1>6 DEF Sensible
  <2>2. w.selection.kind = "Session" => Asks(g, RequestRuntimeSelection(g, w.selection.id))
    BY <1>7, <2>1, RequestAsks
  <2> QED BY <1>7, <1>r, <2>2, AsksSelf
<1> HIDE DEF r
<1>9. /\ Handles(r) /\ r.w.view = v
      /\ r.w.clearing = b.clearing /\ r.w.awaiting = b.awaiting
      /\ \A k \in DOMAIN h.q : k \in DOMAIN r.q /\ r.q[k] = h.q[k]
      /\ \A k \in DOMAIN r.q \ DOMAIN h.q : r.q[k].kind \notin Submissions
  BY <1>6, <1>7, <1>8 DEF Asks
<1> QED
  BY <1>1, <1>2, <1>9 DEF r

-----------------------------------------------------------------------------
\* The inductive invariant, of the scheduler and its workers (g), the channel
\* (q), the window (w), where texts were meant to go (m) and the next text (n).

\* The k-th command carries a text.
Says(q, k) == k \in DOMAIN q /\ q[k].kind \in Submissions

\* Texts are numbered as they are typed, and the scheduler takes them in order:
\* those in the channel are still to come.
Frontier(g, q, n) ==
  /\ g.s.processed < n /\ g.s.placed.request <= g.s.processed
  /\ Below(g, g.s.processed)
  /\ \A k : Says(q, k) => g.s.processed < q[k].arg /\ q[k].arg < n
  /\ \A j, k : Says(q, j) /\ Says(q, k) /\ j < k => q[j].arg < q[k].arg

\* What the window waits for, its snapshot does not answer, and the scheduler
\* has answered it or will.
Awaits(g, q, w, n) ==
  /\ w.view.processed < n /\ w.view.placed.request < n
  /\ w.clearing # None =>
       /\ w.view.processed < w.clearing
       /\ w.clearing <= g.s.processed \/ \E k : Says(q, k) /\ q[k].arg = w.clearing
  /\ w.awaiting # None =>
       /\ w.view.placed.request # w.awaiting
       /\ \/ w.awaiting <= g.s.placed.request
          \/ \E k : Says(q, k) /\ q[k].arg = w.awaiting

\* A follow-up that was meant for a conversation is there, or waits for it, or
\* is the next command while that conversation is still selected.
Homes(g, q, m, n) ==
  \A t \in Tasks : m[t] # None =>
    /\ t < n /\ HomeAt(g, t, m[t])
    /\ \A k : Says(q, k) /\ q[k].arg = t =>
         k = 1 /\ q[k].kind = "submit" /\ g.s.selected = m[t]

Meanings == [Tasks -> Sessions \cup {None}]
Hand(w, q) == [w |-> w, q |-> q]
Whole(g, q, w, m, n) ==
  /\ Single(g) /\ Bound(g.s) /\ Handles(Hand(w, q)) /\ m \in Meanings
  /\ Frontier(g, q, n) /\ Awaits(g, q, w, n) /\ Homes(g, q, m, n)

LEMMA HandMeans ==
  ASSUME NEW w, NEW q
  PROVE  /\ Hand(w, q).w = w /\ Hand(w, q).q = q
         /\ Handles(Hand(w, q)) <=> Sensible(w) /\ Channelled(q)
BY DEF Hand, Handles, Sensible, Channelled

LEMMA NumberTypes ==
  /\ \A g \in States : /\ g.s.processed \in Nat /\ g.s.placed.request \in Nat
                       /\ g.s.selected \in Sessions
  /\ \A w : Sensible(w) => /\ w.clearing \in Nat /\ w.awaiting \in Nat
                           /\ w.view.processed \in Nat /\ w.view.placed.request \in Nat
  /\ \A q : Channelled(q) => \A k : Says(q, k) => k \in Nat /\ q[k].arg \in Nat /\ q[k].arg \in Tasks
<1>0. MaybeTask \subseteq Nat /\ Tasks \subseteq Nat
  BY DEF MaybeTask, Tasks, None
<1>1. \A g \in States : /\ g.s.processed \in Nat /\ g.s.placed.request \in Nat
                        /\ g.s.selected \in Sessions
  BY <1>0, StateTypes DEF Placement
<1>2. ASSUME NEW w, Sensible(w)
      PROVE  /\ w.clearing \in Nat /\ w.awaiting \in Nat
             /\ w.view.processed \in Nat /\ w.view.placed.request \in Nat
  <2>1. w.view \in Views /\ w.clearing \in MaybeTask /\ w.awaiting \in MaybeTask
    BY <1>2 DEF Sensible, Windows
  <2>2. w.view.processed \in MaybeTask /\ w.view.placed \in Placement
    BY <2>1 DEF Views
  <2> QED BY <1>0, <2>1, <2>2 DEF Placement
<1>3. ASSUME NEW q, Channelled(q), NEW k, Says(q, k)
      PROVE  k \in Nat /\ q[k].arg \in Nat /\ q[k].arg \in Tasks
  <2>1. q \in Seq(UserCommand) /\ k \in DOMAIN q /\ Fit(q[k]) /\ q[k].kind \in Submissions
    BY <1>3 DEF Channelled, Says
  <2>2. k \in Nat
    BY <2>1
  <2> QED BY <1>0, <2>1, <2>2 DEF Fit
<1> QED
  BY <1>1, <1>2, <1>3

\* What goes on without the user.
LEMMA QuietWhole ==
  ASSUME NEW g \in States, NEW r \in States, Carries(g, r), Quietly(g, r),
         NEW q, NEW w, NEW m, NEW n, Whole(g, q, w, m, n)
  PROVE  Whole(r, q, w, m, n)
<1>0. g.s.processed \in Nat
  BY NumberTypes
<1>1. Frontier(r, q, n)
  BY <1>0 DEF Whole, Frontier, Carries, Quietly, Answered
<1>2. Awaits(r, q, w, n)
  BY DEF Whole, Awaits, Quietly, Answered
<1>3. \A t \in Tasks : m[t] # None => m[t] \in Sessions
  BY DEF Whole, Meanings
<1>4. Homes(r, q, m, n)
  BY <1>3 DEF Whole, Homes, Carries, Quietly
<1> QED
  BY <1>1, <1>2, <1>4 DEF Whole, Carries, Quietly

\* The rest of the channel.
LEMMA TailSays ==
  ASSUME NEW q, Channelled(q), q # << >>
  PROVE  /\ Channelled(Tail(q)) /\ 1 \in DOMAIN q /\ Head(q) = q[1] /\ Fit(Head(q))
         /\ \A k : Says(Tail(q), k) =>
              k + 1 > 1 /\ Says(q, k + 1) /\ Tail(q)[k] = q[k + 1] /\ k \in Nat
         /\ \A k : Says(q, k) /\ k # 1 => Says(Tail(q), k - 1) /\ Tail(q)[k - 1] = q[k]
<1>0. q \in Seq(UserCommand) /\ Len(q) <= Channel /\ Channel \in Nat
      /\ \A k \in DOMAIN q : Fit(q[k])
  BY WindowAssumption DEF Channelled
<1> DEFINE v == Tail(q)
<1>1. /\ v \in Seq(UserCommand) /\ Len(v) <= Channel /\ 1 \in DOMAIN q /\ Head(q) = q[1]
      /\ \A k \in DOMAIN v : k \in Nat /\ k + 1 \in DOMAIN q /\ v[k] = q[k + 1] /\ k + 1 > 1
      /\ \A k \in DOMAIN q : k # 1 => k - 1 \in DOMAIN v /\ v[k - 1] = q[k]
  BY <1>0
<1> HIDE DEF v
<1>2. Channelled(v)
  BY <1>0, <1>1 DEF Channelled
<1> QED
  BY <1>0, <1>1, <1>2 DEF v, Says

\* The scheduler takes a command.
LEMMA TakenWhole ==
  ASSUME NEW g \in States, NEW r \in States, NEW q, q # << >>, NEW w, NEW m, NEW n,
         Whole(g, q, w, m, n), Bound(r.s),
         LET c == Head(q)
         IN /\ c.kind \in Submissions /\ g.s.processed < c.arg =>
                 /\ Travels(g, r, c.arg, IF c.kind = "new" THEN Sessions \cup {None}
                                         ELSE {g.s.selected})
                 /\ r.s.processed = c.arg /\ r.s.placed.request = c.arg
            /\ c.kind \notin Submissions => Settles(g, r)
  PROVE  Whole(r, Tail(q), w, m, n)
<1> DEFINE v == Tail(q)
           c == Head(q)
<1>0. /\ Channelled(q) /\ Sensible(w)
      /\ g.s.processed \in Nat /\ g.s.placed.request \in Nat
      /\ w.clearing \in Nat /\ w.awaiting \in Nat
      /\ \A k : Says(q, k) => k \in Nat /\ q[k].arg \in Nat /\ q[k].arg \in Tasks
  BY HandMeans, NumberTypes DEF Whole
<1>1. /\ Channelled(v) /\ 1 \in DOMAIN q /\ c = q[1]
      /\ \A k : Says(v, k) => k + 1 > 1 /\ Says(q, k + 1) /\ v[k] = q[k + 1] /\ k \in Nat
      /\ \A k : Says(q, k) /\ k # 1 => Says(v, k - 1) /\ v[k - 1] = q[k]
  BY <1>0, TailSays
<1> HIDE DEF v
<1>2. Handles(Hand(w, v)) /\ m \in Meanings
  BY <1>0, <1>1, HandMeans DEF Whole
<1>m. \A t \in Tasks : m[t] # None => m[t] \in Sessions
  BY <1>2 DEF Meanings
\* No text that was meant for a conversation is left.
<1>3. \A t \in Tasks : m[t] # None => \A k : ~(Says(v, k) /\ v[k].arg = t)
  <2> SUFFICES ASSUME NEW t \in Tasks, m[t] # None, NEW k, Says(v, k), v[k].arg = t
               PROVE  FALSE
    OBVIOUS
  <2>1. k + 1 > 1 /\ Says(q, k + 1) /\ q[k + 1].arg = t /\ k + 1 # 1
    BY <1>1
  <2> QED BY <2>1 DEF Whole, Homes
<1>o. \A j, k : Says(v, j) /\ Says(v, k) /\ j < k => v[j].arg < v[k].arg
  <2> SUFFICES ASSUME NEW j, NEW k, Says(v, j), Says(v, k), j < k
               PROVE  v[j].arg < v[k].arg
    OBVIOUS
  <2>1. /\ Says(q, j + 1) /\ Says(q, k + 1) /\ v[j] = q[j + 1] /\ v[k] = q[k + 1]
        /\ j + 1 < k + 1
    BY <1>1
  <2> QED BY <2>1 DEF Whole, Frontier
<1>4. CASE c.kind \in Submissions
  <2> DEFINE x == c.arg
             to == IF c.kind = "new" THEN Sessions \cup {None} ELSE {g.s.selected}
  <2>1. Says(q, 1) /\ x = q[1].arg /\ x \in Tasks /\ x \in Nat
    BY <1>0, <1>1, <1>4 DEF Says
  <2>2. g.s.processed < x /\ x < n
    BY <2>1 DEF Whole, Frontier
  <2>3. Travels(g, r, x, to) /\ r.s.processed = x /\ r.s.placed.request = x
    BY <1>4, <2>2
  <2>h. \A t \in Tasks : m[t] # None /\ t = x => to = {m[t]}
    <3> SUFFICES ASSUME NEW t \in Tasks, m[t] # None, t = x PROVE to = {m[t]}
      OBVIOUS
    <3>1. q[1].kind = "submit" /\ g.s.selected = m[t]
      BY <2>1 DEF Whole, Homes
    <3> QED BY <1>1, <3>1
  <2> HIDE DEF x, to
  <2>4. /\ Single(r) /\ Below(r, x)
        /\ \A t \in Tasks, h \in Sessions :
             (t # x /\ HomeAt(g, t, h)) \/ (t = x /\ to = {h}) => HomeAt(r, t, h)
    BY <1>0, <2>1, <2>2, <2>3, TravelsKeeps DEF Whole, Frontier
  <2>5. Frontier(r, v, n)
    <3>1. ASSUME NEW k, Says(v, k) PROVE x < v[k].arg /\ v[k].arg < n
      <4>1. Says(q, k + 1) /\ v[k] = q[k + 1] /\ k \in Nat
        BY <1>1, <3>1
      <4>2. 1 < k + 1
        BY <1>1, <3>1
      <4> QED BY <2>1, <4>1, <4>2 DEF Whole, Frontier
    <3>2. x <= x
      BY <2>1
    <3> QED BY <1>o, <2>2, <2>3, <2>4, <3>1, <3>2 DEF Frontier
  <2>6. Awaits(r, v, w, n)
    <3>1. ASSUME NEW y \in Nat, y <= g.s.processed \/ \E k : Says(q, k) /\ q[k].arg = y
          PROVE  y <= x \/ \E k : Says(v, k) /\ v[k].arg = y
      <4>1. CASE y <= g.s.processed
        BY <1>0, <2>1, <2>2, <4>1
      <4>2. ASSUME NEW k, Says(q, k), q[k].arg = y, k # 1
            PROVE  \E j : Says(v, j) /\ v[j].arg = y
        BY <1>1, <4>2
      <4>3. q[1].arg = y => y <= x
        BY <2>1
      <4> QED BY <3>1, <4>1, <4>2, <4>3
    <3>2. g.s.placed.request <= g.s.processed
      BY DEF Whole, Frontier
    <3>3. w.awaiting <= g.s.placed.request => w.awaiting <= g.s.processed
      BY <1>0, <3>2
    <3> QED BY <1>0, <2>3, <3>1, <3>3 DEF Whole, Awaits
  <2>7. Homes(r, v, m, n)
    <3>1. \A t \in Tasks : m[t] # None => HomeAt(r, t, m[t])
      BY <1>m, <2>4, <2>h DEF Whole, Homes
    <3> QED BY <1>3, <3>1 DEF Whole, Homes
  <2>8. Single(r) /\ Bound(r.s)
    BY <2>4
  <2> QED BY <1>2, <2>4, <2>5, <2>6, <2>7, <2>8 DEF Whole, v
<1>5. CASE c.kind \notin Submissions
  <2>1. Settles(g, r)
    BY <1>5
  <2>2. Carries(g, r) /\ Answered(g, r)
    BY <2>1, SettlesCarries DEF Settles, Whole
  <2>3. ~Says(q, 1)
    BY <1>1, <1>5 DEF Says
  <2>4. Frontier(r, v, n)
    BY <1>0, <1>1, <1>o, <2>2 DEF Whole, Frontier, Carries, Answered
  <2>5. Awaits(r, v, w, n)
    <3>1. ASSUME NEW y, \E k : Says(q, k) /\ q[k].arg = y
          PROVE  \E k : Says(v, k) /\ v[k].arg = y
      <4>1. PICK k : Says(q, k) /\ q[k].arg = y
        BY <3>1
      <4>2. Says(v, k - 1) /\ v[k - 1] = q[k]
        BY <1>1, <2>3, <4>1
      <4> QED BY <4>1, <4>2
    <3> QED BY <2>2, <3>1 DEF Whole, Awaits, Answered
  <2>6. Homes(r, v, m, n)
    BY <1>3, <1>m, <2>2 DEF Whole, Homes, Carries
  <2>7. Single(r) /\ Bound(r.s)
    BY <2>2 DEF Whole, Carries
  <2> QED BY <1>2, <2>4, <2>5, <2>6, <2>7 DEF Whole, v
<1> QED
  BY <1>4, <1>5

\* The window sends no text.
Grows(q, r) ==
  /\ \A k \in DOMAIN q : k \in DOMAIN r /\ r[k] = q[k]
  /\ \A k \in DOMAIN r \ DOMAIN q : r[k].kind \notin Submissions

LEMMA GrowsSays ==
  ASSUME NEW q, NEW r, Grows(q, r)
  PROVE  /\ \A k : Says(r, k) <=> Says(q, k)
         /\ \A k : Says(q, k) => r[k] = q[k]
BY DEF Grows, Says

LEMMA AskedWhole ==
  ASSUME NEW g \in States, NEW q, NEW w, NEW m, NEW n, Whole(g, q, w, m, n),
         NEW v, NEW u, Handles(Hand(u, v)), Grows(q, v),
         u.view.processed < n, u.view.placed.request < n,
         u.clearing \in {None, w.clearing}, u.awaiting \in {None, w.awaiting},
         u.clearing # None => u.view.processed < u.clearing,
         u.awaiting # None => u.view.placed.request # u.awaiting
  PROVE  Whole(g, v, u, m, n)
<1>1. /\ \A k : Says(v, k) <=> Says(q, k)
      /\ \A k : Says(q, k) => v[k] = q[k]
  BY GrowsSays
<1>2. Frontier(g, v, n)
  BY <1>1 DEF Whole, Frontier
<1>3. Awaits(g, v, u, n)
  BY <1>1 DEF Whole, Awaits
<1>4. Homes(g, v, m, n)
  BY <1>1 DEF Whole, Homes
<1> QED
  BY <1>2, <1>3, <1>4 DEF Whole

\* The window sends the next text.
LEMMA SubmittedWhole ==
  ASSUME NEW g \in States, NEW q, NEW w, NEW m, NEW n \in Tasks, Whole(g, q, w, m, n),
         NEW c, Fit(c), c.kind \in Submissions, c.arg = n, Len(q) < Channel,
         NEW u, Sensible(u), u.view = w.view, u.clearing = n,
         u.awaiting \in {n, w.awaiting},
         NEW p \in Meanings,
         \/ p = m
         \/ /\ q = << >> /\ c.kind = "submit" /\ p = [m EXCEPT ![n] = g.s.selected]
  PROVE  Whole(g, Append(q, c), u, p, n + 1)
<1> DEFINE v == Append(q, c)
           l == Len(q) + 1
<1>0. /\ Channelled(q) /\ Sensible(w) /\ n \in Nat /\ n # None
      /\ g.s.processed \in Nat /\ g.s.placed.request \in Nat
      /\ w.awaiting \in Nat /\ w.view.processed \in Nat /\ w.view.placed.request \in Nat
      /\ \A k : Says(q, k) => k \in Nat /\ q[k].arg \in Nat /\ q[k].arg \in Tasks
  BY HandMeans, NumberTypes DEF Whole, Tasks, None
<1>1. /\ Channelled(v) /\ l \in DOMAIN v /\ v[l] = c /\ l \notin DOMAIN q
      /\ DOMAIN v = DOMAIN q \cup {l}
      /\ \A k \in DOMAIN q : k \in DOMAIN v /\ v[k] = q[k] /\ k < l
  BY <1>0, Appended
<1>l. q = << >> => l = 1
  OBVIOUS
<1>t. l \in Nat
  BY <1>0 DEF Channelled
<1> HIDE DEF v, l
<1>2. /\ \A k : Says(v, k) <=> Says(q, k) \/ k = l
      /\ \A k : Says(q, k) => v[k] = q[k] /\ k < l /\ q[k].arg < n
      /\ g.s.processed < n /\ Below(g, g.s.processed)
  BY <1>1 DEF Says, Whole, Frontier
<1>3. Handles(Hand(u, v))
  BY <1>1, HandMeans
<1>4. Frontier(g, v, n + 1)
  <2>1. ASSUME NEW k, Says(v, k) PROVE g.s.processed < v[k].arg /\ v[k].arg < n + 1
    <3>1. CASE k = l
      BY <1>0, <1>1, <1>2, <3>1
    <3>2. CASE Says(q, k)
      BY <1>0, <1>2, <3>2 DEF Whole, Frontier
    <3> QED BY <1>2, <2>1, <3>1, <3>2
  <2>2. ASSUME NEW j, NEW k, Says(v, j), Says(v, k), j < k PROVE v[j].arg < v[k].arg
    <3>1. CASE k = l
      <4>1. Says(q, j)
        BY <1>2, <1>t, <2>2, <3>1
      <4> QED BY <1>1, <1>2, <3>1, <4>1
    <3>2. CASE Says(q, k)
      <4>1. Says(q, j)
        BY <1>0, <1>2, <1>t, <2>2, <3>2
      <4> QED BY <1>2, <2>2, <3>2, <4>1 DEF Whole, Frontier
    <3> QED BY <1>2, <2>2, <3>1, <3>2
  <2>3. g.s.processed < n + 1
    BY <1>0, <1>2
  <2> QED BY <1>2, <2>1, <2>2, <2>3 DEF Whole, Frontier
<1>5. Awaits(g, v, u, n + 1)
  <2>1. Says(v, l) /\ v[l].arg = n
    BY <1>1, <1>2
  <2>2. w.view.processed < n /\ w.view.placed.request < n
    BY DEF Whole, Awaits
  <2>3. w.view.processed < n + 1 /\ w.view.placed.request < n + 1
        /\ w.view.placed.request # n
    BY <1>0, <2>2
  <2>4. CASE u.awaiting = n
    BY <2>1, <2>2, <2>3, <2>4 DEF Awaits
  <2>5. CASE u.awaiting = w.awaiting
    BY <1>2, <2>1, <2>2, <2>3, <2>5 DEF Whole, Awaits
  <2> QED BY <2>4, <2>5
<1>6. Homes(g, v, p, n + 1)
  <2>1. ASSUME NEW t \in Tasks, m[t] # None
        PROVE  /\ t < n + 1 /\ HomeAt(g, t, m[t]) /\ t # n
               /\ \A k : Says(v, k) /\ v[k].arg = t =>
                    k = 1 /\ v[k].kind = "submit" /\ g.s.selected = m[t]
    <3>1. t < n /\ HomeAt(g, t, m[t])
      BY <2>1 DEF Whole, Homes
    <3>2. t < n + 1 /\ t # n
      BY <1>0, <3>1 DEF Tasks
    <3>3. \A k : Says(v, k) /\ v[k].arg = t => Says(q, k)
      BY <1>1, <1>2, <3>2
    <3> QED BY <1>2, <2>1, <3>1, <3>2, <3>3 DEF Whole, Homes
  <2>2. CASE p = m
    BY <2>1, <2>2 DEF Homes
  <2>3. CASE q = << >> /\ c.kind = "submit" /\ p = [m EXCEPT ![n] = g.s.selected]
    <3>1. m \in Meanings
      BY DEF Whole
    <3>2. p[n] = g.s.selected /\ \A t \in Tasks : t # n => p[t] = m[t]
      BY <2>3, <3>1 DEF Meanings
    <3>3. HomeAt(g, n, g.s.selected)
      <4>1. Absent(g, n)
        BY <1>2 DEF Below
      <4> QED BY <4>1 DEF HomeAt, Absent
    <3>4. \A k : Says(v, k) => k = 1 /\ v[k].kind = "submit"
      <4>1. DOMAIN q = {}
        BY <2>3
      <4> QED BY <1>1, <1>2, <1>l, <2>3, <4>1 DEF Says
    <3>5. n < n + 1
      BY <1>0
    <3> QED BY <2>1, <3>2, <3>3, <3>4, <3>5 DEF Homes
  <2> QED BY <2>2, <2>3
<1> QED
  BY <1>3, <1>4, <1>5, <1>6 DEF v, Whole

-----------------------------------------------------------------------------
\* The steps of the window.

Ghosts == [meant : Meanings, follows : MaybeTask, stopped : BOOLEAN, haste : 0..MaxHaste]
Told == ghost \in Ghosts /\ Whole(Here, cmds, window, ghost.meant, left.fresh)
ToldNext == ghost' \in Ghosts /\ Whole(Then, cmds', window', ghost'.meant, left'.fresh)

LEMMA NextTold == Told' <=> ToldNext
<1>1. Here' = Then
  BY DEF Here, Then
<1> QED
  BY <1>1 DEF Told, ToldNext

LEMMA ToldTypes ==
  ASSUME Standing, Told
  PROVE  /\ Here \in States /\ Here.s = sched /\ Here.l = lanes
         /\ left \in Lefts /\ left.fresh \in Nat /\ left.commands \in Nat
         /\ Whole(Here, cmds, window, ghost.meant, left.fresh)
         /\ ghost \in Ghosts /\ ghost.meant \in Meanings
         /\ Sensible(window) /\ window \in Windows /\ Channelled(cmds)
         /\ Handles(Window0) /\ Window0.w = window /\ Window0.q = cmds
         /\ Single(Here) /\ Bound(sched)
<1>1. Here \in States /\ Here.s = sched /\ Here.l = lanes /\ left \in Lefts
  BY NextState DEF Standing, Stands
<1>2. Handles(Hand(window, cmds)) /\ Window0 = Hand(window, cmds)
  BY DEF Told, Whole, Window0, Hand
<1>3. Sensible(window) /\ Channelled(cmds) /\ window \in Windows
  BY <1>2, HandMeans DEF Sensible
<1>4. Window0.w = window /\ Window0.q = cmds
  BY DEF Window0
<1>5. left.fresh \in Nat /\ left.commands \in Nat
  BY <1>1 DEF Lefts
<1>6. Whole(Here, cmds, window, ghost.meant, left.fresh) /\ ghost \in Ghosts
  BY DEF Told
<1>7. ghost.meant \in Meanings
  BY <1>6 DEF Ghosts
<1> QED
  BY <1>1, <1>2, <1>3, <1>4, <1>5, <1>6, <1>7 DEF Whole

\* Nothing is anywhere.
LEMMA InitTold == ASSUME WindowInit PROVE Standing /\ Backed /\ Told
<1>1. Standing /\ Backed /\ SchedInit
  BY InitStands DEF WindowInit
<1>2. /\ cmds = << >>
      /\ window = [view |-> Published, selection |-> NewPage, requested |-> None,
                   clearing |-> None, back |-> None, awaiting |-> None,
                   initial |-> TRUE, closed |-> FALSE, limit |-> sched.limit]
      /\ ghost = [meant |-> [t \in Tasks |-> None], follows |-> None, haste |-> 0,
                  stopped |-> FALSE]
  BY DEF WindowInit
<1>3. Here \in States /\ Here.s = sched /\ Here.l = lanes
  BY <1>1, NextState DEF Standing, Stands
<1>4. PICK n \in Limits :
        sched = [slots |-> [i \in {1} |-> NewSlot(Blank, FALSE, 1)],
                 pending |-> << >>, selected |-> 1, nextSession |-> 2,
                 nextPending |-> 1, counter |-> 1, limit |-> n,
                 accepted |-> None, processed |-> None,
                 placed |-> [request |-> None, session |-> None, pending |-> 0]]
  BY <1>1 DEF SchedInit
<1>5. /\ DOMAIN sched.slots = {1} /\ sched.slots[1].snap = Blank /\ sched.selected = 1
      /\ sched.pending = << >> /\ DOMAIN sched.pending = {} /\ sched.limit \in Limits
      /\ sched.processed = None /\ sched.placed.request = None
  BY <1>4 DEF NewSlot
<1>6. Bound(sched)
  BY <1>5 DEF Bound
<1>7. \A t \in Tasks : Absent(Here, t)
  <2>1. ASSUME NEW i \in Sessions
        PROVE  lanes[i].view.task = None /\ lanes[i].view.queued = None
               /\ DOMAIN lanes[i].inbox = {}
    <3>1. lanes[i] = IF i = 1 THEN [SpawnLane(None) EXCEPT !.saved = TRUE] ELSE NoLane
      BY <1>1 DEF SchedInit
    <3>2. NoLane \in Lane /\ NoLane.view = Blank /\ DOMAIN NoLane.inbox = {}
      BY NoLaneFacts DEF NoLane
    <3>3. SpawnLane(None) = [NoLane EXCEPT !.up = TRUE, !.view.task = None]
      BY DEF SpawnLane
    <3>4. [SpawnLane(None) EXCEPT !.saved = TRUE].inbox = NoLane.inbox
          /\ [SpawnLane(None) EXCEPT !.saved = TRUE].view = [NoLane.view EXCEPT !.task = None]
      BY <3>2, <3>3 DEF NoLane
    <3> QED BY <3>1, <3>2, <3>4 DEF Blank
  <2>2. None \notin Tasks
    BY DEF None, Tasks
  <2>3. ASSUME NEW t \in Tasks, NEW i \in Sessions PROVE ~Has(Here, i, t)
    <3>1. t # None
      BY <2>2
    <3>2. i \in DOMAIN sched.slots => sched.slots[i].snap.task = None
      BY <1>5 DEF Blank
    <3> QED BY <1>3, <2>1, <3>1, <3>2 DEF Has, Texts
  <2> QED BY <1>3, <1>5, <2>3 DEF Absent
<1>8. Single(Here)
  BY <1>7 DEF Single, Absent
<1>9. Published \in Views /\ Published.session = sched.selected
      /\ Published.processed = sched.processed /\ Published.placed = sched.placed
  BY <1>3, <1>6, PublishedFacts
<1>10. Sensible(window)
  <2>1. NewPage \in Selection /\ NewPage.kind # "Session" /\ None \in MaybeTask
        /\ None # Published.session
    BY <1>5, <1>9, NewPages DEF NewPage, Page, Pages, MaybeTask, None
  <2> QED BY <1>2, <1>5, <1>9, <2>1 DEF Sensible, Windows
<1>11. Channelled(cmds) /\ \A k : ~Says(cmds, k)
  <2>1. DOMAIN cmds = {} /\ Len(cmds) = 0 /\ cmds \in Seq(UserCommand)
    BY <1>2
  <2> QED BY <2>1, WindowAssumption DEF Channelled, Says
<1>12. ghost \in Ghosts /\ ghost.meant \in Meanings /\ \A t \in Tasks : ghost.meant[t] = None
  <2>1. [t \in Tasks |-> None] \in Meanings
    BY DEF Meanings
  <2>2. 0 \in 0..MaxHaste
    BY WindowAssumption
  <2> QED BY <1>2, <2>1, <2>2 DEF Ghosts, MaybeTask
<1>13. left.fresh = 1 /\ None < 1 /\ None <= None
  BY <1>1 DEF SchedInit, None
<1>14. Frontier(Here, cmds, left.fresh)
  BY <1>3, <1>5, <1>7, <1>11, <1>13 DEF Frontier, Below
<1>15. Awaits(Here, cmds, window, left.fresh)
  BY <1>2, <1>5, <1>9, <1>13 DEF Awaits
<1>16. Homes(Here, cmds, ghost.meant, left.fresh)
  BY <1>12 DEF Homes
<1> QED
  BY <1>1, <1>3, <1>6, <1>8, <1>10, <1>11, <1>12, <1>14, <1>15, <1>16, HandMeans DEF Told, Whole

\* The scheduler does not move.
LEMMA StillKeeps ==
  ASSUME Standing, Backed, UNCHANGED Sched, left' \in Lefts
  PROVE  Keeps /\ Then = Here
<1>1. pc' = pc /\ sched' = sched /\ lanes' = lanes /\ disk' = disk
  BY DEF Sched
<1>2. Then = Here
  BY <1>1 DEF Then, Here
<1> QED
  BY <1>1, <1>2, NextState DEF Keeps, Standing, Stands, Backed

LEMMA BackgroundTold ==
  ASSUME Standing, Backed, Told, Background
  PROVE  Keeps /\ ToldNext
<1>1. Keeps /\ Carries(Here, Then) /\ Quietly(Here, Then)
  BY BackgroundStep, ToldTypes
<1>2. window' = window /\ cmds' = cmds /\ ghost' = ghost /\ left' = left
  <2>1. ASSUME Turning PROVE left' = left
    BY <2>1 DEF Turning, RefreshWorkers, Dispatching, Detach, DispatchTarget, DispatchNew,
                DispatchDone, ShutdownAll
  <2>2. ASSUME NEW i \in Sessions, LaneSteps(i) PROVE left' = left
    BY <2>2 DEF LaneSteps, Serve, TakeCommand, FinishCommand, RunTask, RemoveSession, LaneMoves
  <2> QED BY <2>1, <2>2 DEF Background
<1>3. Then \in States
  BY <1>1, NextState DEF Keeps, Stands
<1>4. Whole(Then, cmds, window, ghost.meant, left.fresh)
  BY <1>1, <1>3, ToldTypes, QuietWhole
<1> QED
  BY <1>1, <1>2, <1>4 DEF Told, ToldNext

LEMMA TakeTold ==
  ASSUME Standing, Backed, Told, TakeUserCommand
  PROVE  Keeps /\ ToldNext
<1> DEFINE c == Head(cmds)
           r == HandleCommand(Here, c)
<1>0. /\ cmds # << >> /\ Receive(c) /\ cmds' = Tail(cmds)
      /\ left' = left /\ window' = window /\ ghost' = ghost
  BY DEF TakeUserCommand
<1>1. /\ Here \in States /\ Here.s = sched /\ left \in Lefts /\ Channelled(cmds)
      /\ Whole(Here, cmds, window, ghost.meant, left.fresh) /\ Bound(sched)
  BY ToldTypes
<1>2. Fit(c)
  BY <1>0, <1>1, TailSays
<1> HIDE DEF c
<1>3. /\ pc = "loop" /\ (c.kind \in {"new", "submit"} => Fits(sched))
      /\ sched' = r.s /\ lanes' = r.l
  BY <1>0, Zenon DEF Receive
<1>4. Permits(Here, c) /\ c.kind # "typeAhead"
  BY <1>1, <1>2, <1>3 DEF Permits, Fit, UserCommand, Submissions
<1>5. Keeps
  BY <1>0, <1>1, <1>4, ReceiveStep
<1>6. Then \in States /\ Sound(Here)
  BY <1>3, <1>5, NextState, StandsSound DEF Keeps, Stands, Standing, Ending
<1>7. /\ Bound(r.s)
      /\ c.kind \in Submissions /\ Here.s.processed < c.arg =>
           /\ Travels(Here, r, c.arg, IF c.kind = "new" THEN Sessions \cup {None}
                                      ELSE {Here.s.selected})
           /\ r.s.processed = c.arg /\ r.s.placed.request = c.arg
      /\ c.kind \notin Submissions => Settles(Here, r)
  BY <1>1, <1>4, <1>6, HandleTexts
<1> HIDE DEF r
<1>8. /\ r.s = Then.s /\ r.l = Then.l
  BY <1>3, NextState
<1>9. /\ Bound(Then.s)
      /\ c.kind \in Submissions /\ Here.s.processed < c.arg =>
           /\ Travels(Here, Then, c.arg, IF c.kind = "new" THEN Sessions \cup {None}
                                         ELSE {Here.s.selected})
           /\ Then.s.processed = c.arg /\ Then.s.placed.request = c.arg
      /\ c.kind \notin Submissions => Settles(Here, Then)
  BY <1>7, <1>8 DEF Travels, Settles, Answered, Drops, Gives, Queues, Has
<1>10. Whole(Then, Tail(cmds), window, ghost.meant, left.fresh)
  BY <1>0, <1>1, <1>6, <1>9, TakenWhole DEF c
<1> QED
  BY <1>0, <1>5, <1>10 DEF Told, ToldNext

LEMMA SnapshotTold ==
  ASSUME Standing, Backed, Told, ReceiveSnapshot
  PROVE  Keeps /\ ToldNext
<1> DEFINE v == Published
           r == UpdateSnapshot(Window0, v)
<1>0. /\ UNCHANGED Sched /\ left' = left /\ ghost' = ghost
      /\ window' = r.w /\ cmds' = r.q
  BY DEF ReceiveSnapshot, Becomes
<1>1. /\ Here \in States /\ Here.s = sched /\ left \in Lefts /\ left.fresh \in Nat
      /\ Whole(Here, cmds, window, ghost.meant, left.fresh) /\ Bound(sched)
      /\ Handles(Window0) /\ Window0.w = window /\ Window0.q = cmds
  BY ToldTypes
<1>2. /\ v \in Views /\ v.processed = sched.processed /\ v.placed = sched.placed
  BY <1>1, PublishedFacts
<1> HIDE DEF v
<1>3. /\ Handles(r) /\ r.w.view = v
      /\ r.w.clearing \in {None, window.clearing}
      /\ r.w.clearing # None => v.processed < r.w.clearing
      /\ r.w.awaiting \in {None, window.awaiting}
      /\ r.w.awaiting # None => v.placed.request # r.w.awaiting
      /\ \A k \in DOMAIN cmds : k \in DOMAIN r.q /\ r.q[k] = cmds[k]
      /\ \A k \in DOMAIN r.q \ DOMAIN cmds : r.q[k].kind \notin Submissions
  BY <1>1, <1>2, UpdateMeans
<1> HIDE DEF r
<1>4. Keeps /\ Then = Here
  BY <1>0, <1>1, StillKeeps
<1>5. sched.processed < left.fresh /\ sched.placed.request <= sched.processed
      /\ sched.processed \in Nat /\ sched.placed.request \in Nat
  BY <1>1, NumberTypes DEF Whole, Frontier
<1>6. v.processed < left.fresh /\ v.placed.request < left.fresh
  BY <1>1, <1>2, <1>5
<1>7. Handles(Hand(r.w, r.q)) /\ Grows(cmds, r.q)
  BY <1>3, HandMeans DEF Grows, Handles
<1> DEFINE u == r.w
           q == r.q
<1>8. /\ u.view = v /\ u.clearing \in {None, window.clearing}
      /\ u.clearing # None => v.processed < u.clearing
      /\ u.awaiting \in {None, window.awaiting}
      /\ u.awaiting # None => v.placed.request # u.awaiting
      /\ Handles(Hand(u, q)) /\ Grows(cmds, q)
  BY <1>3, <1>7
<1>9. window' = u /\ cmds' = q
  BY <1>0
<1> HIDE DEF u, q
<1>10. Whole(Here, q, u, ghost.meant, left.fresh)
  BY <1>1, <1>6, <1>8, AskedWhole
<1> QED
  BY <1>0, <1>4, <1>9, <1>10 DEF Told, ToldNext

LEMMA HeedsGhosts ==
  ASSUME ghost \in Ghosts, NEW kind, NEW m \in Meanings, NEW t \in MaybeTask, Heeds(kind, m, t)
  PROVE  ghost' \in Ghosts /\ ghost'.meant = m
<1> DEFINE n == IF InStep THEN ghost.haste ELSE ghost.haste + 1
           b == ghost.stopped \/ kind = "stop"
<1>1. n \in 0..MaxHaste /\ b \in BOOLEAN
  BY WindowAssumption DEF Heeds, Ghosts
<1>2. ghost' = [ghost EXCEPT !.meant = m, !.follows = t, !.stopped = b, !.haste = n]
  BY DEF Heeds, Ghosts
<1> HIDE DEF n, b
<1> QED
  BY <1>1, <1>2 DEF Ghosts

\* The acts of the user that send no text.
LEMMA ActsTold ==
  ASSUME Standing, Backed, Told, NEW kind, NEW h, NEW stays, Acts(kind, h, stays),
         Asks(Window0, h)
  PROVE  Keeps /\ ToldNext
<1>0. /\ left.commands > 0 /\ left' = [left EXCEPT !.commands = @ - 1]
      /\ window' = h.w /\ cmds' = h.q /\ UNCHANGED Sched
      /\ Heeds(kind, ghost.meant, IF stays THEN ghost.follows ELSE None)
  BY DEF Acts, Becomes
<1>1. /\ Here \in States /\ left \in Lefts /\ left.fresh \in Nat
      /\ Whole(Here, cmds, window, ghost.meant, left.fresh)
      /\ Window0.w = window /\ Window0.q = cmds
      /\ ghost \in Ghosts /\ ghost.meant \in Meanings
  BY ToldTypes
<1>2. left' \in Lefts /\ left'.fresh = left.fresh
  <2>1. left.commands - 1 \in 0..MaxCommands
    BY <1>0, <1>1, SchedulerAssumption DEF Lefts
  <2> QED BY <1>0, <1>1, <2>1 DEF Lefts
<1>3. Keeps /\ Then = Here
  BY <1>0, <1>2, StillKeeps
<1>4. ghost' \in Ghosts /\ ghost'.meant = ghost.meant
  <2> DEFINE t == IF stays THEN ghost.follows ELSE None
  <2>1. t \in MaybeTask
    BY <1>1 DEF Ghosts, MaybeTask
  <2>2. Heeds(kind, ghost.meant, t)
    BY <1>0
  <2> HIDE DEF t
  <2> QED BY <1>1, <2>1, <2>2, HeedsGhosts
<1> DEFINE u == h.w
           q == h.q
<1>5. /\ Handles(Hand(u, q)) /\ Grows(cmds, q) /\ u.view = window.view
      /\ u.clearing = window.clearing /\ u.awaiting = window.awaiting
  BY <1>1, HandMeans DEF Asks, Handles, Grows
<1>6. window' = u /\ cmds' = q
  BY <1>0
<1> HIDE DEF u, q
<1>7. Whole(Here, q, u, ghost.meant, left.fresh)
  BY <1>1, <1>5, AskedWhole DEF Whole, Awaits
<1> QED
  BY <1>2, <1>3, <1>4, <1>6, <1>7 DEF ToldNext

LEMMA SelectRowTold ==
  ASSUME Standing, Backed, Told, SelectRow
  PROVE  Keeps /\ ToldNext
<1>0. Handles(Window0) /\ window \in Windows
  BY ToldTypes
<1>1. PICK page \in {NewPage} \cup {Page("Session", i) : i \in Listed(window)}
                      \cup {Page("Pending", p) : p \in Waiting(window)} :
        Acts("select", SelectPage(Window0, page), FALSE)
  BY DEF SelectRow
<1>2. page \in Pages
  BY <1>0, NewPages, ViewTypes
<1>3. Asks(Window0, SelectPage(Window0, page))
  BY <1>0, <1>2, SelectPageAsks
<1> QED
  BY <1>1, <1>3, ActsTold

LEMMA OnMeans ==
  ASSUME window \in Windows, NEW i \in Listed(window), On(window, i)
  PROVE  i \in Sessions /\ window.selection.id = i
<1>1. Page("Session", i).id = i /\ window.selection = Page("Session", i)
  BY DEF Page, On
<1> QED
  BY <1>1, ViewTypes

LEMMA PressHeaderTold ==
  ASSUME Standing, Backed, Told, PressHeader
  PROVE  Keeps /\ ToldNext
<1>0. Handles(Window0) /\ window \in Windows /\ Window0.w = window
  BY ToldTypes
<1>1. PICK i \in Listed(window) : \E kind \in HeaderActions(window.view.list[i]) :
        On(window, i) /\ Acts(kind, RunSelected(Window0, kind), TRUE)
  BY DEF PressHeader
<1>2. PICK kind \in HeaderActions(window.view.list[i]) :
        On(window, i) /\ Acts(kind, RunSelected(Window0, kind), TRUE)
  BY <1>1
<1>3. kind \in {"pause", "stop", "resume"}
  BY DEF HeaderActions
<1>4. kind \in Requests \ (Submissions \cup {"typeAhead", "limit"})
  BY <1>3 DEF Requests, Submissions
<1>5. Window0.w.selection.id \in Sessions
  BY <1>0, <1>2, OnMeans
<1>6. Asks(Window0, RunSelected(Window0, kind))
  BY <1>0, <1>4, <1>5, RunSelectedAsks
<1> QED
  BY <1>2, <1>6, ActsTold

LEMMA WithdrawMessageTold ==
  ASSUME Standing, Backed, Told, WithdrawMessage
  PROVE  Keeps /\ ToldNext
<1>0. Handles(Window0) /\ window \in Windows /\ Window0.w = window
  BY ToldTypes
<1>1. PICK i \in Listed(window) :
        /\ On(window, i)
        /\ IF window.view.queued # None
           THEN Acts("withdraw", RunSelected(Window0, "withdraw"), TRUE)
           ELSE \E id \in FollowUps(window, i) :
                  Acts("withdraw", CancelEntry(Window0, id), TRUE)
  BY DEF WithdrawMessage
<1>2. CASE Acts("withdraw", RunSelected(Window0, "withdraw"), TRUE)
  <2>1. "withdraw" \in Requests \ (Submissions \cup {"typeAhead", "limit"})
    BY DEF Requests, Submissions
  <2>2. Window0.w.selection.id \in Sessions
    BY <1>0, <1>1, OnMeans
  <2>3. Asks(Window0, RunSelected(Window0, "withdraw"))
    BY <1>0, <2>1, <2>2, RunSelectedAsks
  <2> QED BY <1>2, <2>3, ActsTold
<1>3. ASSUME NEW id \in FollowUps(window, i), Acts("withdraw", CancelEntry(Window0, id), TRUE)
      PROVE  Keeps /\ ToldNext
  <2>1. id \in Nat
    BY <1>0, ViewTypes
  <2>2. Asks(Window0, CancelEntry(Window0, id))
    BY <1>0, <2>1, CancelEntryAsks
  <2> QED BY <1>3, <2>2, ActsTold
<1> QED
  BY <1>1, <1>2, <1>3

LEMMA DismissSelectedTold ==
  ASSUME Standing, Backed, Told, DismissSelected
  PROVE  Keeps /\ ToldNext
<1>0. Handles(Window0) /\ window \in Windows
  BY ToldTypes
<1>1. PICK i \in Listed(window) :
        Acts("dismiss", SelectPage(TrySend(Window0, "dismiss", i), NewPage), FALSE)
  BY DEF DismissSelected
<1> DEFINE h == TrySend(Window0, "dismiss", i)
<1>2. "dismiss" \in Requests \ (Submissions \cup {"typeAhead"}) /\ "dismiss" # "limit"
      /\ i \in Nat
  BY <1>0, ViewTypes DEF Requests, Submissions, Sessions
<1>3. Asks(Window0, h)
  BY <1>0, <1>2, TrySendAsks
<1>4. Acts("dismiss", SelectPage(h, NewPage), FALSE)
  BY <1>1
<1> HIDE DEF h
<1>5. Asks(Window0, SelectPage(h, NewPage))
  BY <1>3, NewPages, SelectPageAsks, AsksTwice DEF Asks
<1> QED
  BY <1>4, <1>5, ActsTold

LEMMA CancelWaitingTold ==
  ASSUME Standing, Backed, Told, CancelWaiting
  PROVE  Keeps /\ ToldNext
<1>0. Handles(Window0) /\ window \in Windows
  BY ToldTypes
<1>1. PICK id \in Waiting(window) : Acts("cancel", CancelEntry(Window0, id), FALSE)
  BY DEF CancelWaiting
<1>2. id \in Nat
  BY <1>0, ViewTypes
<1>3. Asks(Window0, CancelEntry(Window0, id))
  BY <1>0, <1>2, CancelEntryAsks
<1> QED
  BY <1>1, <1>3, ActsTold

LEMMA ClearListTold ==
  ASSUME Standing, Backed, Told, ClearList
  PROVE  Keeps /\ ToldNext
<1> DEFINE h == TrySend(Window0, "clear", None)
<1>0. Handles(Window0)
  BY ToldTypes
<1>1. \/ Acts("clear", SelectPage(h, NewPage), FALSE)
      \/ Acts("clear", h, FALSE)
  BY DEF ClearList
<1>2. "clear" \in Requests \ (Submissions \cup {"typeAhead"}) /\ "clear" # "limit"
      /\ None \in Nat
  BY DEF Requests, Submissions, None
<1>3. Asks(Window0, h)
  BY <1>0, <1>2, TrySendAsks
<1> HIDE DEF h
<1>4. Asks(Window0, SelectPage(h, NewPage))
  BY <1>3, NewPages, SelectPageAsks, AsksTwice DEF Asks
<1> QED
  BY <1>1, <1>3, <1>4, ActsTold

\* A field of the window that nothing here depends on.
LEMMA AdjustConcurrencyTold ==
  ASSUME Standing, Backed, Told, AdjustConcurrency
  PROVE  Keeps /\ ToldNext
<1>0. Handles(Window0) /\ window \in Windows /\ Window0.w = window /\ Sensible(window)
  BY ToldTypes
<1>1. PICK n \in Limits \ {window.limit} :
        Acts("limit", TrySend([Window0 EXCEPT !.w.limit = n], "limit", n), TRUE)
  BY DEF AdjustConcurrency
<1> DEFINE w == [window EXCEPT !.limit = n]
           h == [Window0 EXCEPT !.w.limit = n]
           g == [Window0 EXCEPT !.w = w]
<1>2. /\ w \in Windows /\ w.view = window.view /\ w.requested = window.requested
      /\ w.selection = window.selection /\ w.clearing = window.clearing
      /\ w.awaiting = window.awaiting
  BY <1>0 DEF Windows
<1>3. h = g
  BY <1>0 DEF Handles, Windows
<1>4. Acts("limit", TrySend(h, "limit", n), TRUE)
  BY <1>1
<1> HIDE DEF w, h
<1>5. Sensible(w)
  BY <1>0, <1>2 DEF Sensible
<1>6. Asks(Window0, g)
  BY <1>0, <1>2, <1>5, WindowAsks
<1>7. Asks(Window0, h)
  BY <1>3, <1>6
<1>8. "limit" \in Requests \ (Submissions \cup {"typeAhead"}) /\ n \in Nat
  BY SchedulerAssumption DEF Requests, Submissions
<1>9. Asks(h, TrySend(h, "limit", n))
  BY <1>7, <1>8, TrySendAsks DEF Asks
<1>10. Asks(Window0, TrySend(h, "limit", n))
  BY <1>7, <1>9, AsksTwice
<1> QED
  BY <1>4, <1>10, ActsTold

LEMMA CloseTold ==
  ASSUME Standing, Backed, Told, Close
  PROVE  Keeps /\ ToldNext
<1>0. Handles(Window0) /\ window \in Windows /\ Window0.w = window /\ Sensible(window)
  BY ToldTypes
<1> DEFINE w == [window EXCEPT !.closed = TRUE]
           h == [Window0 EXCEPT !.w.closed = TRUE]
           g == [Window0 EXCEPT !.w = w]
<1>1. Acts("quit", TrySend(h, "quit", None), TRUE)
  BY DEF Close
<1>2. /\ w \in Windows /\ w.view = window.view /\ w.requested = window.requested
      /\ w.selection = window.selection /\ w.clearing = window.clearing
      /\ w.awaiting = window.awaiting
  BY <1>0 DEF Windows
<1>3. h = g
  BY <1>0 DEF Handles, Windows
<1> HIDE DEF w, h
<1>5. Sensible(w)
  BY <1>0, <1>2 DEF Sensible
<1>6. Asks(Window0, g)
  BY <1>0, <1>2, <1>5, WindowAsks
<1>7. Asks(Window0, h)
  BY <1>3, <1>6
<1>8. "quit" \in Requests \ (Submissions \cup {"typeAhead"}) /\ "quit" # "limit"
      /\ None \in Nat
  BY DEF Requests, Submissions, None
<1>9. Asks(h, TrySend(h, "quit", None))
  BY <1>7, <1>8, TrySendAsks DEF Asks
<1>10. Asks(Window0, TrySend(h, "quit", None))
  BY <1>7, <1>9, AsksTwice
<1> QED
  BY <1>1, <1>10, ActsTold

\* What the composer's text is for.
LEMMA ComposerMeans ==
  ASSUME NEW w \in Windows, Sensible(w)
  PROVE  /\ ComposerTarget(w) \in {"NewTask", "Blocked", "FollowUp"}
         /\ ComposerTarget(w) = "FollowUp" =>
              w.selection.id \in Sessions /\ w.view.session = w.selection.id
BY DEF ComposerTarget, Sensible

LEMMA SubmitTold ==
  ASSUME Standing, Backed, Told, Submit
  PROVE  Keeps /\ ToldNext
<1> DEFINE t == left.fresh
           kind == ComposerTarget(window)
           h == IF kind = "FollowUp"
                THEN RequestRuntimeSelection(Window0, window.selection.id) ELSE Window0
           sent == IF kind = "NewTask" THEN "new" ELSE "submit"
           c == [kind |-> sent, arg |-> t]
           g == [h EXCEPT !.w.clearing = t, !.w.back = None,
                          !.w.awaiting = IF kind = "NewTask" THEN t ELSE @]
           next == IF kind = "NewTask" THEN t ELSE h.w.awaiting
           u == [h.w EXCEPT !.clearing = t, !.back = None, !.awaiting = next]
           m == IF kind = "FollowUp" /\ InStep
                THEN [ghost.meant EXCEPT ![t] = window.selection.id] ELSE ghost.meant
           follows == IF kind = "NewTask" THEN t ELSE None
<1>0. /\ t \in Tasks /\ kind # "Blocked" /\ HasRoomFor(h)
      /\ Becomes(TrySend(g, sent, t))
      /\ left' = [left EXCEPT !.fresh = @ + 1] /\ UNCHANGED Sched
      /\ Heeds("submit", m, follows)
  BY DEF Submit
<1>1. /\ Here \in States /\ Here.s = sched /\ left \in Lefts /\ left.fresh \in Nat
      /\ Whole(Here, cmds, window, ghost.meant, left.fresh)
      /\ Handles(Window0) /\ Window0.w = window /\ Window0.q = cmds
      /\ ghost \in Ghosts /\ ghost.meant \in Meanings
      /\ window \in Windows /\ Sensible(window) /\ Bound(sched)
  BY ToldTypes
<1>2. /\ kind \in {"NewTask", "FollowUp"}
      /\ kind = "FollowUp" =>
           window.selection.id \in Sessions /\ window.view.session = window.selection.id
  BY <1>0, <1>1, ComposerMeans
<1> HIDE DEF kind
<1>3. Asks(Window0, h)
  BY <1>1, <1>2, RequestAsks, AsksSelf
<1>4. kind = "FollowUp" => h = Window0
  BY <1>1, <1>2 DEF RequestRuntimeSelection
<1>5. left' \in Lefts /\ left'.fresh = t + 1
  <2>1. left.fresh + 1 \in 1..(MaxTask + 1)
    BY <1>0, LaneAssumption DEF Tasks
  <2> QED BY <1>0, <1>1, <2>1 DEF Lefts
<1>6. Keeps /\ Then = Here
  BY <1>0, <1>5, StillKeeps
<1>7. m \in Meanings /\ follows \in MaybeTask
  BY <1>0, <1>1, <1>2 DEF Meanings, MaybeTask
<1>8. \/ m = ghost.meant
      \/ kind = "FollowUp" /\ cmds = << >> /\ m = [ghost.meant EXCEPT ![t] = sched.selected]
  <2>1. ASSUME kind = "FollowUp", InStep PROVE window.selection.id = sched.selected
    <3>1. Published.session = sched.selected
      BY <1>1, PublishedFacts
    <3> QED BY <1>2, <2>1, <3>1 DEF InStep
  <2> QED BY <2>1 DEF InStep
<1>9. c.kind = sent /\ c.arg = t /\ sent \in Submissions /\ Fit(c)
  <2>1. sent \in Requests /\ sent \in Submissions /\ sent # "typeAhead" /\ sent # "limit"
    BY DEF Requests, Submissions
  <2>2. t \in Nat /\ c.kind = sent /\ c.arg = t
    BY <1>1
  <2>3. c \in UserCommand
    BY <2>1, <2>2 DEF UserCommand
  <2> QED BY <1>0, <2>1, <2>2, <2>3 DEF Fit
<1>s. kind = "FollowUp" => sent = "submit"
  OBVIOUS
<1>10. /\ Handles(h) /\ h.w \in Windows /\ Sensible(h.w) /\ h.w.view = window.view
       /\ h.w.clearing = window.clearing /\ h.w.awaiting = window.awaiting
       /\ Handles(Hand(h.w, h.q)) /\ Grows(cmds, h.q)
       /\ h.q \in Seq(UserCommand)
  <2>1. /\ Handles(h) /\ h.w.view = window.view
        /\ h.w.clearing = window.clearing /\ h.w.awaiting = window.awaiting
        /\ Grows(cmds, h.q)
    BY <1>1, <1>3 DEF Asks, Grows
  <2>2. Sensible(h.w) /\ Channelled(h.q) /\ h.w \in Windows /\ h.q \in Seq(UserCommand)
    BY <2>1 DEF Handles
  <2>3. Handles(Hand(h.w, h.q))
    BY <2>2, HandMeans
  <2> QED BY <2>1, <2>2, <2>3
<1> HIDE DEF h, t, sent, c, m, follows
<1>11. next \in {t, window.awaiting} /\ next \in MaybeTask
  BY <1>0, <1>1, <1>10 DEF MaybeTask, Windows
<1>12. g = [h EXCEPT !.w = u]
  BY <1>10 DEF Handles, Windows
<1> HIDE DEF next, g
<1>13. /\ u \in Windows /\ u.view = window.view /\ u.clearing = t /\ u.awaiting = next
       /\ u.requested = h.w.requested /\ u.selection = h.w.selection
  BY <1>0, <1>10, <1>11 DEF Windows, MaybeTask
<1> HIDE DEF u
<1>14. Sensible(u)
  BY <1>10, <1>13 DEF Sensible
<1>15. g.w = u /\ g.q = h.q /\ g \in [w : Windows, q : Seq(UserCommand)]
  BY <1>10, <1>12, <1>13 DEF Handles
<1> DEFINE q == Append(h.q, c)
<1>16. window' = u /\ cmds' = q
  <2>1. HasRoomFor(g)
    BY <1>0, <1>15 DEF HasRoomFor
  <2>2. TrySend(g, sent, t) = [g EXCEPT !.q = q]
    BY <1>15, <2>1 DEF TrySend, c
  <2> HIDE DEF q
  <2>3. [g EXCEPT !.q = q].w = u /\ [g EXCEPT !.q = q].q = q
    BY <1>15
  <2> QED BY <1>0, <2>2, <2>3 DEF Becomes
<1> DEFINE v == h.q
           w == h.w
<1>17. Whole(Here, v, w, ghost.meant, t)
  <2>1. /\ Handles(Hand(w, v)) /\ Grows(cmds, v) /\ w.view = window.view
        /\ w.clearing = window.clearing /\ w.awaiting = window.awaiting
    BY <1>10
  <2> HIDE DEF v, w
  <2> QED BY <1>1, <2>1, AskedWhole DEF Whole, Awaits, t
<1>18. /\ Len(v) < Channel /\ u.view = w.view /\ u.awaiting \in {t, w.awaiting}
       /\ \/ m = ghost.meant
          \/ v = << >> /\ c.kind = "submit" /\ m = [ghost.meant EXCEPT ![t] = Here.s.selected]
  BY <1>0, <1>1, <1>4, <1>8, <1>9, <1>s, <1>10, <1>11, <1>13 DEF HasRoomFor
<1>19. Whole(Here, Append(v, c), u, m, t + 1)
  <2> HIDE DEF v, w
  <2> QED BY <1>0, <1>1, <1>7, <1>9, <1>13, <1>14, <1>17, <1>18, SubmittedWhole
<1>20. ghost' \in Ghosts /\ ghost'.meant = m
  BY <1>0, <1>1, <1>7, HeedsGhosts
<1> QED
  BY <1>5, <1>6, <1>16, <1>19, <1>20 DEF ToldNext

-----------------------------------------------------------------------------
Inv == Standing /\ Backed /\ Told

LEMMA EveryWindowStep ==
  ASSUME Inv, [WindowNext]_winVars
  PROVE  Inv'
<1>1. ASSUME UNCHANGED winVars PROVE Keeps /\ ToldNext
  <2>1. UNCHANGED Sched /\ left' = left /\ window' = window /\ cmds' = cmds /\ ghost' = ghost
    BY <1>1 DEF winVars, Sched
  <2>2. left \in Lefts
    BY NextState DEF Inv, Standing, Stands
  <2>3. Keeps /\ Then = Here
    BY <2>1, <2>2, StillKeeps DEF Inv
  <2> QED BY <2>1, <2>3 DEF Inv, Told, ToldNext
<1>2. ASSUME UserMoves PROVE Keeps /\ ToldNext
  BY <1>2, SubmitTold, SelectRowTold, PressHeaderTold, WithdrawMessageTold,
     DismissSelectedTold, CancelWaitingTold, ClearListTold, AdjustConcurrencyTold,
     CloseTold DEF UserMoves, Inv
<1>3. Keeps /\ ToldNext
  BY <1>1, <1>2, SnapshotTold, TakeTold, BackgroundTold DEF WindowNext, Inv
<1> QED
  BY <1>3, NextTold DEF Keeps, Inv

\* The one conversation and the one entry that can have a text.
LEMMA OneOrNone ==
  ASSUME NEW S, IsFiniteSet(S), \A x, y \in S : x = y
  PROVE  Cardinality(S) <= 1 /\ (S = {} => Cardinality(S) = 0) /\ Cardinality(S) \in Nat
<1>1. CASE S = {}
  BY <1>1, FS_EmptySet
<1>2. ASSUME S # {} PROVE Cardinality(S) = 1
  <2>1. PICK x : x \in S
    BY <1>2
  <2>2. S = {x}
    BY <2>1
  <2> QED BY <2>2, FS_Singleton
<1> QED
  BY <1>1, <1>2

LEMMA HoldersHave ==
  ASSUME Standing, NEW t \in Tasks
  PROVE  /\ \A i \in Holders(t) : i \in Sessions /\ Has(Here, i, t)
         /\ \A k \in Entries(t) : k \in DOMAIN sched.pending /\ Waits(sched.pending, k, t)
         /\ IsFiniteSet(Holders(t)) /\ IsFiniteSet(Entries(t))
<1>1. Here \in States /\ Here.s = sched /\ Here.l = lanes
  BY NextState DEF Standing, Stands
<1>2. \A i \in Holders(t) : i \in Sessions /\ Has(Here, i, t)
  BY <1>1 DEF Holders, HoldsText, Has, Texts
<1>3. \A k \in Entries(t) : k \in DOMAIN sched.pending /\ Waits(sched.pending, k, t)
  BY DEF Entries, Waits
<1>4. IsFiniteSet(Holders(t))
  BY SessionsCounted DEF Holders
<1>5. IsFiniteSet(Entries(t))
  <2>1. sched.pending \in Seq(Pending)
    BY <1>1, StateTypes
  <2>2. DOMAIN sched.pending = 1..Len(sched.pending) /\ Len(sched.pending) \in Int /\ 1 \in Int
    BY <2>1
  <2>3. IsFiniteSet(DOMAIN sched.pending)
    BY <2>2, FS_Interval
  <2> QED BY <2>3, FS_Subset DEF Entries
<1> QED
  BY <1>2, <1>3, <1>4, <1>5

LEMMA ToldMeans ==
  ASSUME Standing, Told
  PROVE  WindowTypeOK /\ OnePlace /\ FollowUpsArrive /\ SubmissionAnswered
<1>0. /\ Here \in States /\ Here.s = sched /\ Here.l = lanes
      /\ Whole(Here, cmds, window, ghost.meant, left.fresh)
      /\ ghost \in Ghosts /\ ghost.meant \in Meanings
      /\ Sensible(window) /\ window \in Windows /\ Channelled(cmds)
      /\ Single(Here) /\ Bound(sched)
  BY ToldTypes
<1>1. WindowTypeOK
  <2>1. /\ window.requested # window.view.session
        /\ window.selection \in Selection /\ window.requested \in Sessions \cup {None}
        /\ window.clearing \in MaybeTask /\ window.back \in MaybeTask
        /\ window.awaiting \in MaybeTask
        /\ window.initial \in BOOLEAN /\ window.closed \in BOOLEAN /\ window.limit \in Limits
        /\ window.view \in Views
    BY <1>0 DEF Sensible, Windows
  <2>2. window.view.list \in [DOMAIN window.view.list -> Summary]
    BY <2>1 DEF Views
  <2>3. cmds \in Seq(UserCommand) /\ Len(cmds) <= Channel
    BY <1>0 DEF Channelled
  <2>4. /\ ghost.meant \in [Tasks -> Sessions \cup {None}]
        /\ ghost.follows \in MaybeTask /\ ghost.stopped \in BOOLEAN
        /\ ghost.haste \in 0..MaxHaste
    BY <1>0 DEF Ghosts, Meanings
  <2> QED BY <2>1, <2>2, <2>3, <2>4 DEF WindowTypeOK
<1>2. OnePlace
  <2> SUFFICES ASSUME NEW t \in Tasks
               PROVE  Cardinality(Holders(t)) + Cardinality(Entries(t)) <= 1
    BY DEF OnePlace
  <2> DEFINE S == Holders(t)
             P == Entries(t)
  <2>1. /\ \A i \in S : i \in Sessions /\ Has(Here, i, t)
        /\ \A k \in P : k \in DOMAIN sched.pending /\ Waits(sched.pending, k, t)
        /\ IsFiniteSet(S) /\ IsFiniteSet(P)
    BY HoldersHave
  <2> HIDE DEF S, P
  <2>2. \A x, y \in S : x = y
    BY <1>0, <2>1 DEF Single
  <2>3. \A x, y \in P : x = y
    BY <1>0, <2>1 DEF Single
  <2>4. S = {} \/ P = {}
    BY <1>0, <2>1 DEF Single
  <2>5. /\ Cardinality(S) <= 1 /\ Cardinality(S) \in Nat /\ (S = {} => Cardinality(S) = 0)
        /\ Cardinality(P) <= 1 /\ Cardinality(P) \in Nat /\ (P = {} => Cardinality(P) = 0)
    BY <2>1, <2>2, <2>3, OneOrNone
  <2>6. Cardinality(S) + Cardinality(P) <= 1
    BY <2>4, <2>5
  <2> QED BY <2>6 DEF S, P
<1>3. FollowUpsArrive
  <2> SUFFICES ASSUME NEW t \in Tasks, ghost.meant[t] # None
               PROVE  /\ Holders(t) \subseteq {ghost.meant[t]}
                      /\ \A k \in Entries(t) : sched.pending[k].target = ghost.meant[t]
    BY DEF FollowUpsArrive
  <2>1. HomeAt(Here, t, ghost.meant[t])
    BY <1>0 DEF Whole, Homes
  <2> QED BY <1>0, <2>1, HoldersHave DEF HomeAt
<1>4. SubmissionAnswered
  <2> SUFFICES ASSUME InStep
               PROVE  /\ window.clearing = None
                      /\ window.awaiting # None => sched.placed.request > window.awaiting
    BY DEF SubmissionAnswered
  <2>1. /\ window.view.processed = sched.processed /\ window.view.placed = sched.placed
    BY <1>0, PublishedFacts DEF InStep
  <2>2. \A k : ~Says(cmds, k)
    <3>1. cmds = << >>
      BY DEF InStep
    <3>2. DOMAIN cmds = {}
      BY <3>1
    <3> QED BY <3>2 DEF Says
  <2>3. /\ window.clearing \in Nat /\ window.awaiting \in Nat
        /\ sched.processed \in Nat /\ sched.placed.request \in Nat
    BY <1>0, NumberTypes
  <2>4. /\ window.clearing # None => /\ sched.processed < window.clearing
                                     /\ window.clearing <= sched.processed
        /\ window.awaiting # None => /\ sched.placed.request # window.awaiting
                                     /\ window.awaiting <= sched.placed.request
    BY <1>0, <2>1, <2>2 DEF Whole, Awaits
  <2> QED BY <2>3, <2>4
<1> QED
  BY <1>1, <1>2, <1>3, <1>4

LEMMA AlwaysInv == WindowSpec => []Inv
<1>1. WindowInit => Inv
  BY InitTold DEF Inv
<1>2. Inv /\ [WindowNext]_winVars => Inv'
  BY EveryWindowStep
<1> QED
  BY <1>1, <1>2, PTL DEF WindowSpec

\* The conversation that the window has asked the scheduler for is never the
\* one that it shows: a selection that has landed can be asked for again
\* (request_runtime_selection, update_snapshot).
THEOREM WindowTypeCorrect == WindowSpec => []WindowTypeOK
<1>1. Inv => WindowTypeOK
  BY ToldMeans DEF Inv
<1> QED
  BY <1>1, AlwaysInv, PTL

\* A text is in one place, whatever the user does and however late his window
\* learns of it: configure, the queue that is served while he withdraws from
\* it, and a dismissal make no second copy of it.
THEOREM OnePlaceCorrect == WindowSpec => []OnePlace
<1>1. Inv => OnePlace
  BY ToldMeans DEF Inv
<1> QED
  BY <1>1, AlwaysInv, PTL

\* A follow-up that was typed while the window was up to date is in the
\* conversation it was typed into or waits for it, whatever the user selects,
\* stops or dismisses meanwhile (composer_target, start_configured,
\* dispatch_pending, dismiss_session).
THEOREM FollowUpsArriveCorrect == WindowSpec => []FollowUpsArrive
<1>1. Inv => FollowUpsArrive
  BY ToldMeans DEF Inv
<1> QED
  BY <1>1, AlwaysInv, PTL

\* The composer learns what became of its text, whatever the workers do:
\* update_snapshot waits for processed_request_id, which handle_command sets
\* for every submission that it takes.
THEOREM SubmissionAnsweredCorrect == WindowSpec => []SubmissionAnswered
<1>1. Inv => SubmissionAnswered
  BY ToldMeans DEF Inv
<1> QED
  BY <1>1, AlwaysInv, PTL
=============================================================================
