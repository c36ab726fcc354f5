------------------------------ MODULE LaneQueue ------------------------------
(***************************************************************************)
(* What the scheduler promises: a queue served in order by a limited       *)
(* number of lanes.  Nothing that waits is lost, repeated or reordered,    *)
(* not even by a restart; it leaves at the head when a lane takes it, or   *)
(* because the user withdraws it or the conversation it is bound to.       *)
(* A lane is a conversation that runs, as far as the scheduler knows.      *)
(* Scheduler.tla shows the code to implement this.                         *)
(***************************************************************************)
EXTENDS Naturals, FiniteSets, Sequences

CONSTANTS Lanes,      \* conversations
          Entries,    \* what may wait
          Bounds,     \* limits
          Target(_),  \* the lane an entry is bound to, Free if any will do
          Free,
          Unbound(_)  \* the entry that is left when that lane is gone

VARIABLES waiting, busy, limit
vars == <<waiting, busy, limit>>

HasRoom == Cardinality(busy) < limit

Init == waiting = << >> /\ busy = {} /\ limit \in Bounds

\* Withdrawals keep the order of the rest: v is w without some entries.
Fewer(v, w) ==
  \E from \in [DOMAIN v -> DOMAIN w] :
    /\ \A j, k \in DOMAIN v : j < k => from[j] < from[k]
    /\ \A k \in DOMAIN v : v[k] = w[from[k]]

\* A new entry waits only when there is no room.
Join == /\ ~HasRoom
        /\ \E e \in Entries : waiting' = Append(waiting, e)
        /\ UNCHANGED <<busy, limit>>

Leave == Fewer(waiting', waiting) /\ UNCHANGED <<busy, limit>>

Occupy(l) == HasRoom /\ l \notin busy /\ busy' = busy \cup {l} /\ UNCHANGED limit

\* Work that the user starts directly, without having waited.
StartDirectly == /\ \E l \in Lanes : Occupy(l)
                 /\ Fewer(waiting', waiting)

StartHead == /\ waiting # << >>
             /\ \E l \in Lanes : /\ Target(Head(waiting)) \in {l, Free}
                                 /\ Occupy(l)
             /\ Fewer(waiting', Tail(waiting))

LoseTarget == /\ waiting # << >>
              /\ waiting' = <<Unbound(Head(waiting))>> \o Tail(waiting)
              /\ UNCHANGED <<busy, limit>>

Release == busy' \subseteq busy /\ UNCHANGED <<waiting, limit>>

SetLimit == limit' \in Bounds /\ UNCHANGED <<waiting, busy>>

\* What ran may run again, within the limit that is then in force.
Restart == /\ limit' \in Bounds
           /\ busy' \in SUBSET Lanes /\ Cardinality(busy') <= limit'
           /\ UNCHANGED waiting

Next == \/ Join \/ Leave \/ StartDirectly \/ StartHead \/ LoseTarget
        \/ Release \/ SetLimit \/ Restart

Spec == Init /\ [][Next]_vars
=============================================================================
