------------------------------ MODULE MCRules -------------------------------
(***************************************************************************)
(* Three components that stand alone, checked in one run: each behaviour   *)
(* is a behaviour of one of them, while the others rest.                   *)
(***************************************************************************)
EXTENDS Timing, Store, Outcome

VARIABLE part

vars == <<part, timingVars, storeVars, outcomeVars>>

Init ==
  \/ part = "timing" /\ TimingInit /\ StoreStart("state", {}, NoFile) /\ OutcomeInit
  \/ part = "store" /\ TimingStart(TRUE, 0) /\ StoreInit /\ OutcomeInit
  \/ /\ part = "outcome" /\ TimingStart(TRUE, 0)
     /\ StoreStart("state", {}, NoFile) /\ OutcomeInit

Next ==
  \/ part = "timing" /\ TimingNext /\ UNCHANGED <<part, storeVars, outcomeVars>>
  \/ part = "store" /\ StoreNext /\ UNCHANGED <<part, timingVars, outcomeVars>>
  \/ part = "outcome" /\ OutcomeNext /\ UNCHANGED <<part, timingVars, storeVars>>

Spec == Init /\ [][Next]_vars
=============================================================================
