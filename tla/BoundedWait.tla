---------------------------- MODULE BoundedWait ----------------------------
(***************************************************************************)
(* What a bounded wait promises its caller: whatever it did meanwhile, its *)
(* verdict is about the cloud as it is at the step that ends the wait.     *)
(* ObserveLoop implements this specification; the resource modules use it  *)
(* to model a wait by the single observation that ends it.                 *)
(***************************************************************************)
EXTENDS CloudErrors

CONSTANTS Observed,     \* everything a read can return, absence included
          Pending       \* the outcome of a wait that has not ended

VARIABLES cloud,        \* what a read would return now
          ready,        \* the observations the wait accepts
          outcome       \* Pending, or the verdict

vars == <<cloud, ready, outcome>>

Completed(v) == [tag |-> "Completed", value |-> v]
Exhausted(v) == [tag |-> "Exhausted", value |-> v]
Surfaced(e)  == [tag |-> "Error", error |-> e]

Init ==
    /\ cloud \in Observed
    /\ ready \in SUBSET Observed
    /\ outcome = Pending

\* The cloud moves on its own.
Drift ==
    /\ cloud' \in Observed
    /\ UNCHANGED <<ready, outcome>>

Succeed ==
    /\ outcome = Pending
    /\ cloud \in ready
    /\ outcome' = Completed(cloud)
    /\ UNCHANGED <<cloud, ready>>

Exhaust ==
    /\ outcome = Pending
    /\ cloud \notin ready
    /\ outcome' = Exhausted(cloud)
    /\ UNCHANGED <<cloud, ready>>

\* A wait may give up on an error, but never on one that proves absence.
GiveUp ==
    /\ outcome = Pending
    /\ \E e \in Error : ~isNotFound(e) /\ outcome' = Surfaced(e)
    /\ UNCHANGED <<cloud, ready>>

Next == Drift \/ Succeed \/ Exhaust \/ GiveUp

Spec == Init /\ [][Next]_vars
=============================================================================
