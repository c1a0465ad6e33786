--------------------------- MODULE MCTairInstance ---------------------------
(* Model values for TairInstance: two desired inputs that differ in every  *)
(* field, and the circumstances of an instance of one's own or one whose   *)
(* name somebody else uses too.                                            *)
EXTENDS TairInstance

small == [spec |-> "small", prot |-> FALSE, auth |-> "Open", settings |-> "plain"]
large == [spec |-> "large", prot |-> TRUE, auth |-> "Close", settings |-> "tuned"]

Calm == [late |-> FALSE, releases |-> FALSE, lapses |-> FALSE, namesakes |-> 0,
         upsets |-> 2]
Lapsing == [Calm EXCEPT !.lapses = TRUE, !.upsets = 3]
Unsteady == [Calm EXCEPT !.late = TRUE, !.releases = TRUE]
Shared == [Calm EXCEPT !.releases = TRUE, !.namesakes = 1, !.upsets = 1]

MCSetup == {Lapsing, Unsteady, Shared}
MCWanted == {small, large}
=============================================================================
