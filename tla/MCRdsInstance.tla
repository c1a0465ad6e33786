--------------------------- MODULE MCRdsInstance ---------------------------
(* Model values for RdsInstance: two desired inputs that differ in every   *)
(* field, and three identities.                                            *)
EXTENDS RdsInstance

small == [spec |-> "small", prot |-> FALSE, ips |-> "office", settings |-> "plain"]
large == [spec |-> "large", prot |-> TRUE, ips |-> "vpn", settings |-> "tuned"]

Calm == [restore |-> FALSE, late |-> FALSE, releases |-> FALSE, namesakes |-> 1]
Unsteady == [Calm EXCEPT !.late = TRUE, !.releases = TRUE]
Cloned == [Calm EXCEPT !.restore = TRUE]

MCSetup == {Calm, Unsteady, Cloned}
MCWanted == {small, large}
=============================================================================
