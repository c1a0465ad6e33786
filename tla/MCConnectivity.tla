--------------------------- MODULE MCConnectivity ---------------------------
(* Constants for Connectivity. *)
EXTENDS Connectivity

MCEdits == { {}, {"place"}, {"billing"}, {"place", "billing"} }
MCBilling == { {"billing"} }
=============================================================================
