--------------------------- MODULE MCAckCluster ---------------------------
(* Constants for AckCluster. *)
EXTENDS AckCluster

MCEdits == { {}, {"spec", "guard"}, {"version"}, {"size", "addon"} }
=============================================================================
