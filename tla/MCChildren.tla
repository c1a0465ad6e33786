----------------------------- MODULE MCChildren -----------------------------
(* Constants for Children: every composition, two disturbances. *)
EXTENDS Children

MCStacks == DOMAIN Kinds
=============================================================================
