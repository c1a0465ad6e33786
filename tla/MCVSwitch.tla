----------------------------- MODULE MCVSwitch -----------------------------
(* Model values for VSwitch: two resources of one VPC that ask for the same *)
(* name, the case in which only the second observation keeps them apart.    *)
EXTENDS VSwitch, TLC

CONSTANTS blue, green

MCFiber == {blue, green}
MCNameOf == (blue :> "web") @@ (green :> "web")
MCVpcOf == "web" :> "vpc"
=============================================================================
