---------------------------- MODULE MCEcsCompute ----------------------------
(* Model values for EcsCompute: one machine and one disk with their         *)
(* replacements, and every change alone or together with a resize.          *)
EXTENDS EcsCompute

MCGroupsOf == [t \in Type |-> IF t = 1 THEN {"web"} ELSE {"db"}]
MCEdits == { {"resize", "grow"}, {"image"}, {"zone"} }
=============================================================================
