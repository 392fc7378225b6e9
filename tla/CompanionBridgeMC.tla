------------------------- MODULE CompanionBridgeMC -------------------------
(***************************************************************************)
(* Instances of CompanionBridge for TLC: two devices, the second paired    *)
(* after the first, each with a session.                                   *)
(***************************************************************************)
EXTENDS CompanionBridge
CONSTANTS s1, s2, d1, d2, c1, c2
OwnDevice == [s \in Session |-> IF s = s1 THEN d1 ELSE d2]
=============================================================================
