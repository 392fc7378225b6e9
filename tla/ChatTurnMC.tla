---------------------------- MODULE ChatTurnMC -----------------------------
(***************************************************************************)
(* Instances of ChatTurn.  A turn has at most one retrieval, so Query is   *)
(* given the same elements as Turn.                                        *)
(***************************************************************************)
EXTENDS ChatTurn

\* One model call at a time, with a place to wait or none.
SmallLimits == {[running |-> 1, waiting |-> w] : w \in {0, 1}}
=============================================================================
