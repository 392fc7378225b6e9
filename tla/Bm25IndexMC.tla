---------------------------- MODULE Bm25IndexMC ----------------------------
(***************************************************************************)
(* Instances of Bm25Index for TLC.                                         *)
(***************************************************************************)
EXTENDS Bm25Index
CONSTANTS a1, a2, t1, r1, f1, q1, q2, i1, i2, i3, i4
Files == {i1, i2, i3, i4}
=============================================================================
