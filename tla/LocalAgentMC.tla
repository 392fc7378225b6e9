---------------------------- MODULE LocalAgentMC ----------------------------
(***************************************************************************)
(* Instance of LocalAgent for TLC: a shell command that may have a second  *)
(* process and another command, in either order.                           *)
(***************************************************************************)
EXTENDS LocalAgent
CONSTANTS c1, c2, p0, p1
=============================================================================
