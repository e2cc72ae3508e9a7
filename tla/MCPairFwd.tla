----------------------------- MODULE MCPairFwd -----------------------------
(***************************************************************************)
(* Machines with up to four ports.                                         *)
(***************************************************************************)
EXTENDS PairFwd

MCPortCounts == 0 .. 4
=============================================================================
