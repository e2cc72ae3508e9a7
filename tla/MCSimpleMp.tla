----------------------------- MODULE MCSimpleMp -----------------------------
(***************************************************************************)
(* One command lcore and one receiving lcore in each process, as the lab   *)
(* runs it (-l 0-1 and -l 2-3), with rings of two messages.                *)
(***************************************************************************)
EXTENDS SimpleMp

MCMainLcore == [p \in Procs |-> IF p = "pri" THEN 0 ELSE 2]
MCWorkers == [p \in Procs |-> IF p = "pri" THEN {1} ELSE {3}]
=============================================================================
