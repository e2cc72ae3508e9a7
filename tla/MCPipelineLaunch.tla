-------------------------- MODULE MCPipelineLaunch --------------------------
(***************************************************************************)
(* All sets of up to five lcores, with two ring pairs.                     *)
(***************************************************************************)
EXTENDS PipelineLaunch

MCLcoreSets == SUBSET (0 .. 4) \ {{}}
=============================================================================
