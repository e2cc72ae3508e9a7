-------------------------- MODULE MCFlowFiltering --------------------------
(***************************************************************************)
(* Three queues, a rule for the middle one, and a link checked three times.*)
(***************************************************************************)
EXTENDS FlowFiltering
=============================================================================
