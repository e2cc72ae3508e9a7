----------------------------- MODULE MCPipeline -----------------------------
(***************************************************************************)
(* Two ports joined by a veth pair, as in the lab, polled by one I/O lcore *)
(* or by two.                                                              *)
(***************************************************************************)
EXTENDS Pipeline

MCPorts == {0, 1}
MCDst == [p \in MCPorts |-> 1 - p]
MCPeer == [p \in MCPorts |-> 1 - p]

\* -q 2: one lcore polls both ports; -q 1: each lcore polls one.
MCOneIo == {0}
MCBothPorts == [l \in MCOneIo |-> <<0, 1>>]
MCTwoIo == {0, 1}
MCOwnPort == [l \in MCTwoIo |-> <<l>>]
=============================================================================
