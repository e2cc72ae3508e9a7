------------------------------ MODULE MCL2fwd ------------------------------
(***************************************************************************)
(* Two ports joined by a veth pair, as in the lab: what leaves one arrives *)
(* at the other.                                                           *)
(***************************************************************************)
EXTENDS L2fwd

MCPorts == {0, 1}
MCLcores == {0, 1}
MCDst == [p \in MCPorts |-> 1 - p]
MCPeer == [p \in MCPorts |-> 1 - p]

\* -q 1 on two lcores, and -q 2: everything on the main lcore.
MCLayouts == {<<<<0>>, <<1>>>>, <<<<0, 1>>, <<>>>>}
MCLayoutTables == {[l \in MCLcores |-> t[l + 1]] : t \in MCLayouts}
=============================================================================
