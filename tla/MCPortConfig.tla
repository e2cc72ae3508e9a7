---------------------------- MODULE MCPortConfig ----------------------------
(***************************************************************************)
(* Small machines and command lines for PortConfig.                        *)
(***************************************************************************)
EXTENDS PortConfig

PairsUpTo(n) == UNION {[1 .. k -> (0 .. n) \X (0 .. n)] : k \in 0 .. 2}

\* No port, contiguous ports, and a machine whose port 1 was unplugged.
MCDevSets == {{}, {0}, {0, 1, 2}, {0, 2}, {0, 1, 2, 3}}

\* Two lcores with a gap; all three.
MCLcoreSets == {{0, 2}, {0, 1, 2}}

MCMaskArgs == {{}, {0, 1}, {1, 3}, {0, 1, 2}, {0, 1, 2, 3}}

\* Every portmap of at most two pairs over the ports 0..2 (a port paired with
\* itself, a port used twice and the empty portmap among them), two pairings
\* of four ports, a port that is out of range and one pair too many.
MCPortmapArgs ==
    PairsUpTo(2)
    \cup {<<<<0, 1>>, <<2, 3>>>>, <<<<3, 0>>, <<1, 2>>>>}
    \cup {<<<<0, 4>>>>, <<<<0, 1>>, <<2, 2>>, <<3, 3>>>>}

MCNqueueArgs == {0, 2, 3, 4}
MCTimerArgs == {-1, 0, 60}
=============================================================================
