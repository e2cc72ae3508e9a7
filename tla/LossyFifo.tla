----------------------------- MODULE LossyFifo -----------------------------
(***************************************************************************)
(* What the forwarders promise for each direction of traffic: a first-in   *)
(* first-out channel that may lose frames but neither reorders nor repeats *)
(* them.  Frames are numbered in the order they arrive.                    *)
(***************************************************************************)
EXTENDS Integers, Sequences

CONSTANTS
    Directions,         \* one per receiving port
    MaxId               \* bound: the number of frames

VARIABLES
    last,               \* number of the last frame that arrived
    chan,               \* per direction: the frames on their way
    out                 \* per direction: the frames that were sent

vars == <<last, chan, out>>

Init ==
    /\ last = 0
    /\ chan = [d \in Directions |-> <<>>]
    /\ out = [d \in Directions |-> <<>>]

\* A frame arrives, and is accepted or lost.
Accept(d) ==
    /\ last < MaxId
    /\ last' = last + 1
    /\ chan' = [chan EXCEPT ![d] = Append(@, last + 1)]
    /\ UNCHANGED out

Refuse ==
    /\ last < MaxId
    /\ last' = last + 1
    /\ UNCHANGED <<chan, out>>

Increasing(g, m) == \A i, j \in 1 .. m : i < j => g[i] < g[j]

\* The k oldest frames are sent, and of the others only those at the m
\* positions g stay: the rest are lost.
Release(d, k, m, g) ==
    /\ Increasing(g, m)
    /\ out' = [out EXCEPT ![d] = @ \o SubSeq(chan[d], 1, k)]
    /\ chan' = [chan EXCEPT ![d] = [i \in 1 .. m |-> chan[d][g[i]]]]
    /\ UNCHANGED last

Next ==
    \/ \E d \in Directions : Accept(d)
    \/ Refuse
    \/ \E d \in Directions :
          \E k \in 0 .. Len(chan[d]) : \E m \in 0 .. Len(chan[d]) - k :
             \E g \in [1 .. m -> k + 1 .. Len(chan[d])] : Release(d, k, m, g)

Spec == Init /\ [][Next]_vars

-----------------------------------------------------------------------------
\* Types of the channels.
TypeOK ==
    /\ last \in Nat
    /\ chan \in [Directions -> Seq(Nat)]
    /\ out \in [Directions -> Seq(Nat)]

\* s lists numbers up to the last, each larger than the one before.
Ordered(s) ==
    /\ \A i \in 1 .. Len(s) : s[i] <= last
    /\ \A i, j \in 1 .. Len(s) : i < j => s[i] < s[j]

\* What was sent in one direction is in the order of arrival without repeats,
\* and so is what is still to be sent, all of it younger.
InOrder ==
    \A d \in Directions :
        /\ Ordered(out[d])
        /\ Ordered(chan[d])
        /\ \A i \in 1 .. Len(out[d]), j \in 1 .. Len(chan[d]) :
              out[d][i] < chan[d][j]
=============================================================================
