-------------------------- MODULE StandaloneProofs --------------------------
(***************************************************************************)
(* The specifications that stand alone: the web server of AsmServer, the   *)
(* program of FlowFiltering, and the lossy channel that the forwarders     *)
(* implement.  Each has its own inductive invariant.  The variables of the *)
(* second come from FlowFilteringState, those of the third are declared.   *)
(***************************************************************************)
EXTENDS AsmServer, FlowFilteringState, SequenceTheorems, TLAPS

CONSTANTS Directions, MaxId
VARIABLES last, chan, out

Fifo == INSTANCE LossyFifo

Flow == INSTANCE FlowFiltering

-----------------------------------------------------------------------------
(* Sequences.                                                              *)

\* The smaller of two numbers.
LEMMA MinOfTwo ==
    ASSUME NEW a \in Nat, NEW b \in Nat
    PROVE  Min({a, b}) \in {a, b} /\ Min({a, b}) <= a /\ Min({a, b}) <= b
  <1>1. \E x \in {a, b} : \A y \in {a, b} : x <= y
    <2>1. CASE a <= b
      BY <2>1
    <2>2. CASE b <= a
      BY <2>2
    <2>. QED
      BY <2>1, <2>2
  <1>. QED
    BY <1>1 DEF Min

\* The first n items of a sequence, n at most its length.
LEMMA FrontOf ==
    ASSUME NEW S, NEW s \in Seq(S), NEW n \in Nat, n <= Len(s)
    PROVE  /\ SubSeq(s, 1, n) \in Seq(S) /\ Len(SubSeq(s, 1, n)) = n
           /\ \A i \in 1 .. n : SubSeq(s, 1, n)[i] = s[i]
  <1>1. \A i \in 1 .. n : s[i] \in S
    OBVIOUS
  <1>2. /\ SubSeq(s, 1, n) \in Seq(S)
        /\ Len(SubSeq(s, 1, n)) = IF 1 <= n THEN n - 1 + 1 ELSE 0
        /\ \A i \in 1 .. n - 1 + 1 : SubSeq(s, 1, n)[i] = s[1 + i - 1]
    BY <1>1, SubSeqProperties
  <1>. QED
    BY <1>2

\* A sequence starts with another if it is as long and agrees item by item.
LEMMA PrefixByItems ==
    ASSUME NEW S, NEW s \in Seq(S), NEW t \in Seq(S)
    PROVE  IsPrefix(s, t) <=> Len(s) <= Len(t) /\ \A i \in 1 .. Len(s) : s[i] = t[i]
  <1>0. Len(s) \in Nat /\ Len(t) \in Nat
    OBVIOUS
  <1>. SUFFICES ASSUME Len(s) <= Len(t)
                PROVE  SubSeq(s, 1, Len(s)) = SubSeq(t, 1, Len(s))
                          <=> \A i \in 1 .. Len(s) : s[i] = t[i]
    BY DEF IsPrefix
  <1>. DEFINE a == SubSeq(s, 1, Len(s))
              b == SubSeq(t, 1, Len(s))
  <1>1. a \in Seq(S) /\ Len(a) = Len(s) /\ \A i \in 1 .. Len(s) : a[i] = s[i]
    BY <1>0, FrontOf
  <1>2. b \in Seq(S) /\ Len(b) = Len(s) /\ \A i \in 1 .. Len(s) : b[i] = t[i]
    BY <1>0, FrontOf
  <1>. HIDE DEF a, b
  <1>3. a = b <=> \A i \in 1 .. Len(s) : a[i] = b[i]
    <2>1. ASSUME \A i \in 1 .. Len(s) : a[i] = b[i] PROVE a = b
      BY <1>1, <1>2, <2>1, SeqEqual
    <2>. QED
      BY <2>1
  <1>4. a = b <=> \A i \in 1 .. Len(s) : s[i] = t[i]
    BY <1>1, <1>2, <1>3
  <1>. QED
    BY <1>4 DEF a, b

\* What a write() at the start leaves in the file starts with what was written.
LEMMA OverwrittenStart ==
    ASSUME NEW old \in Seq(Nat), NEW new \in Seq(Nat)
    PROVE  Overwritten(old, new) \in Seq(Nat) /\ IsPrefix(new, Overwritten(old, new))
  <1>. DEFINE rest == SubSeq(old, Len(new) + 1, Len(old))
  <1>0. Len(new) \in Nat /\ Len(old) \in Nat
    OBVIOUS
  <1>1. rest \in Seq(Nat)
    <2>1. Len(new) + 1 \in Int /\ Len(old) \in Int
      BY <1>0
    <2>2. \A i \in Len(new) + 1 .. Len(old) : old[i] \in Nat
      BY <1>0
    <2>. QED
      BY <2>1, <2>2, SubSeqProperties
  <1>. HIDE DEF rest
  <1>2. /\ new \o rest \in Seq(Nat) /\ Len(new \o rest) = Len(new) + Len(rest)
        /\ \A i \in 1 .. Len(new) + Len(rest) :
              (new \o rest)[i] = IF i <= Len(new) THEN new[i] ELSE rest[i - Len(new)]
    BY <1>1, ConcatProperties, Zenon
  <1>3. Len(rest) \in Nat
    BY <1>1
  <1>4. Len(new) <= Len(new \o rest) /\ \A i \in 1 .. Len(new) : new[i] = (new \o rest)[i]
    BY <1>0, <1>2, <1>3
  <1>5. IsPrefix(new, new \o rest)
    BY <1>2, <1>4, PrefixByItems
  <1>. QED
    BY <1>2, <1>5 DEF Overwritten, rest

\* A read of at most n items of a file that starts with a body starts with as
\* much of the body.
LEMMA FrontsMatch ==
    ASSUME NEW s \in Seq(Nat), NEW t \in Seq(Nat), NEW n \in Nat, IsPrefix(s, t)
    PROVE  IsPrefix(SubSeq(s, 1, Min({Len(s), n})), SubSeq(t, 1, Min({Len(t), n})))
  <1>. DEFINE a == Min({Len(s), n})
              b == Min({Len(t), n})
  <1>0. Len(s) \in Nat /\ Len(t) \in Nat
    OBVIOUS
  <1>1. Len(s) <= Len(t) /\ \A i \in 1 .. Len(s) : s[i] = t[i]
    BY PrefixByItems
  <1>2. a \in {Len(s), n} /\ a <= Len(s) /\ a <= n
    BY <1>0, MinOfTwo
  <1>3. b \in {Len(t), n} /\ b <= Len(t) /\ b <= n
    BY <1>0, MinOfTwo
  <1>. HIDE DEF a, b
  <1>4. a \in Nat /\ b \in Nat /\ a <= b
    BY <1>0, <1>1, <1>2, <1>3
  <1>5. /\ SubSeq(s, 1, a) \in Seq(Nat) /\ Len(SubSeq(s, 1, a)) = a
        /\ \A i \in 1 .. a : SubSeq(s, 1, a)[i] = s[i]
    BY <1>2, <1>4, FrontOf
  <1>6. /\ SubSeq(t, 1, b) \in Seq(Nat) /\ Len(SubSeq(t, 1, b)) = b
        /\ \A i \in 1 .. b : SubSeq(t, 1, b)[i] = t[i]
    BY <1>3, <1>4, FrontOf
  <1>7. \A i \in 1 .. a : i \in 1 .. b /\ i \in 1 .. Len(s)
    BY <1>0, <1>2, <1>4
  <1>8. IsPrefix(SubSeq(s, 1, a), SubSeq(t, 1, b))
    BY <1>1, <1>4, <1>5, <1>6, <1>7, PrefixByItems
  <1>. QED
    BY <1>8 DEF a, b

-----------------------------------------------------------------------------
(* The lossy channel: what the refinement by the forwarders is worth.      *)

FifoIInv == Fifo!TypeOK /\ Fifo!InOrder

\* The channels start out empty, and therefore in order.
LEMMA FifoInit == Fifo!Init => FifoIInv
  BY DEF Fifo!Init, FifoIInv, Fifo!TypeOK, Fifo!InOrder, Fifo!Ordered

\* A frame that arrives is younger than every frame before it.
LEMMA FifoAccept ==
    ASSUME FifoIInv, NEW d \in Directions, Fifo!Accept(d)
    PROVE  FifoIInv'
  <1>0. last \in Nat /\ chan[d] \in Seq(Nat) /\ last' = last + 1
    BY DEF FifoIInv, Fifo!TypeOK, Fifo!Accept
  <1>1. Fifo!TypeOK'
    BY <1>0 DEF FifoIInv, Fifo!TypeOK, Fifo!Accept
  <1>2. SUFFICES ASSUME NEW e \in Directions
                 PROVE  /\ Fifo!Ordered(out[e])' /\ Fifo!Ordered(chan[e])'
                        /\ \A i \in 1 .. Len(out'[e]), j \in 1 .. Len(chan'[e]) :
                              out'[e][i] < chan'[e][j]
    BY <1>1 DEF FifoIInv, Fifo!InOrder
  <1>3. out[e] \in Seq(Nat) /\ chan[e] \in Seq(Nat) /\ out'[e] = out[e]
    BY DEF FifoIInv, Fifo!TypeOK, Fifo!Accept
  <1>4. /\ \A i \in 1 .. Len(out[e]) : out[e][i] <= last /\ out[e][i] \in Nat
        /\ \A i, j \in 1 .. Len(out[e]) : i < j => out[e][i] < out[e][j]
        /\ \A i \in 1 .. Len(chan[e]) : chan[e][i] <= last /\ chan[e][i] \in Nat
        /\ \A i, j \in 1 .. Len(chan[e]) : i < j => chan[e][i] < chan[e][j]
        /\ \A i \in 1 .. Len(out[e]), j \in 1 .. Len(chan[e]) :
              out[e][i] < chan[e][j]
    BY <1>3 DEF FifoIInv, Fifo!InOrder, Fifo!Ordered
  <1>7. /\ \A i \in 1 .. Len(out'[e]) : out'[e][i] <= last'
        /\ \A i, j \in 1 .. Len(out'[e]) : i < j => out'[e][i] < out'[e][j]
    <2>1. \A i \in 1 .. Len(out[e]) : out[e][i] <= last'
      BY <1>0, <1>4
    <2>. QED
      BY <1>3, <1>4, <2>1
  <1>5. CASE e = d
    <2>1. chan'[e] = Append(chan[e], last + 1)
      BY <1>5 DEF FifoIInv, Fifo!TypeOK, Fifo!Accept
    <2>. DEFINE n == Len(chan[e])
                c == chan'[e]
    <2>2. /\ n \in Nat /\ Len(c) = n + 1 /\ c[n + 1] = last + 1
          /\ \A i \in 1 .. n : c[i] = chan[e][i]
      BY <2>1, <1>0, <1>3
    <2>3. \A i \in 1 .. n : c[i] \in Nat /\ c[i] <= last
      BY <1>4, <2>2
    <2>4. \A i, j \in 1 .. n : i < j => c[i] < c[j]
      BY <1>4, <2>2
    <2>5. \A i \in 1 .. Len(out'[e]), j \in 1 .. n : out'[e][i] < c[j]
      BY <1>3, <1>4, <2>2
    <2>6. \A i \in 1 .. Len(out'[e]) : out'[e][i] \in Nat /\ out'[e][i] <= last
      BY <1>3, <1>4
    <2>. HIDE DEF n, c
    <2>7. \A i \in 1 .. Len(c) : i \in 1 .. n \/ i = n + 1
      BY <2>2
    <2>8. \A i \in 1 .. Len(c) : c[i] <= last'
      BY <1>0, <2>2, <2>3, <2>7
    <2>9. ASSUME NEW i \in 1 .. Len(c), NEW j \in 1 .. Len(c), i < j
          PROVE  c[i] < c[j]
      <3>1. i \in 1 .. n
        BY <2>2, <2>9
      <3>2. CASE j \in 1 .. n
        BY <2>4, <2>9, <3>1, <3>2
      <3>3. CASE j = n + 1
        <4>1. c[i] \in Nat /\ c[i] <= last
          BY <2>3, <3>1
        <4>2. c[j] = last + 1
          BY <2>2, <3>3
        <4>. QED
          BY <1>0, <4>1, <4>2
      <3>. QED
        BY <2>7, <3>2, <3>3
    <2>10. \A i \in 1 .. Len(out'[e]), j \in 1 .. Len(c) : out'[e][i] < c[j]
      BY <1>0, <2>2, <2>5, <2>6, <2>7
    <2>. QED
      BY <1>7, <2>8, <2>9, <2>10 DEF Fifo!Ordered, c
  <1>6. CASE e # d
    <2>1. chan'[e] = chan[e]
      BY <1>6 DEF FifoIInv, Fifo!TypeOK, Fifo!Accept
    <2>2. \A i \in 1 .. Len(chan[e]) : chan[e][i] <= last'
      BY <1>0, <1>4
    <2>. QED
      BY <1>3, <1>4, <1>7, <2>1, <2>2 DEF Fifo!Ordered
  <1>. QED
    BY <1>5, <1>6

\* Sending a prefix and losing any of the others keeps the order.
LEMMA FifoRelease ==
    ASSUME FifoIInv, NEW d \in Directions,
           NEW k \in 0 .. Len(chan[d]), NEW m \in 0 .. Len(chan[d]) - k,
           NEW g \in [1 .. m -> k + 1 .. Len(chan[d])],
           Fifo!Release(d, k, m, g)
    PROVE  FifoIInv'
  <1>. DEFINE c == chan[d]
              o == out[d]
  <1>0. /\ c \in Seq(Nat) /\ o \in Seq(Nat) /\ last \in Nat /\ last' = last
        /\ Len(c) \in Nat /\ Len(o) \in Nat /\ k \in Nat /\ m \in Nat
    BY DEF FifoIInv, Fifo!TypeOK, Fifo!Release
  <1>1. /\ chan'[d] = [i \in 1 .. m |-> c[g[i]]]
        /\ out'[d] = o \o SubSeq(c, 1, k)
        /\ \A e \in Directions : e # d => chan'[e] = chan[e] /\ out'[e] = out[e]
    BY DEF FifoIInv, Fifo!TypeOK, Fifo!Release
  <1>2. \A i \in 1 .. m : g[i] \in 1 .. Len(c) /\ k < g[i] /\ c[g[i]] \in Nat
    <2>1. \A i \in 1 .. m : g[i] \in k + 1 .. Len(c)
      OBVIOUS
    <2>2. \A i \in k + 1 .. Len(c) : i \in 1 .. Len(c) /\ k < i
      BY <1>0
    <2>3. \A i \in 1 .. Len(c) : c[i] \in Nat
      BY <1>0
    <2>. HIDE DEF c
    <2>. QED
      BY <2>1, <2>2, <2>3
  <1>3. /\ chan'[d] \in Seq(Nat)
        /\ Len(chan'[d]) = m
        /\ \A i \in 1 .. m : chan'[d][i] = c[g[i]]
    BY <1>0, <1>1, <1>2
  <1>4. /\ SubSeq(c, 1, k) \in Seq(Nat)
        /\ Len(SubSeq(c, 1, k)) = k
        /\ \A i \in 1 .. k : SubSeq(c, 1, k)[i] = c[i] /\ i \in 1 .. Len(c)
    <2>1. k <= Len(c) /\ \A i \in 1 .. k : i \in 1 .. Len(c)
      BY <1>0
    <2>. HIDE DEF c
    <2>. QED
      BY <1>0, <2>1, FrontOf
  <1>5. /\ out'[d] \in Seq(Nat)
        /\ Len(out'[d]) = Len(o) + k
        /\ \A i \in 1 .. Len(o) : out'[d][i] = o[i]
        /\ \A i \in Len(o) + 1 .. Len(o) + k :
              out'[d][i] = c[i - Len(o)] /\ i - Len(o) \in 1 .. Len(c)
              /\ i - Len(o) <= k
    <2>. DEFINE p == SubSeq(c, 1, k)
    <2>. HIDE DEF p, o, c
    <2>1. p \in Seq(Nat) /\ Len(p) = k /\ out'[d] = o \o p
          /\ \A i \in 1 .. k : p[i] = c[i] /\ i \in 1 .. Len(c)
      BY <1>1, <1>4 DEF p
    <2>2. /\ out'[d] \in Seq(Nat)
          /\ Len(out'[d]) = Len(o) + k
          /\ \A i \in 1 .. Len(o) : out'[d][i] = o[i]
      <3>1. o \in Seq(Nat) /\ p \in Seq(Nat) /\ Len(p) = k
        BY <1>0, <2>1
      <3>2. /\ o \o p \in Seq(Nat) /\ Len(o \o p) = Len(o) + Len(p)
            /\ \A i \in 1 .. Len(o) + Len(p) :
                  (o \o p)[i] = IF i <= Len(o) THEN o[i] ELSE p[i - Len(o)]
        BY <3>1, ConcatProperties, Zenon
      <3>3. \A i \in 1 .. Len(o) : i \in 1 .. Len(o) + Len(p) /\ i <= Len(o)
        BY <1>0, <3>1
      <3>. QED
        BY <2>1, <3>1, <3>2, <3>3
    <2>3. ASSUME NEW i \in Len(o) + 1 .. Len(o) + k
          PROVE  /\ out'[d][i] = c[i - Len(o)]
                 /\ i - Len(o) \in 1 .. Len(c) /\ i - Len(o) <= k
      <3>1. i - Len(o) \in 1 .. k /\ i \in 1 .. Len(o) + k /\ ~(i <= Len(o))
        BY <1>0
      <3>2. out'[d][i] = p[i - Len(o)]
        BY <1>0, <2>1, <3>1
      <3>. QED
        BY <1>0, <2>1, <3>1, <3>2
    <2>. QED
      BY <2>2, <2>3
  <1>6. Fifo!TypeOK'
    BY <1>0, <1>3, <1>5 DEF FifoIInv, Fifo!TypeOK, Fifo!Release
  <1>7. /\ \A i \in 1 .. Len(o) : o[i] <= last /\ o[i] \in Nat
        /\ \A i, j \in 1 .. Len(o) : i < j => o[i] < o[j]
        /\ \A i \in 1 .. Len(c) : c[i] <= last /\ c[i] \in Nat
        /\ \A i, j \in 1 .. Len(c) : i < j => c[i] < c[j]
        /\ \A i \in 1 .. Len(o), j \in 1 .. Len(c) : o[i] < c[j]
    <2>1. Fifo!Ordered(o) /\ Fifo!Ordered(c)
          /\ \A i \in 1 .. Len(o), j \in 1 .. Len(c) : o[i] < c[j]
      BY DEF FifoIInv, Fifo!InOrder
    <2>. HIDE DEF o, c
    <2>2. ASSUME NEW s \in Seq(Nat), Fifo!Ordered(s)
          PROVE  /\ \A i \in 1 .. Len(s) : s[i] <= last /\ s[i] \in Nat
                 /\ \A i, j \in 1 .. Len(s) : i < j => s[i] < s[j]
      BY <2>2 DEF Fifo!Ordered
    <2>. QED
      BY <1>0, <2>1, <2>2
  <1>8. Fifo!Ordered(chan[d])'
    <2>1. \A i, j \in 1 .. m : i < j => g[i] < g[j]
      BY DEF Fifo!Release, Fifo!Increasing
    <2>. QED
      BY <1>0, <1>2, <1>3, <1>7, <2>1 DEF Fifo!Ordered
  <1>9. \A i \in 1 .. Len(out'[d]) :
           i \in 1 .. Len(o) \/ i \in Len(o) + 1 .. Len(o) + k
    BY <1>0, <1>5
  <1>10. Fifo!Ordered(out[d])'
    <2>1. \A i \in 1 .. Len(out'[d]) : out'[d][i] <= last
      BY <1>0, <1>5, <1>7, <1>9
    <2>2. ASSUME NEW i \in 1 .. Len(out'[d]), NEW j \in 1 .. Len(out'[d]), i < j
          PROVE  out'[d][i] < out'[d][j]
      <3>1. CASE j \in 1 .. Len(o)
        <4>1. i \in 1 .. Len(o)
          BY <1>0, <1>5, <2>2, <3>1
        <4>. QED
          BY <1>5, <1>7, <2>2, <3>1, <4>1
      <3>2. CASE i \in 1 .. Len(o) /\ j \in Len(o) + 1 .. Len(o) + k
        BY <1>0, <1>5, <1>7, <3>2
      <3>3. CASE i \in Len(o) + 1 .. Len(o) + k /\ j \in Len(o) + 1 .. Len(o) + k
        <4>1. i - Len(o) < j - Len(o)
          BY <1>0, <2>2, <3>3
        <4>. QED
          BY <1>0, <1>5, <1>7, <3>3, <4>1
      <3>. QED
        BY <1>0, <1>9, <2>2, <3>1, <3>2, <3>3
    <2>. QED
      BY <1>0, <2>1, <2>2 DEF Fifo!Ordered
  <1>11. ASSUME NEW i \in 1 .. Len(out'[d]), NEW j \in 1 .. Len(chan'[d])
         PROVE  out'[d][i] < chan'[d][j]
    <2>1. CASE i \in 1 .. Len(o)
      BY <1>0, <1>2, <1>3, <1>5, <1>7, <2>1
    <2>2. CASE i \in Len(o) + 1 .. Len(o) + k
      <3>1. i - Len(o) < g[j]
        BY <1>0, <1>2, <1>3, <1>5, <2>2
      <3>. QED
        BY <1>0, <1>2, <1>3, <1>5, <1>7, <2>2, <3>1
    <2>. QED
      BY <1>9, <2>1, <2>2
  <1>12. ASSUME NEW e \in Directions, e # d
         PROVE  /\ Fifo!Ordered(out[e])' /\ Fifo!Ordered(chan[e])'
                /\ \A i \in 1 .. Len(out'[e]), j \in 1 .. Len(chan'[e]) :
                      out'[e][i] < chan'[e][j]
    BY <1>0, <1>1, <1>12 DEF FifoIInv, Fifo!InOrder, Fifo!Ordered
  <1>. QED
    BY <1>6, <1>8, <1>10, <1>11, <1>12 DEF FifoIInv, Fifo!InOrder

\* Every step of the channels keeps types and order.
LEMMA FifoNext == FifoIInv /\ [Fifo!Next]_Fifo!vars => FifoIInv'
  <1>. SUFFICES ASSUME FifoIInv, [Fifo!Next]_Fifo!vars PROVE FifoIInv'
    OBVIOUS
  <1>1. CASE UNCHANGED Fifo!vars
    BY <1>1 DEF Fifo!vars, FifoIInv, Fifo!TypeOK, Fifo!InOrder, Fifo!Ordered
  <1>2. CASE Fifo!Refuse
    <2>1. last \in Nat /\ last' = last + 1 /\ chan' = chan /\ out' = out
      BY <1>2 DEF Fifo!Refuse, FifoIInv, Fifo!TypeOK
    <2>2. ASSUME NEW s \in Seq(Nat), Fifo!Ordered(s)
          PROVE  /\ \A i \in 1 .. Len(s) : s[i] <= last'
                 /\ \A i, j \in 1 .. Len(s) : i < j => s[i] < s[j]
      BY <2>1, <2>2 DEF Fifo!Ordered
    <2>. QED
      BY <2>1, <2>2 DEF FifoIInv, Fifo!TypeOK, Fifo!InOrder, Fifo!Ordered
  <1>3. ASSUME NEW d \in Directions, Fifo!Accept(d) PROVE FifoIInv'
    BY <1>3, FifoAccept
  <1>4. ASSUME NEW d \in Directions,
               NEW k \in 0 .. Len(chan[d]), NEW m \in 0 .. Len(chan[d]) - k,
               NEW g \in [1 .. m -> k + 1 .. Len(chan[d])],
               Fifo!Release(d, k, m, g)
        PROVE  FifoIInv'
    BY <1>4, FifoRelease
  <1>. QED
    BY <1>1, <1>2, <1>3, <1>4 DEF Fifo!Next

\* Whatever is lost, a direction never reorders and never repeats frames: what
\* a forwarder that implements LossyFifo promises.
THEOREM OrderKept == Fifo!Spec => []Fifo!InOrder
  <1>1. FifoIInv => Fifo!InOrder
    BY DEF FifoIInv
  <1>. QED
    BY <1>1, FifoInit, FifoNext, PTL DEF Fifo!Spec

-----------------------------------------------------------------------------
(* flow_filtering.                                                         *)

Templates == {"pattern", "actions", "table"}
TemplateCalls == {"pattern", "actions", "table", "async"}
RuleCalls == TemplateCalls \cup {"validate", "create"}
MainLoop == {"top", "rx", "free"}

\* The template objects there are before each call of the template API.
TemplatesAt ==
    [pattern |-> {}, actions |-> {"pattern"}, table |-> {"pattern", "actions"},
     async |-> Templates]

FlagsTyped ==
    /\ use_template_api \in BOOLEAN /\ started \in BOOLEAN
    /\ flow \in BOOLEAN /\ rule \in BOOLEAN

\* Every queue is set up before the port is first started.
QueuesInv ==
    pc \notin {"args", "pool", "configure", "queues", "failed"} =>
        nb_rxq = nr_queues /\ nb_txq = nr_queues

\* The port runs except while its rules engine is configured.
StartedInv ==
    pc \in {"link", "linked", "rule", "check"} \cup RuleCalls \cup MainLoop => started

\* Each API has its own calls, and their order makes the template objects.
ApiInv ==
    /\ pc \in {"flow_configure", "restart"} \cup TemplateCalls => use_template_api
    /\ pc \in {"validate", "create"} => ~use_template_api
    /\ pc \in TemplateCalls => templates = TemplatesAt[pc]
    /\ pc \notin TemplateCalls \cup {"check", "shutdown", "exited", "failed"} \cup MainLoop =>
          templates = {}
    /\ ~use_template_api => templates = {}

\* A flow was made by the API that was asked for, and the device steers only
\* by a rule that was returned as a flow.
FlowInv ==
    /\ pc \notin {"check", "shutdown", "exited", "failed"} \cup MainLoop => ~flow
    /\ pc # "exited" /\ flow => use_template_api = (Templates \subseteq templates)
    /\ ~flow => ~rule
    /\ pc \in MainLoop /\ ~flow => rte_errno = "ENOTSUP"

FlowIInv == FlagsTyped /\ QueuesInv /\ StartedInv /\ ApiInv /\ FlowInv

\* When main() starts there is neither a port nor a flow.
LEMMA FlowInit == Flow!Init => FlowIInv
  BY DEF Flow!Init, FlowIInv, FlagsTyped, QueuesInv, StartedInv, ApiInv, FlowInv,
         TemplateCalls, RuleCalls, MainLoop

\* The steps of main() and init_port() keep the invariant.
LEMMA FlowStartup ==
    ASSUME FlowIInv,
           \/ Flow!ParseArgs \/ Flow!CreatePool \/ Flow!ConfigurePort
           \/ Flow!SetupRxQueue \/ Flow!SetupTxQueue \/ Flow!StartPort
           \/ Flow!CheckLink \/ Flow!StopPort \/ Flow!ConfigurePortTemplate
           \/ Flow!RestartPort
    PROVE  FlowIInv'
  <1>. USE DEF FlowIInv, FlagsTyped, QueuesInv, StartedInv, ApiInv, FlowInv,
               TemplatesAt, Templates, TemplateCalls, RuleCalls, MainLoop,
               Flow!device, Flow!rules, Flow!loop, Flow!wires, Flow!OrExit
  <1>1. CASE Flow!ParseArgs
    BY <1>1 DEF Flow!ParseArgs
  <1>2. CASE Flow!CreatePool
    BY <1>2 DEF Flow!CreatePool
  <1>3. CASE Flow!ConfigurePort
    BY <1>3 DEF Flow!ConfigurePort
  <1>4. CASE Flow!SetupRxQueue
    BY <1>4 DEF Flow!SetupRxQueue
  <1>5. CASE Flow!SetupTxQueue
    BY <1>5 DEF Flow!SetupTxQueue
  <1>6. CASE Flow!StartPort
    BY <1>6 DEF Flow!StartPort
  <1>7. CASE Flow!CheckLink
    BY <1>7 DEF Flow!CheckLink
  <1>8. CASE Flow!StopPort
    <2>1. CASE ~use_template_api
      BY <1>8, <2>1 DEF Flow!StopPort
    <2>2. CASE use_template_api /\ pc' = "failed"
      BY <1>8, <2>2 DEF Flow!StopPort
    <2>3. CASE use_template_api /\ pc' = "flow_configure"
      BY <1>8, <2>3 DEF Flow!StopPort
    <2>. QED
      BY <1>8, <2>1, <2>2, <2>3 DEF Flow!StopPort
  <1>9. CASE Flow!ConfigurePortTemplate
    BY <1>9 DEF Flow!ConfigurePortTemplate, Flow!AfterConfigure
  <1>10. CASE Flow!RestartPort
    BY <1>10 DEF Flow!RestartPort
  <1>. QED
    BY <1>1, <1>2, <1>3, <1>4, <1>5, <1>6, <1>7, <1>8, <1>9, <1>10

\* The calls that make the rule, by either API, and the check of their result.
LEMMA FlowRule ==
    ASSUME FlowIInv,
           \/ Flow!BuildRule \/ Flow!CreateTemplate \/ Flow!AsyncCreate
           \/ Flow!Validate \/ Flow!Create \/ Flow!CheckFlow
    PROVE  FlowIInv'
  <1>. USE DEF FlowIInv, FlagsTyped, QueuesInv, StartedInv, ApiInv, FlowInv,
               TemplatesAt, Templates, TemplateCalls, RuleCalls, MainLoop,
               Flow!device, Flow!rules, Flow!loop, Flow!wires, Flow!OrExit
  <1>1. CASE Flow!BuildRule
    BY <1>1 DEF Flow!BuildRule
  <1>2. CASE Flow!CreateTemplate
    BY <1>2 DEF Flow!CreateTemplate, Flow!Refused, Flow!AfterTemplate
  <1>3. CASE Flow!AsyncCreate
    <2>0. pc' = "check" /\ use_template_api /\ templates = Templates
      BY <1>3 DEF Flow!AsyncCreate, Flow!Refused
    <2>1. CASE flow' = TRUE
      BY <1>3, <2>0, <2>1 DEF Flow!AsyncCreate, Flow!Refused
    <2>2. CASE flow' = flow /\ rule' = rule
      BY <1>3, <2>0, <2>2 DEF Flow!AsyncCreate, Flow!Refused
    <2>. QED
      BY <1>3, <2>1, <2>2 DEF Flow!AsyncCreate
  <1>4. CASE Flow!Validate
    BY <1>4 DEF Flow!Validate, Flow!Refused
  <1>5. CASE Flow!Create
    <2>0. pc' = "check" /\ ~use_template_api /\ templates = {}
      BY <1>5 DEF Flow!Create, Flow!Refused
    <2>1. CASE flow' = TRUE /\ rule' = TRUE
      BY <1>5, <2>0, <2>1 DEF Flow!Create, Flow!Refused
    <2>2. CASE flow' = flow /\ rule' = rule
      BY <1>5, <2>0, <2>2 DEF Flow!Create, Flow!Refused
    <2>. QED
      BY <1>5, <2>1, <2>2 DEF Flow!Create
  <1>6. CASE Flow!CheckFlow
    BY <1>6 DEF Flow!CheckFlow
  <1>. QED
    BY <1>1, <1>2, <1>3, <1>4, <1>5, <1>6

\* The loop, the shutdown and the outside.
LEMMA FlowLoop ==
    ASSUME FlowIInv,
           \/ Flow!Top \/ Flow!RxBurst \/ Flow!FreeBurst \/ Flow!Shutdown
           \/ Flow!Signal \/ Flow!LinkChange
    PROVE  FlowIInv'
  <1>. USE DEF FlowIInv, FlagsTyped, QueuesInv, StartedInv, ApiInv, FlowInv,
               TemplatesAt, Templates, TemplateCalls, RuleCalls, MainLoop,
               Flow!device, Flow!rules, Flow!loop, Flow!wires, Flow!OrExit
  <1>1. CASE Flow!Top
    BY <1>1 DEF Flow!Top
  <1>2. CASE Flow!RxBurst
    BY <1>2 DEF Flow!RxBurst
  <1>3. CASE Flow!FreeBurst
    BY <1>3 DEF Flow!FreeBurst
  <1>4. CASE Flow!Shutdown
    BY <1>4 DEF Flow!Shutdown
  <1>5. CASE Flow!Signal
    BY <1>5 DEF Flow!Signal
  <1>6. CASE Flow!LinkChange
    BY <1>6 DEF Flow!LinkChange
  <1>. QED
    BY <1>1, <1>2, <1>3, <1>4, <1>5, <1>6

\* Every step of flow_filtering keeps the invariant.
LEMMA FlowNext == FlowIInv /\ [Flow!Next]_(Flow!vars) => FlowIInv'
  <1>. SUFFICES ASSUME FlowIInv, [Flow!Next]_(Flow!vars) PROVE FlowIInv'
    OBVIOUS
  <1>1. CASE UNCHANGED Flow!vars
    BY <1>1 DEF Flow!vars, Flow!device, Flow!rules, Flow!loop, Flow!wires, FlowIInv,
                FlagsTyped, QueuesInv, StartedInv, ApiInv, FlowInv
  <1>2. ASSUME NEW match \in BOOLEAN, Flow!Arrive(match) PROVE FlowIInv'
    BY <1>2 DEF Flow!Arrive, Flow!device, Flow!rules, Flow!loop, FlowIInv,
                FlagsTyped, QueuesInv, StartedInv, ApiInv, FlowInv
  <1>. QED
    BY <1>1, <1>2, FlowStartup, FlowRule, FlowLoop DEF Flow!Next, Flow!Main

\* The loop of main() only polls a port that runs with every queue, with a rule
\* made by the API that was asked for or none where the device supports none:
\* on every path through init_port() and generate_flow_skeleton().
THEOREM LoopsReady == Flow!Spec => []LoopReady
  <1>1. FlowIInv => LoopReady
    BY DEF FlowIInv, FlagsTyped, QueuesInv, StartedInv, FlowInv, MainLoop, Templates,
           LoopReady
  <1>. QED
    BY <1>1, FlowInit, FlowNext, PTL DEF Flow!Spec

-----------------------------------------------------------------------------
(* The web server.                                                         *)

PostSteps == {"post_open", "post_write", "post_ok"}
GetSteps == {"get_open", "get_read", "get_ok", "get_content"}
Ended == {"over", "crash", "zombie"}
Places == {"none", "close", "read"} \cup PostSteps \cup GetSteps \cup Ended

ServerTyped ==
    /\ rbx \in Clients \cup {NoConn}
    /\ backlog \in Seq(Clients)
    /\ nforks \in 0 .. MaxForks
    /\ child \in [Pids -> Places]
    /\ serves \in [Pids -> Clients \cup {NoConn}]
    /\ file_fd \in [Pids -> BOOLEAN]
    /\ file_buffer \in [Pids -> Seq(Nat)]
    /\ file \in [Paths -> Seq(Nat) \cup {Missing}]
    /\ arrived \in [Clients -> Nat]
    /\ \A c \in Clients : arrived[c] <= RequestLength(c)
    /\ request_length \in [Clients -> Nat]
    /\ \A c \in Clients : request_length[c] <= RequestLength(c)
    /\ answer \in [Clients -> [ok : BOOLEAN, content : Seq(Nat)]]
    /\ connected \subseteq Clients
    /\ acked \in [Clients -> SUBSET Clients]
    /\ wrote \in [Clients -> Nat]
    /\ \A c \in Clients : wrote[c] <= Len(Body[c])
    /\ failed \subseteq Pids

\* The connection of c waits for accept().
Waits(c) == \E i \in 1 .. Len(backlog) : backlog[i] = c

\* A connection is in one place: it waits, is in the hand of the parent, or is
\* served by one child.
ConnInv ==
    /\ \A i, j \in 1 .. Len(backlog) : backlog[i] = backlog[j] => i = j
    /\ \A i \in 1 .. Len(backlog) : backlog[i] \in connected
    /\ parent = "fork" /\ rbx # NoConn => rbx \in connected /\ ~Waits(rbx)
    /\ \A p \in Pids : serves[p] # NoConn =>
          /\ serves[p] \in connected /\ ~Waits(serves[p])
          /\ parent = "fork" => rbx # serves[p]
    /\ \A p, q \in Pids : serves[p] # NoConn /\ serves[q] = serves[p] => q = p
    /\ \A p \in Pids : p > nforks => child[p] = "none" /\ serves[p] = NoConn

\* A child takes the steps of its client's method.
MethodInv ==
    \A p \in Pids :
        /\ child[p] \in PostSteps => serves[p] # NoConn /\ Method[serves[p]] = "POST"
        /\ child[p] \in GetSteps => serves[p] # NoConn /\ Method[serves[p]] = "GET"

\* A file that was opened is there.
OpenInv ==
    \A p \in Pids : child[p] \in {"post_write", "get_read"} /\ file_fd[p] =>
        file[Path[serves[p]]] # Missing

\* Who was answered, and who wrote, has a child that is past it.
DoneInv ==
    /\ \A d \in Clients : answer[d].ok =>
          \E q \in Pids : serves[q] = d /\ child[q] \in {"get_content"} \cup Ended
    /\ \A d \in Writers :
          /\ Method[d] = "POST"
          /\ \E q \in Pids : serves[q] = d /\ child[q] \in {"post_ok"} \cup Ended
    /\ \A c \in Clients : \A d \in acked[c] : Method[d] = "POST" /\ answer[d].ok

\* Whose POST was answered has written all of the body that was read, unless
\* open() or write() failed.
WroteInv ==
    \A q \in Pids :
        /\ serves[q] # NoConn /\ Method[serves[q]] = "POST"
        /\ child[q] = "post_ok" \/ answer[serves[q]].ok
        /\ q \notin failed
        => wrote[serves[q]] = BodyLength(serves[q])

\* What write() put in the file of d.
Written(d) == SubSeq(Body[d], 1, wrote[d])

\* Nobody else wrote where d did.
Alone(d) == \A e \in Writers \ {d} : Path[e] # Path[d]

\* What was written is at the start of its file until someone else writes there.
FileInv ==
    \A d \in Writers : Alone(d) =>
        file[Path[d]] # Missing /\ IsPrefix(Written(d), file[Path[d]])

\* The POST of d reached its file and is still there.
Posted(d) == d \in Writers /\ Alone(d)

\* What a child read has as much of what d wrote as it should.
Found(p, d, content) ==
    LET room == IF p \in failed THEN Len(content) ELSE BufferSize
    IN  IsPrefix(SubSeq(Written(d), 1, Min({Len(Written(d)), room})), content)

\* The child of a GET has as much of what d wrote as it should by now.
Reads(p, d) ==
    /\ child[p] = "get_read" => file_fd[p] \/ p \in failed
    /\ child[p] \in {"get_ok", "get_content"} => Found(p, d, file_buffer[p])
    /\ child[p] = "over" /\ serves[p] \notin gone => Found(p, d, answer[serves[p]].content)

\* A GET that connected after the answer to d finds what d posted.
ReaderInv ==
    \A p \in Pids : serves[p] # NoConn /\ Method[serves[p]] = "GET" =>
        \A d \in acked[serves[p]] : Path[d] = Path[serves[p]] /\ Posted(d) => Reads(p, d)

ServerIInv ==
    /\ ServerTyped /\ ConnInv /\ MethodInv /\ OpenInv
    /\ DoneInv /\ WroteInv /\ FileInv /\ ReaderInv

\* When the server starts there are no connections, children or answers.
LEMMA ServerInit == Init => ServerIInv
  <1>. SUFFICES ASSUME Init PROVE ServerIInv
    OBVIOUS
  <1>1. ServerTyped
    <2>1. file \in [Paths -> Seq(Nat) \cup {Missing}]
      BY AsmServerAssumption DEF Init
    <2>2. answer \in [Clients -> [ok : BOOLEAN, content : Seq(Nat)]]
      BY DEF Init, NoAnswer
    <2>3. \A c \in Clients : RequestLength(c) \in Nat
      BY AsmServerAssumption DEF RequestLength
    <2>4. /\ rbx \in Clients \cup {NoConn} /\ backlog \in Seq(Clients)
          /\ connected \subseteq Clients /\ failed \subseteq Pids
      BY DEF Init
    <2>8. nforks \in 0 .. MaxForks
      <3>1. MaxForks \in Nat
        BY AsmServerAssumption
      <3>. QED
        BY <3>1 DEF Init
    <2>10. child \in [Pids -> Places]
      BY DEF Init, Places
    <2>5. /\ serves \in [Pids -> Clients \cup {NoConn}]
          /\ file_buffer \in [Pids -> Seq(Nat)]
      BY DEF Init
    <2>9. file_fd \in [Pids -> BOOLEAN]
      BY DEF Init
    <2>6. /\ arrived \in [Clients -> Nat] /\ request_length \in [Clients -> Nat]
          /\ \A c \in Clients : arrived[c] = 0 /\ request_length[c] = 0
          /\ acked \in [Clients -> SUBSET Clients]
      BY DEF Init
    <2>7. \A c \in Clients : arrived[c] <= RequestLength(c)
                           /\ request_length[c] <= RequestLength(c)
      BY <2>3, <2>6
    <2>11. wrote \in [Clients -> Nat] /\ \A c \in Clients : wrote[c] <= Len(Body[c])
      <3>1. \A c \in Clients : Len(Body[c]) \in Nat
        BY AsmServerAssumption
      <3>. QED
        BY <3>1 DEF Init
    <2>. QED
      BY <2>1, <2>2, <2>4, <2>5, <2>6, <2>7, <2>8, <2>9, <2>10, <2>11 DEF ServerTyped
  <1>2. ConnInv /\ MethodInv /\ OpenInv
    BY DEF Init, ConnInv, MethodInv, OpenInv, PostSteps, GetSteps, NoConn, Waits
  <1>3. DoneInv /\ WroteInv /\ FileInv /\ ReaderInv
    BY DEF Init, DoneInv, WroteInv, FileInv, ReaderInv, NoAnswer, NoConn, Writers
  <1>. QED
    BY <1>1, <1>2, <1>3 DEF ServerIInv

\* The types of the program's state hold after every step of the parent.
LEMMA ParentTypes ==
    ASSUME ServerIInv, Parent \/ KillParent
    PROVE  ServerTyped'
  <1>. USE DEF ServerIInv, ServerTyped, process, peers, history
  <1>1. CASE Setup
    BY <1>1 DEF Setup
  <1>2. CASE Accept
    <2>1. CASE backlog # <<>> /\ rbx' = Head(backlog) /\ backlog' = Tail(backlog)
      <3>1. rbx' \in Clients /\ backlog' \in Seq(Clients)
        BY <2>1, HeadTailProperties
      <3>. QED
        BY <1>2, <3>1 DEF Accept
    <2>2. CASE rbx' = NoConn /\ UNCHANGED backlog
      BY <1>2, <2>2 DEF Accept
    <2>. QED
      BY <1>2, <2>1, <2>2 DEF Accept
  <1>3. CASE Fork
    <2>1. CASE nforks < MaxForks
      <3>1. MaxForks \in Nat
        BY AsmServerAssumption
      <3>2. nforks' \in 0 .. MaxForks
        BY <1>3, <2>1, <3>1 DEF Fork
      <3>3. child' \in [Pids -> Places]
        BY <1>3, <2>1 DEF Fork, Places
      <3>4. serves' \in [Pids -> Clients \cup {NoConn}]
        BY <1>3, <2>1 DEF Fork
      <3>. QED
        BY <1>3, <3>2, <3>3, <3>4 DEF Fork
    <2>2. CASE ~(nforks < MaxForks)
      BY <1>3, <2>2 DEF Fork
    <2>. QED
      BY <2>1, <2>2
  <1>4. CASE ParentClose
    BY <1>4 DEF ParentClose
  <1>5. CASE KillParent
    BY <1>5 DEF KillParent
  <1>. QED
    BY <1>1, <1>2, <1>3, <1>4, <1>5 DEF Parent

\* They hold after every step of a client.
LEMMA ClientTypes ==
    ASSUME ServerIInv, NEW c \in Clients, Client(c)
    PROVE  ServerTyped'
  <1>. USE DEF ServerIInv, ServerTyped, server, process, history
  <1>0. RequestLength(c) \in Nat
    BY AsmServerAssumption DEF RequestLength
  <1>1. CASE Connect(c)
    BY <1>1 DEF Connect
  <1>2. CASE Send(c)
    <2>1. PICK n \in arrived[c] + 1 .. RequestLength(c) :
             arrived' = [arrived EXCEPT ![c] = n]
      BY <1>2 DEF Send
    <2>2. n \in Nat /\ n <= RequestLength(c)
      BY <1>0
    <2>3. /\ arrived' \in [Clients -> Nat]
          /\ \A d \in Clients : arrived'[d] <= RequestLength(d)
      BY <2>1, <2>2
    <2>. QED
      BY <1>2, <2>3 DEF Send, peers
  <1>3. CASE Hangup(c)
    BY <1>3 DEF Hangup
  <1>. QED
    BY <1>1, <1>2, <1>3 DEF Client

\* A child goes to one of its places.
LEMMA GotoTyped ==
    ASSUME ServerTyped, NEW p \in Pids, NEW s \in Places, Goto(p, s)
    PROVE  /\ child' \in [Pids -> Places] /\ child'[p] = s
           /\ \A q \in Pids : q # p => child'[q] = child[q]
  BY DEF ServerTyped, Goto

\* What every step of a child leaves alone, and that it moves only itself.
LEMMA ChildFrame ==
    ASSUME ServerTyped, NEW p \in Pids, Child(p)
    PROVE  /\ UNCHANGED <<server, serves, peers>>
           /\ child' \in [Pids -> Places]
           /\ \A q \in Pids : q # p => child'[q] = child[q]
  <1>. USE DEF process, history, Places, PostSteps, GetSteps, Ended
  <1>1. CASE ChildClose(p)
    BY <1>1, GotoTyped DEF ChildClose
  <1>2. CASE Read(p)
    <2>1. \E place \in Places : Goto(p, place)
      <3>1. CASE serves[p] = NoConn
        BY <1>2, <3>1 DEF Read
      <3>2. CASE serves[p] # NoConn
        <4>1. serves[p] \in Clients /\ arrived[serves[p]] \in Nat
          BY <3>2 DEF ServerTyped
        <4>2. PICK n \in Nat : Goto(p, Parsed(serves[p], n))
          BY <1>2, <3>2, <4>1 DEF Read
        <4>3. Method[serves[p]] \in {"GET", "POST"}
          BY <4>1, AsmServerAssumption
        <4>4. Parsed(serves[p], n) \in Places
          BY <4>2, <4>3 DEF Parsed
        <4>. QED
          BY <4>2, <4>4
      <3>. QED
        BY <3>1, <3>2
    <2>. QED
      BY <1>2, <2>1, GotoTyped DEF Read
  <1>3. CASE PostOpen(p)
    BY <1>3, GotoTyped DEF PostOpen, AfterPost
  <1>4. CASE PostWrite(p)
    BY <1>4, GotoTyped DEF PostWrite, AfterPost
  <1>5. CASE PostOk(p)
    BY <1>5, GotoTyped DEF PostOk, AfterPost, Reply
  <1>6. CASE GetOpen(p)
    BY <1>6, GotoTyped DEF GetOpen
  <1>7. CASE GetRead(p)
    BY <1>7, GotoTyped DEF GetRead
  <1>8. CASE GetOk(p)
    BY <1>8, GotoTyped DEF GetOk, Reply
  <1>9. CASE GetContent(p)
    BY <1>9, GotoTyped DEF GetContent, Reply
  <1>10. CASE Exit(p)
    BY <1>10, GotoTyped DEF Exit
  <1>. QED
    BY <1>1, <1>2, <1>3, <1>4, <1>5, <1>6, <1>7, <1>8, <1>9, <1>10 DEF Child

\* No more of a body was read than there is.
LEMMA BodyRead ==
    ASSUME ServerTyped, NEW c \in Clients, Method[c] = "POST"
    PROVE  BodyLength(c) \in 0 .. Len(Body[c])
  <1>1. Len(Body[c]) \in Nat
    BY AsmServerAssumption
  <1>2. request_length[c] \in Nat /\ request_length[c] <= 4 + Len(Body[c])
    BY DEF ServerTyped, RequestLength
  <1>. QED
    BY <1>1, <1>2 DEF BodyLength

\* What was written is a sequence, as long as write() said.
LEMMA WrittenTyped ==
    ASSUME ServerTyped, NEW d \in Clients
    PROVE  Written(d) \in Seq(Nat) /\ Len(Written(d)) = wrote[d]
  <1>1. Body[d] \in Seq(Nat) /\ wrote[d] \in Nat /\ wrote[d] <= Len(Body[d])
    BY AsmServerAssumption DEF ServerTyped
  <1>. QED
    BY <1>1, FrontOf DEF Written

\* A child that looks at a file serves a client.
LEMMA ServesClient ==
    ASSUME ServerIInv, NEW p \in Pids, child[p] \in PostSteps \cup GetSteps
    PROVE  /\ serves[p] \in Clients /\ Path[serves[p]] \in Paths
           /\ child[p] \in PostSteps => Method[serves[p]] = "POST"
           /\ child[p] \in GetSteps => Method[serves[p]] = "GET"
  BY DEF ServerIInv, ServerTyped, MethodInv, Paths

\* The write() of p: n bytes of the body go over what is in the file.
Puts(p, n) ==
    LET c == serves[p]
        f == Path[c]
    IN  /\ child[p] = "post_write" /\ child'[p] = "post_ok"
        /\ c \in Clients /\ f \in Paths /\ Method[c] = "POST"
        /\ n \in Nat /\ n <= BodyLength(c) /\ BodyLength(c) <= Len(Body[c])
        /\ SubSeq(Body[c], 1, n) \in Seq(Nat)
        /\ wrote' = [wrote EXCEPT ![c] = n]
        /\ \/ n = 0 /\ file' = file
           \/ /\ n > 0 /\ file[f] \in Seq(Nat)
              /\ file' = [file EXCEPT ![f] = Overwritten(@, SubSeq(Body[c], 1, n))]

\* What a step of a child does to the files: an absent one is created, or a
\* part of a body is written over what is there.
LEMMA FileFrame ==
    ASSUME ServerIInv, NEW p \in Pids, Child(p)
    PROVE  \/ UNCHANGED <<file, wrote>>
           \/ /\ child[p] = "post_open" /\ UNCHANGED wrote
              /\ file[Path[serves[p]]] = Missing
              /\ file' = [file EXCEPT ![Path[serves[p]]] = <<>>]
           \/ \E n \in Nat : Puts(p, n)
  <1>. USE DEF ServerIInv
  <1>1. CASE PostOpen(p)
    BY <1>1 DEF PostOpen
  <1>2. CASE PostWrite(p)
    <2>. DEFINE c == serves[p]
                f == Path[c]
    <2>1. c \in Clients /\ f \in Paths /\ Method[c] = "POST"
      BY <1>2, ServesClient DEF PostWrite, PostSteps
    <2>2. BodyLength(c) \in Nat /\ BodyLength(c) <= Len(Body[c])
      <3>1. Len(Body[c]) \in Nat
        BY <2>1, AsmServerAssumption
      <3>. QED
        BY <2>1, <3>1, BodyRead
    <2>3. PICK n \in 0 .. (IF file_fd[p] THEN BodyLength(c) ELSE 0) :
             /\ wrote' = [wrote EXCEPT ![c] = n]
             /\ file' = IF n = 0 THEN file
                        ELSE [file EXCEPT ![f] = Overwritten(@, SubSeq(Body[c], 1, n))]
      BY <1>2 DEF PostWrite
    <2>4. n \in Nat /\ n <= BodyLength(c) /\ (n # 0 => file_fd[p])
      BY <2>2, <2>3
    <2>5. SubSeq(Body[c], 1, n) \in Seq(Nat)
      <3>1. Body[c] \in Seq(Nat) /\ n <= Len(Body[c])
        BY <2>1, <2>2, <2>4, AsmServerAssumption
      <3>. QED
        BY <2>4, <3>1, FrontOf
    <2>6. n # 0 => file[f] \in Seq(Nat)
      BY <1>2, <2>1, <2>4 DEF ServerTyped, OpenInv, PostWrite
    <2>7. child[p] = "post_write" /\ child'[p] = "post_ok"
      BY <1>2 DEF PostWrite, AfterPost, Goto, ServerTyped
    <2>. HIDE DEF c, f
    <2>8. \/ n = 0 /\ file' = file
          \/ /\ n > 0 /\ file[f] \in Seq(Nat)
             /\ file' = [file EXCEPT ![f] = Overwritten(@, SubSeq(Body[c], 1, n))]
      BY <2>3, <2>4, <2>6
    <2>. QED
      BY <2>1, <2>2, <2>3, <2>4, <2>5, <2>7, <2>8 DEF Puts, c, f
  <1>3. CASE ~PostOpen(p) /\ ~PostWrite(p)
    BY <1>3 DEF Child, ChildClose, Read, PostOk, GetOpen, GetRead, GetOk, GetContent, Exit,
                history
  <1>. QED
    BY <1>1, <1>2, <1>3

\* A read() gives a part of the file, which is less than all there is only if
\* it counts as failed, and nothing without a descriptor.
LEMMA ReadPart ==
    ASSUME ServerIInv, NEW p \in Pids, GetRead(p)
    PROVE  \/ /\ file_buffer' = [file_buffer EXCEPT ![p] = <<>>]
              /\ \/ ~file_fd[p] /\ failed' = failed
                 \/ file_fd[p] /\ p \in failed'
                 \/ file_fd[p] /\ Min({Len(file[Path[serves[p]]]), BufferSize}) = 0
           \/ \E n \in Nat :
                 /\ file_fd[p] /\ n <= Min({Len(file[Path[serves[p]]]), BufferSize})
                 /\ file_buffer' = [file_buffer EXCEPT ![p] = SubSeq(file[Path[serves[p]]], 1, n)]
                 /\ \/ p \in failed'
                    \/ n = Min({Len(file[Path[serves[p]]]), BufferSize})
  <1>. DEFINE f == file[Path[serves[p]]]
              all == IF file_fd[p] THEN Min({Len(f), BufferSize}) ELSE 0
  <1>1. all \in Nat
    <2>1. file_fd[p] => f \in Seq(Nat)
      <3>1. Path[serves[p]] \in Paths
        BY ServesClient DEF GetRead, GetSteps
      <3>. QED
        BY <3>1 DEF ServerIInv, ServerTyped, OpenInv, GetRead
    <2>2. BufferSize \in Nat
      BY AsmServerAssumption
    <2>3. file_fd[p] => Min({Len(f), BufferSize}) \in Nat
      <3>. HIDE DEF f
      <3>. QED
        BY <2>1, <2>2, MinOfTwo
    <2>. QED
      BY <2>3
  <1>2. PICK n \in 0 .. all :
           /\ file_buffer' = [file_buffer EXCEPT ![p] = IF n = 0 THEN <<>> ELSE SubSeq(f, 1, n)]
           /\ failed' = IF n = all THEN failed ELSE failed \cup {p}
    BY DEF GetRead
  <1>3. n \in Nat /\ n <= all
    BY <1>1, <1>2
  <1>4. CASE ~file_fd[p]
    <2>1. all = 0 /\ n = 0
      BY <1>3, <1>4
    <2>. QED
      BY <1>2, <1>4, <2>1
  <1>5. CASE file_fd[p] /\ n = 0
    BY <1>2, <1>5
  <1>6. CASE file_fd[p] /\ n # 0
    BY <1>2, <1>3, <1>6
  <1>. QED
    BY <1>4, <1>5, <1>6

\* The types hold after every step of a child.
LEMMA ChildTypes ==
    ASSUME ServerIInv, NEW p \in Pids, Child(p)
    PROVE  ServerTyped'
  <1>. DEFINE c == serves[p]
              f == Path[c]
  <1>0. ServerTyped
    BY DEF ServerIInv
  <1>1. /\ UNCHANGED <<server, serves, peers>> /\ child' \in [Pids -> Places]
    BY <1>0, ChildFrame
  <1>2. file_fd' \in [Pids -> BOOLEAN]
    BY <1>0 DEF ServerTyped, Child, ChildClose, Read, PostOpen, PostWrite, PostOk, GetOpen,
                GetRead, GetOk, GetContent, Exit
  <1>3. request_length' \in [Clients -> Nat]
        /\ \A d \in Clients : request_length'[d] <= RequestLength(d)
    <2>1. CASE Read(p) /\ c # NoConn
      <3>1. c \in Clients /\ arrived[c] \in Nat /\ arrived[c] <= RequestLength(c)
        BY <1>0, <2>1 DEF ServerTyped
      <3>2. RequestLength(c) \in Nat
        BY <3>1, AsmServerAssumption DEF RequestLength
      <3>3. PICK n \in {0, arrived[c]} : request_length' = [request_length EXCEPT ![c] = n]
        BY <2>1 DEF Read
      <3>4. n \in Nat /\ n <= RequestLength(c)
        BY <3>1, <3>2, <3>3
      <3>. HIDE DEF c
      <3>. QED
        BY <1>0, <3>1, <3>3, <3>4 DEF ServerTyped
    <2>2. CASE UNCHANGED request_length
      BY <1>0, <2>2 DEF ServerTyped
    <2>. QED
      BY <2>1, <2>2 DEF Child, ChildClose, Read, PostOpen, PostWrite, PostOk, GetOpen,
                        GetRead, GetOk, GetContent, Exit, history
  <1>4. /\ file' \in [Paths -> Seq(Nat) \cup {Missing}]
        /\ wrote' \in [Clients -> Nat]
        /\ \A d \in Clients : wrote'[d] <= Len(Body[d])
    <2>1. CASE UNCHANGED <<file, wrote>>
      BY <1>0, <2>1 DEF ServerTyped
    <2>2. CASE UNCHANGED wrote /\ file' = [file EXCEPT ![f] = <<>>]
      <3>1. file \in [Paths -> Seq(Nat) \cup {Missing}] /\ <<>> \in Seq(Nat)
        BY <1>0 DEF ServerTyped
      <3>. HIDE DEF f
      <3>2. file' \in [Paths -> Seq(Nat) \cup {Missing}]
        BY <2>2, <3>1
      <3>. QED
        BY <1>0, <2>2, <3>2 DEF ServerTyped
    <2>3. ASSUME NEW n \in Nat, Puts(p, n)
          PROVE  /\ file' \in [Paths -> Seq(Nat) \cup {Missing}]
                 /\ wrote' \in [Clients -> Nat]
                 /\ \A d \in Clients : wrote'[d] <= Len(Body[d])
      <3>1. /\ c \in Clients /\ f \in Paths /\ n <= BodyLength(c)
            /\ wrote' = [wrote EXCEPT ![c] = n] /\ BodyLength(c) <= Len(Body[c])
        BY <2>3 DEF Puts
      <3>2. n <= Len(Body[c])
        <4>1. BodyLength(c) \in Nat /\ Len(Body[c]) \in Nat
          BY <1>0, <3>1, AsmServerAssumption DEF BodyLength, ServerTyped
        <4>. QED
          BY <3>1, <4>1
      <3>3. file' \in [Paths -> Seq(Nat) \cup {Missing}]
        <4>1. file[f] \in Seq(Nat) => Overwritten(file[f], SubSeq(Body[c], 1, n)) \in Seq(Nat)
          BY <2>3, OverwrittenStart DEF Puts
        <4>2. \/ file' = file
              \/ /\ file[f] \in Seq(Nat)
                 /\ file' = [file EXCEPT ![f] = Overwritten(file[f], SubSeq(Body[c], 1, n))]
          BY <2>3 DEF Puts
        <4>. HIDE DEF c, f
        <4>. QED
          BY <1>0, <3>1, <4>1, <4>2 DEF ServerTyped
      <3>. HIDE DEF c
      <3>. QED
        BY <1>0, <3>1, <3>2, <3>3 DEF ServerTyped
    <2>. QED
      BY <2>1, <2>2, <2>3, FileFrame
  <1>7. failed' \subseteq Pids
    <2>1. failed' = failed \/ failed' = failed \cup {p}
      BY DEF Child, ChildClose, Read, PostOpen, PostWrite, PostOk, GetOpen, GetRead, GetOk,
             GetContent, Exit, history
    <2>. QED
      BY <1>0, <2>1 DEF ServerTyped
  <1>5. file_buffer' \in [Pids -> Seq(Nat)]
    <2>1. ASSUME NEW n \in Nat, GetRead(p), file_fd[p],
                 n <= Min({Len(file[f]), BufferSize}),
                 file_buffer' = [file_buffer EXCEPT ![p] = SubSeq(file[f], 1, n)]
          PROVE  file_buffer' \in [Pids -> Seq(Nat)]
      <3>1. c \in Clients /\ f \in Paths
        BY <2>1, ServesClient DEF GetRead, GetSteps
      <3>2. file[f] \in Seq(Nat)
        BY <1>0, <2>1, <3>1 DEF ServerIInv, ServerTyped, OpenInv, GetRead
      <3>3. Len(file[f]) \in Nat /\ BufferSize \in Nat
        BY <3>2, AsmServerAssumption
      <3>4. PICK k \in Nat : k = Min({Len(file[f]), BufferSize}) /\ k <= Len(file[f])
        BY <3>3, MinOfTwo
      <3>5. n <= Len(file[f])
        BY <2>1, <3>3, <3>4
      <3>6. SubSeq(file[f], 1, n) \in Seq(Nat)
        BY <3>2, <3>5, FrontOf
      <3>. HIDE DEF c, f
      <3>. QED
        BY <1>0, <2>1, <3>6 DEF ServerTyped
    <2>2. CASE file_buffer' = [file_buffer EXCEPT ![p] = <<>>]
      BY <1>0, <2>2 DEF ServerTyped
    <2>3. CASE UNCHANGED file_buffer
      BY <1>0, <2>3 DEF ServerTyped
    <2>4. CASE GetRead(p)
      BY <2>1, <2>2, <2>4, ReadPart
    <2>. QED
      BY <2>2, <2>3, <2>4 DEF Child, ChildClose, Read, PostOpen, PostWrite, PostOk, GetOpen,
                              GetRead, GetOk, GetContent, Exit
  <1>6. answer' \in [Clients -> [ok : BOOLEAN, content : Seq(Nat)]]
    <2>1. CASE answer' = [answer EXCEPT ![c] = [answer[c] EXCEPT !.ok = TRUE]]
      BY <1>0, <2>1 DEF ServerTyped
    <2>2. CASE answer' = [answer EXCEPT ![c] = [answer[c] EXCEPT !.content = file_buffer[p]]]
      BY <1>0, <2>2 DEF ServerTyped
    <2>3. CASE UNCHANGED answer
      BY <1>0, <2>3 DEF ServerTyped
    <2>. QED
      BY <2>1, <2>2, <2>3 DEF Child, ChildClose, Read, PostOpen, PostWrite, PostOk, GetOpen,
                              GetRead, GetOk, GetContent, Exit, Reply
  <1>. QED
    BY <1>0, <1>1, <1>2, <1>3, <1>4, <1>5, <1>6, <1>7 DEF ServerTyped, server, peers

\* Every step keeps the connections apart.
LEMMA ConnStep ==
    ASSUME ServerIInv, Next
    PROVE  ConnInv'
  <1>. USE DEF ServerIInv, process
  <1>0. backlog \in Seq(Clients) /\ nforks \in 0 .. MaxForks /\ MaxForks \in Nat
    BY AsmServerAssumption DEF ServerTyped
  <1>1. CASE Setup \/ ParentClose \/ KillParent
    BY <1>1 DEF ConnInv, Waits, Setup, ParentClose, KillParent, peers
  <1>2. CASE Accept
    <2>0. UNCHANGED <<connected, serves, child, nforks>> /\ parent = "accept"
      BY <1>2 DEF Accept, peers
    <2>1. CASE backlog # <<>> /\ rbx' = Head(backlog) /\ backlog' = Tail(backlog)
      <3>1. /\ Len(backlog) \in Nat /\ Len(backlog') = Len(backlog) - 1
            /\ Head(backlog) = backlog[1] /\ 1 \in 1 .. Len(backlog)
            /\ \A i \in 1 .. Len(backlog') : backlog'[i] = backlog[i + 1]
        BY <1>0, <2>1, HeadTailProperties
      <3>2. \A i \in 1 .. Len(backlog') :
               i + 1 \in 1 .. Len(backlog) /\ i \in Nat /\ i + 1 # 1
        BY <3>1
      <3>3. \A i, j \in 1 .. Len(backlog') : backlog'[i] = backlog'[j] => i = j
        BY <3>1, <3>2 DEF ConnInv
      <3>4. \A i \in 1 .. Len(backlog') : backlog'[i] \in connected /\ backlog'[i] # rbx'
        BY <2>1, <3>1, <3>2 DEF ConnInv
      <3>5. \A p \in Pids : serves[p] # NoConn =>
               /\ rbx' # serves[p]
               /\ \A i \in 1 .. Len(backlog') : backlog'[i] # serves[p]
        BY <2>1, <3>1, <3>2 DEF ConnInv, Waits
      <3>. QED
        BY <2>0, <2>1, <3>1, <3>3, <3>4, <3>5 DEF ConnInv, Waits
    <2>2. CASE rbx' = NoConn /\ UNCHANGED backlog
      BY <2>0, <2>2 DEF ConnInv, Waits
    <2>. QED
      BY <1>2, <2>1, <2>2 DEF Accept
  <1>3. CASE Fork
    <2>0. parent = "fork" /\ parent' = "close" /\ UNCHANGED <<rbx, backlog, connected>>
      BY <1>3 DEF Fork, peers
    <2>1. CASE nforks < MaxForks
      <3>. DEFINE new == nforks + 1
      <3>1. new \in Pids /\ nforks' = new /\ \A p \in Pids : p > new => p > nforks /\ p # new
        BY <1>0, <1>3, <2>1 DEF Fork, Pids
      <3>2. /\ serves'[new] = rbx
            /\ \A p \in Pids : p # new => serves'[p] = serves[p] /\ child'[p] = child[p]
        BY <1>3, <2>1, <3>1 DEF Fork, ServerTyped
      <3>. HIDE DEF new
      <3>3. \A p \in Pids : serves[p] # NoConn => serves[p] # rbx
        BY <2>0 DEF ConnInv
      <3>4. \A p \in Pids : serves'[p] # NoConn =>
               serves'[p] \in connected /\ \A i \in 1 .. Len(backlog) : backlog[i] # serves'[p]
        BY <2>0, <3>1, <3>2 DEF ConnInv, Waits
      <3>5. \A p, q \in Pids : serves'[p] # NoConn /\ serves'[q] = serves'[p] => q = p
        BY <3>1, <3>2, <3>3 DEF ConnInv
      <3>. QED
        BY <2>0, <3>1, <3>2, <3>4, <3>5 DEF ConnInv, Waits
    <2>2. CASE ~(nforks < MaxForks)
      BY <1>3, <2>0, <2>2 DEF Fork, ConnInv, Waits
    <2>. QED
      BY <2>1, <2>2
  <1>4. ASSUME NEW c \in Clients, Connect(c) PROVE ConnInv'
    <2>0. /\ UNCHANGED <<parent, rbx, serves, child, nforks>> /\ c \notin connected
          /\ connected' = connected \cup {c} /\ backlog' = Append(backlog, c)
      BY <1>4 DEF Connect
    <2>1. /\ Len(backlog) \in Nat /\ Len(backlog') = Len(backlog) + 1
          /\ backlog'[Len(backlog) + 1] = c
          /\ \A i \in 1 .. Len(backlog) : backlog'[i] = backlog[i]
      BY <1>0, <2>0
    <2>2. \A i \in 1 .. Len(backlog') : i \in 1 .. Len(backlog) \/ i = Len(backlog) + 1
      BY <2>1
    <2>3. \A i, j \in 1 .. Len(backlog') : backlog'[i] = backlog'[j] => i = j
      BY <2>0, <2>1, <2>2 DEF ConnInv
    <2>4. \A i \in 1 .. Len(backlog') : backlog'[i] \in connected'
      BY <2>0, <2>1, <2>2 DEF ConnInv
    <2>5. \A d \in connected : ~Waits(d) => \A i \in 1 .. Len(backlog') : backlog'[i] # d
      BY <2>0, <2>1, <2>2 DEF Waits
    <2>. QED
      BY <2>0, <2>3, <2>4, <2>5 DEF ConnInv, Waits
  <1>5. ASSUME NEW c \in Clients, Send(c) \/ Hangup(c) PROVE ConnInv'
    BY <1>5 DEF Send, Hangup, ConnInv, Waits, server
  <1>6. ASSUME NEW p \in Pids, Child(p) PROVE ConnInv'
    <2>1. /\ UNCHANGED <<server, serves, peers>>
          /\ \A q \in Pids : q # p => child'[q] = child[q]
      BY <1>6, ChildFrame
    <2>2. child[p] # "none"
      BY <1>6 DEF Child, ChildClose, Read, PostOpen, PostWrite, PostOk, GetOpen,
                  GetRead, GetOk, GetContent, Exit
    <2>. QED
      BY <2>1, <2>2 DEF ConnInv, Waits, server, peers
  <1>. QED
    BY <1>1, <1>2, <1>3, <1>4, <1>5, <1>6 DEF Next, Parent, Client

\* A child that is forked was not there, and serves the connection in hand.
LEMMA ForkFrame ==
    ASSUME ServerIInv, Fork
    PROVE  /\ UNCHANGED <<rbx, backlog, file_fd, file_buffer, file, peers, answer, history>>
           /\ \A p \in Pids :
                 \/ serves'[p] = serves[p] /\ child'[p] = child[p]
                 \/ /\ serves[p] = NoConn /\ child[p] = "none"
                    /\ serves'[p] = rbx /\ child'[p] = "close"
  <1>. USE DEF ServerIInv
  <1>1. CASE nforks < MaxForks
    <2>1. MaxForks \in Nat /\ nforks \in Nat
      BY AsmServerAssumption DEF ServerTyped
    <2>2. nforks + 1 > nforks
      BY <2>1
    <2>3. nforks + 1 \in Pids =>
             serves[nforks + 1] = NoConn /\ child[nforks + 1] = "none"
      BY <2>2 DEF ConnInv
    <2>. QED
      BY <1>1, <2>3 DEF Fork, ServerTyped
  <1>2. CASE ~(nforks < MaxForks)
    BY <1>2 DEF Fork
  <1>. QED
    BY <1>1, <1>2

\* A step of the parent other than fork() touches no child, and none touches a
\* file, an answer, or what clients know.
LEMMA ParentFrame ==
    ASSUME ServerIInv, Setup \/ Accept \/ ParentClose \/ KillParent
    PROVE  UNCHANGED <<process, file, peers, answer, history>>
  BY DEF Setup, Accept, ParentClose, KillParent

\* A step of a client touches no child, file or answer.
LEMMA ClientFrame ==
    ASSUME ServerIInv, NEW c \in Clients, Client(c)
    PROVE  UNCHANGED <<process, file, answer, history>>
  BY DEF Client, Connect, Send, Hangup

\* After read() a child crashes or goes to the first step of the method of its
\* client.
LEMMA ReadGoes ==
    ASSUME ServerIInv, NEW p \in Pids, Read(p)
    PROVE  \/ child'[p] = "crash"
           \/ /\ serves[p] \in Clients
              /\ \/ child'[p] = "get_open" /\ Method[serves[p]] = "GET"
                 \/ child'[p] = "post_open" /\ Method[serves[p]] = "POST"
  <1>. USE DEF ServerIInv, ServerTyped
  <1>1. serves[p] = NoConn => child'[p] = "crash"
    BY DEF Read, Goto
  <1>2. serves[p] # NoConn =>
           /\ \E n \in Nat : child'[p] = Parsed(serves[p], n)
           /\ serves[p] \in Clients /\ arrived[serves[p]] \in Nat
    BY DEF Read, Goto
  <1>3. serves[p] # NoConn => Method[serves[p]] \in {"GET", "POST"}
    BY <1>2, AsmServerAssumption
  <1>. QED
    BY <1>1, <1>2, <1>3 DEF Parsed

\* Every step keeps the children to the method of their clients.
LEMMA MethodStep ==
    ASSUME ServerIInv, Next
    PROVE  MethodInv'
  <1>. USE DEF ServerIInv, PostSteps, GetSteps
  <1>1. CASE Setup \/ Accept \/ ParentClose \/ KillParent
    BY <1>1, ParentFrame DEF MethodInv, process
  <1>2. CASE Fork
    BY <1>2, ForkFrame DEF MethodInv
  <1>3. ASSUME NEW c \in Clients, Client(c) PROVE MethodInv'
    BY <1>3, ClientFrame DEF MethodInv, process
  <1>4. ASSUME NEW p \in Pids, Child(p) PROVE MethodInv'
    <2>1. /\ UNCHANGED serves
          /\ \A q \in Pids : q # p => child'[q] = child[q]
      BY <1>4, ChildFrame
    <2>2. child \in [Pids -> Places] /\ serves \in [Pids -> Clients \cup {NoConn}]
      BY DEF ServerTyped
    <2>3. /\ child'[p] \in PostSteps => serves[p] # NoConn /\ Method[serves[p]] = "POST"
          /\ child'[p] \in GetSteps => serves[p] # NoConn /\ Method[serves[p]] = "GET"
      <3>1. CASE Read(p)
        BY <2>2, <3>1, ReadGoes, AsmServerAssumption
      <3>2. CASE ChildClose(p) \/ Exit(p)
        BY <2>2, <3>2 DEF ChildClose, Exit, Goto
      <3>3. CASE PostOpen(p) \/ PostWrite(p) \/ PostOk(p)
        BY <2>2, <3>3 DEF MethodInv, PostOpen, PostWrite, PostOk, AfterPost, Reply, Goto
      <3>4. CASE GetOpen(p) \/ GetRead(p) \/ GetOk(p) \/ GetContent(p)
        BY <2>2, <3>4 DEF MethodInv, GetOpen, GetRead, GetOk, GetContent, Reply, Goto
      <3>. QED
        BY <1>4, <3>1, <3>2, <3>3, <3>4 DEF Child
    <2>. QED
      BY <2>1, <2>3 DEF MethodInv
  <1>. QED
    BY <1>1, <1>2, <1>3, <1>4 DEF Next, Parent

\* A file that is there stays.
LEMMA FilesStay ==
    ASSUME ServerIInv, NEW p \in Pids, Child(p), NEW f \in Paths, file[f] # Missing
    PROVE  file'[f] # Missing
  <1>. DEFINE g == Path[serves[p]]
  <1>0. file \in [Paths -> Seq(Nat) \cup {Missing}] /\ Missing \notin Seq(Nat)
    BY AsmServerAssumption DEF ServerIInv, ServerTyped
  <1>1. CASE UNCHANGED file
    BY <1>1
  <1>2. CASE file' = [file EXCEPT ![g] = <<>>]
    <2>1. <<>> \in Seq(Nat)
      OBVIOUS
    <2>. HIDE DEF g
    <2>. QED
      BY <1>0, <1>2, <2>1
  <1>3. ASSUME NEW n \in Nat, Puts(p, n), file' # file
        PROVE  file'[f] # Missing
    <2>. DEFINE new == SubSeq(Body[serves[p]], 1, n)
    <2>1. /\ file[g] \in Seq(Nat) /\ new \in Seq(Nat)
          /\ file' = [file EXCEPT ![g] = Overwritten(file[g], new)]
      BY <1>3 DEF Puts
    <2>2. Overwritten(file[g], new) \in Seq(Nat)
      BY <2>1, OverwrittenStart
    <2>. HIDE DEF g, new
    <2>. QED
      BY <1>0, <2>1, <2>2
  <1>. QED
    BY <1>1, <1>2, <1>3, FileFrame

\* Every step keeps what was opened.
LEMMA OpenStep ==
    ASSUME ServerIInv, Next
    PROVE  OpenInv'
  <1>. USE DEF ServerIInv
  <1>1. CASE Setup \/ Accept \/ ParentClose \/ KillParent
    BY <1>1, ParentFrame DEF OpenInv, process
  <1>2. CASE Fork
    BY <1>2, ForkFrame DEF OpenInv
  <1>3. ASSUME NEW c \in Clients, Client(c) PROVE OpenInv'
    BY <1>3, ClientFrame DEF OpenInv, process
  <1>4. ASSUME NEW p \in Pids, Child(p) PROVE OpenInv'
    <2>1. /\ UNCHANGED serves
          /\ \A q \in Pids : q # p => child'[q] = child[q]
      BY <1>4, ChildFrame
    <2>2. \A q \in Pids : q # p => file_fd'[q] = file_fd[q]
      BY <1>4 DEF Child, ChildClose, Read, PostOpen, PostWrite, PostOk, GetOpen,
                  GetRead, GetOk, GetContent, Exit, ServerTyped
    <2>3. ASSUME NEW q \in Pids, q # p, child[q] \in {"post_write", "get_read"}, file_fd[q]
          PROVE  file'[Path[serves[q]]] # Missing
      <3>1. Path[serves[q]] \in Paths
        BY <2>3, ServesClient DEF PostSteps, GetSteps
      <3>. QED
        BY <1>4, <2>3, <3>1, FilesStay DEF OpenInv
    <2>4. ASSUME child'[p] \in {"post_write", "get_read"}, file_fd'[p]
          PROVE  file'[Path[serves[p]]] # Missing
      <3>1. CASE PostOpen(p)
        <4>1. Path[serves[p]] \in Paths
          BY <3>1, ServesClient DEF PostOpen, PostSteps
        <4>2. file_fd'[p] = TRUE
              => file' = IF file[Path[serves[p]]] = Missing
                         THEN [file EXCEPT ![Path[serves[p]]] = <<>>] ELSE file
          BY <3>1 DEF PostOpen, ServerTyped
        <4>3. Missing # <<>>
          <5>1. <<>> \in Seq(Nat)
            OBVIOUS
          <5>. QED
            BY <5>1, AsmServerAssumption
        <4>. QED
          BY <2>4, <4>1, <4>2, <4>3 DEF ServerTyped
      <3>2. CASE GetOpen(p)
        <4>1. (file_fd'[p] => file[Path[serves[p]]] # Missing) /\ file' = file
          BY <3>2 DEF GetOpen, ServerTyped
        <4>. QED
          BY <2>4, <4>1
      <3>3. CASE Read(p)
        <4>1. child'[p] \notin {"post_write", "get_read"}
          BY <3>3, ReadGoes
        <4>. QED
          BY <2>4, <4>1
      <3>4. CASE ~PostOpen(p) /\ ~GetOpen(p) /\ ~Read(p)
        <4>1. child'[p] \notin {"post_write", "get_read"}
          BY <1>4, <3>4 DEF Child, ChildClose, PostWrite, PostOk, GetRead, GetOk, GetContent,
                            Exit, AfterPost, Reply, Goto, ServerTyped
        <4>. QED
          BY <2>4, <4>1
      <3>. QED
        BY <3>1, <3>2, <3>3, <3>4
    <2>. QED
      BY <2>1, <2>2, <2>3, <2>4 DEF OpenInv
  <1>. QED
    BY <1>1, <1>2, <1>3, <1>4 DEF Next, Parent

\* A step of a child is about its own descriptor, buffer and client.
LEMMA OwnFrame ==
    ASSUME ServerIInv, NEW p \in Pids, Child(p)
    PROVE  /\ \A q \in Pids : q # p => file_fd'[q] = file_fd[q] /\ file_buffer'[q] = file_buffer[q]
           /\ \A q \in Pids : q # p => (q \in failed' <=> q \in failed)
           /\ \A d \in Clients : d # serves[p] =>
                 request_length'[d] = request_length[d] /\ answer'[d] = answer[d]
           /\ child[p] \in {"post_ok", "get_ok", "get_content"} \cup Ended =>
                 failed' = failed /\ request_length' = request_length
  <1>1. \A q \in Pids : q # p => file_fd'[q] = file_fd[q]
    BY DEF Child, ChildClose, Read, PostOpen, PostWrite, PostOk, GetOpen, GetRead, GetOk,
           GetContent, Exit, ServerIInv, ServerTyped
  <1>2. \A q \in Pids : q # p => file_buffer'[q] = file_buffer[q]
    BY DEF Child, ChildClose, Read, PostOpen, PostWrite, PostOk, GetOpen, GetRead, GetOk,
           GetContent, Exit, ServerIInv, ServerTyped
  <1>3. \A d \in Clients : d # serves[p] => request_length'[d] = request_length[d]
    BY DEF Child, ChildClose, Read, PostOpen, PostWrite, PostOk, GetOpen, GetRead, GetOk,
           GetContent, Exit, ServerIInv, ServerTyped, history
  <1>4. \A d \in Clients : d # serves[p] => answer'[d] = answer[d]
    BY DEF Child, ChildClose, Read, PostOpen, PostWrite, PostOk, GetOpen, GetRead, GetOk,
           GetContent, Exit, Reply, ServerIInv, ServerTyped
  <1>5. child[p] \in {"post_ok", "get_ok", "get_content"} \cup Ended =>
           failed' = failed /\ request_length' = request_length
    BY DEF Child, ChildClose, Read, PostOpen, PostWrite, PostOk, GetOpen, GetRead, GetOk,
           GetContent, Exit, Ended, history
  <1>6. \A q \in Pids : q # p => (q \in failed' <=> q \in failed)
    BY DEF Child, ChildClose, Read, PostOpen, PostWrite, PostOk, GetOpen, GetRead, GetOk,
           GetContent, Exit, history
  <1>. QED
    BY <1>1, <1>2, <1>3, <1>4, <1>5, <1>6

\* Who has something in a file has written, and writes no more.
LEMMA WritersStay ==
    ASSUME ServerIInv, NEW p \in Pids, Child(p)
    PROVE  /\ \A d \in Clients : d # serves[p] => wrote'[d] = wrote[d]
           /\ child[p] # "post_write" => wrote' = wrote
           /\ \A d \in Writers : wrote'[d] = wrote[d]
           /\ Writers \subseteq Writers'
  <1>1. /\ \A d \in Clients : d # serves[p] => wrote'[d] = wrote[d]
        /\ child[p] # "post_write" => wrote' = wrote
    BY FileFrame DEF Puts, ServerIInv, ServerTyped
  <1>2. ASSUME NEW d \in Writers
        PROVE  wrote'[d] = wrote[d]
    <2>1. PICK q \in Pids : serves[q] = d /\ child[q] \in {"post_ok"} \cup Ended
      BY DEF ServerIInv, DoneInv
    <2>2. d \in Clients /\ d # NoConn
      BY AsmServerAssumption DEF Writers
    <2>3. serves[p] = d => child[p] # "post_write"
      BY <2>1, <2>2 DEF ServerIInv, ConnInv, Ended
    <2>. QED
      BY <1>1, <2>2, <2>3
  <1>3. Writers \subseteq Writers'
    BY <1>2 DEF Writers
  <1>. QED
    BY <1>1, <1>2, <1>3

\* A child that answered or is past it ends.
LEMMA Forward ==
    ASSUME ServerIInv, NEW p \in Pids, Child(p)
    PROVE  child[p] \in {"post_ok", "get_content"} \cup Ended => child'[p] \in Ended
  BY DEF ServerIInv, ServerTyped, Child, ChildClose, Read, PostOpen, PostWrite, PostOk, GetOpen,
         GetRead, GetOk, GetContent, Exit, AfterPost, Reply, Goto, Ended

\* A step of a child answers its own client only, from the steps for that, and
\* takes no answer back.
LEMMA AnswerFrame ==
    ASSUME ServerIInv, NEW p \in Pids, Child(p), NEW d \in Clients
    PROVE  /\ answer[d].ok => answer'[d].ok
           /\ answer'[d].ok =>
                 \/ answer[d].ok
                 \/ /\ d = serves[p]
                    /\ \/ child[p] = "post_ok" /\ child'[p] = "over"
                       \/ child[p] = "get_ok" /\ child'[p] = "get_content"
  <1>. USE DEF ServerIInv, ServerTyped
  <1>1. CASE UNCHANGED answer
    BY <1>1
  <1>2. CASE PostOk(p) /\ answer' = [answer EXCEPT ![serves[p]] = [@ EXCEPT !.ok = TRUE]]
             /\ child'[p] = "over"
    BY <1>2 DEF PostOk
  <1>3. CASE GetOk(p) /\ answer' = [answer EXCEPT ![serves[p]] = [@ EXCEPT !.ok = TRUE]]
             /\ child'[p] = "get_content"
    BY <1>3 DEF GetOk
  <1>4. CASE answer' = [answer EXCEPT ![serves[p]] = [@ EXCEPT !.content = file_buffer[p]]]
    BY <1>4
  <1>. QED
    BY <1>1, <1>2, <1>3, <1>4 DEF Child, ChildClose, Read, PostOpen, PostWrite, PostOk, GetOpen,
         GetRead, GetOk, GetContent, Exit, AfterPost, Reply, Goto

\* Every step keeps what is known of those who were answered or wrote.
LEMMA DoneStep ==
    ASSUME ServerIInv, Next
    PROVE  DoneInv'
  <1>. USE DEF ServerIInv
  <1>1. CASE Setup \/ Accept \/ ParentClose \/ KillParent
    BY <1>1, ParentFrame DEF DoneInv, Writers, process, peers, history
  <1>2. CASE Fork
    <2>1. UNCHANGED <<acked, answer, wrote>>
      BY <1>2, ForkFrame DEF peers, history
    <2>2. \A q \in Pids : child[q] # "none" => serves'[q] = serves[q] /\ child'[q] = child[q]
      BY <1>2, ForkFrame
    <2>3. "none" \notin {"post_ok", "get_content"} \cup Ended
      BY DEF Ended
    <2>. QED
      BY <2>1, <2>2, <2>3 DEF DoneInv, Writers
  <1>3. ASSUME NEW c \in Clients, Client(c) PROVE DoneInv'
    <2>1. UNCHANGED <<child, serves, answer, wrote>>
      BY <1>3, ClientFrame DEF process, history
    <2>2. \A e \in Clients : \A d \in acked'[e] : Method[d] = "POST" /\ answer[d].ok
      <3>1. CASE Connect(c)
        BY <3>1 DEF Connect, DoneInv, ServerTyped
      <3>2. CASE UNCHANGED acked
        BY <3>2 DEF DoneInv
      <3>. QED
        BY <1>3, <3>1, <3>2 DEF Client, Send, Hangup
    <2>. QED
      BY <2>1, <2>2 DEF DoneInv, Writers
  <1>4. ASSUME NEW p \in Pids, Child(p) PROVE DoneInv'
    <2>1. /\ UNCHANGED <<serves, acked>>
          /\ \A q \in Pids : q # p => child'[q] = child[q]
      BY <1>4, ChildFrame DEF peers
    <2>2. child[p] \in {"post_ok", "get_content"} \cup Ended => child'[p] \in Ended
      BY <1>4, Forward
    <2>3. ASSUME NEW d \in Clients, answer'[d].ok
          PROVE  \E q \in Pids : serves[q] = d /\ child'[q] \in {"get_content"} \cup Ended
      <3>1. CASE answer[d].ok
        <4>1. PICK q \in Pids : serves[q] = d /\ child[q] \in {"get_content"} \cup Ended
          BY <3>1 DEF DoneInv
        <4>. QED
          BY <2>1, <2>2, <4>1
      <3>2. CASE d = serves[p] /\ child'[p] \in {"over", "get_content"}
        BY <3>2 DEF Ended
      <3>. QED
        BY <1>4, <2>3, <3>1, <3>2, AnswerFrame
    <2>4. ASSUME NEW d \in Writers'
          PROVE  /\ Method[d] = "POST"
                 /\ \E q \in Pids : serves[q] = d /\ child'[q] \in {"post_ok"} \cup Ended
      <3>1. CASE d \in Writers
        <4>1. /\ Method[d] = "POST"
              /\ \E q \in Pids : serves[q] = d /\ child[q] \in {"post_ok"} \cup Ended
          BY <3>1 DEF DoneInv
        <4>. QED
          BY <2>1, <2>2, <4>1
      <3>2. CASE d \notin Writers
        <4>1. d \in Clients /\ wrote'[d] # wrote[d]
          BY <3>2 DEF Writers
        <4>2. d = serves[p] /\ child[p] = "post_write" /\ child'[p] = "post_ok"
          BY <1>4, <4>1, FileFrame, WritersStay DEF Puts
        <4>. QED
          BY <2>1, <4>2, ServesClient DEF PostSteps
      <3>. QED
        BY <3>1, <3>2
    <2>5. \A c \in Clients : \A d \in acked[c] : Method[d] = "POST" /\ answer'[d].ok
      <3>1. ASSUME NEW c \in Clients, NEW d \in acked[c]
            PROVE  Method[d] = "POST" /\ answer'[d].ok
        <4>1. d \in Clients /\ Method[d] = "POST" /\ answer[d].ok
          BY DEF DoneInv, ServerTyped
        <4>. QED
          BY <1>4, <4>1, AnswerFrame
      <3>. QED
        BY <3>1
    <2>. QED
      BY <2>1, <2>3, <2>4, <2>5 DEF DoneInv
  <1>. QED
    BY <1>1, <1>2, <1>3, <1>4 DEF Next, Parent

\* A client that is answered has one child, which is past its answer.
LEMMA Answered ==
    ASSUME ServerIInv, NEW q \in Pids, serves[q] \in Clients, answer[serves[q]].ok
    PROVE  child[q] \in {"get_content"} \cup Ended
  <1>1. serves[q] # NoConn
    BY AsmServerAssumption
  <1>2. PICK r \in Pids : serves[r] = serves[q] /\ child[r] \in {"get_content"} \cup Ended
    BY DEF ServerIInv, DoneInv
  <1>3. r = q
    BY <1>1, <1>2 DEF ServerIInv, ConnInv
  <1>. QED
    BY <1>2, <1>3

\* The connection in the hand of the parent was not answered.
LEMMA NewConnection ==
    ASSUME ServerIInv, Fork, rbx \in Clients
    PROVE  ~answer[rbx].ok
  <1>. SUFFICES ASSUME answer[rbx].ok PROVE FALSE
    OBVIOUS
  <1>1. PICK r \in Pids : serves[r] = rbx
    BY DEF ServerIInv, DoneInv
  <1>2. rbx # NoConn
    BY AsmServerAssumption
  <1>. QED
    BY <1>1, <1>2 DEF ServerIInv, ConnInv, Fork

\* Every step keeps that whose POST was answered has written.
LEMMA WroteStep ==
    ASSUME ServerIInv, Next
    PROVE  WroteInv'
  <1>. USE DEF ServerIInv
  <1>1. CASE Setup \/ Accept \/ ParentClose \/ KillParent
    BY <1>1, ParentFrame DEF WroteInv, BodyLength, process, history
  <1>2. CASE Fork
    <2>1. UNCHANGED <<answer, wrote, failed, request_length>>
      BY <1>2, ForkFrame DEF history
    <2>2. SUFFICES ASSUME NEW q \in Pids, serves'[q] # NoConn, child'[q] = "close",
                          serves[q] = NoConn, serves'[q] = rbx, answer[rbx].ok
                   PROVE  FALSE
      BY <1>2, <2>1, ForkFrame DEF WroteInv, BodyLength
    <2>3. rbx \in Clients
      BY <2>2 DEF ServerTyped
    <2>. QED
      BY <1>2, <2>2, <2>3, NewConnection
  <1>3. ASSUME NEW c \in Clients, Client(c) PROVE WroteInv'
    BY <1>3, ClientFrame DEF WroteInv, BodyLength, process, history
  <1>4. ASSUME NEW p \in Pids, Child(p) PROVE WroteInv'
    <2>1. /\ UNCHANGED serves
          /\ \A q \in Pids : q # p => child'[q] = child[q]
      BY <1>4, ChildFrame
    <2>2. \A q \in Pids : q # p => (q \in failed' <=> q \in failed)
      BY <1>4, OwnFrame
    <2>3. \A d \in Clients : d # serves[p] =>
             /\ request_length'[d] = request_length[d] /\ (answer'[d].ok => answer[d].ok)
             /\ wrote'[d] = wrote[d]
      BY <1>4, OwnFrame, WritersStay
    <2>4. ASSUME NEW q \in Pids, q # p, serves[q] # NoConn, Method[serves[q]] = "POST",
                 child'[q] = "post_ok" \/ answer'[serves[q]].ok, q \notin failed'
          PROVE  wrote'[serves[q]] = BodyLength(serves[q])'
      <3>1. serves[q] \in Clients /\ serves[q] # serves[p]
        BY <2>4 DEF ConnInv, ServerTyped
      <3>2. child[q] = "post_ok" \/ answer[serves[q]].ok
        BY <2>1, <2>3, <2>4, <3>1
      <3>3. wrote[serves[q]] = BodyLength(serves[q])
        BY <2>2, <2>4, <3>2 DEF WroteInv
      <3>. QED
        BY <2>1, <2>3, <3>1, <3>3 DEF BodyLength
    <2>5. ASSUME serves[p] # NoConn, Method[serves[p]] = "POST",
                 child'[p] = "post_ok" \/ answer'[serves[p]].ok, p \notin failed'
          PROVE  wrote'[serves[p]] = BodyLength(serves[p])'
      <3>0. serves[p] \in Clients
        BY <2>5 DEF ServerTyped
      <3>1. CASE PostWrite(p)
        <4>1. UNCHANGED request_length
          BY <3>1 DEF PostWrite
        <4>2. wrote' = [wrote EXCEPT ![serves[p]] = BodyLength(serves[p])]
          BY <2>5, <3>1 DEF PostWrite
        <4>. QED
          BY <2>1, <3>0, <4>1, <4>2 DEF BodyLength, ServerTyped
      <3>2. CASE ~PostWrite(p)
        <4>1. child[p] = "post_ok" \/ answer[serves[p]].ok
          <5>1. child'[p] # "post_ok"
            <6>1. CASE Read(p)
              BY <6>1, ReadGoes
            <6>. QED
              BY <1>4, <3>2, <6>1
                 DEF Child, ChildClose, PostOpen, PostOk, GetOpen, GetRead, GetOk, GetContent,
                     Exit, AfterPost, Reply, Goto, ServerTyped
          <5>2. CASE child[p] = "get_ok"
            BY <2>5, <5>2, ServesClient DEF GetSteps
          <5>. QED
            BY <1>4, <2>5, <3>0, <5>1, <5>2, AnswerFrame
        <4>2. child[p] \in {"post_ok", "get_content"} \cup Ended
          BY <3>0, <4>1, Answered
        <4>3. failed' = failed /\ request_length' = request_length /\ wrote' = wrote
          BY <1>4, <4>2, OwnFrame, WritersStay DEF Ended
        <4>. QED
          BY <2>1, <2>5, <4>1, <4>3 DEF WroteInv, BodyLength
      <3>. QED
        BY <3>1, <3>2
    <2>. QED
      BY <2>1, <2>4, <2>5 DEF WroteInv
  <1>. QED
    BY <1>1, <1>2, <1>3, <1>4 DEF Next, Parent

\* Every step keeps what was written at the start of the files.
LEMMA FileStep ==
    ASSUME ServerIInv, Next
    PROVE  FileInv'
  <1>. USE DEF ServerIInv
  <1>1. CASE Setup \/ Accept \/ ParentClose \/ KillParent
    BY <1>1, ParentFrame DEF FileInv, Alone, Writers, Written, history
  <1>2. CASE Fork
    BY <1>2, ForkFrame DEF FileInv, Alone, Writers, Written, history
  <1>3. ASSUME NEW c \in Clients, Client(c) PROVE FileInv'
    BY <1>3, ClientFrame DEF FileInv, Alone, Writers, Written, history
  <1>4. ASSUME NEW p \in Pids, Child(p) PROVE FileInv'
    <2>. SUFFICES ASSUME NEW d \in Writers', Alone(d)'
                  PROVE  file'[Path[d]] # Missing /\ IsPrefix(Written(d)', file'[Path[d]])
      BY DEF FileInv
    <2>0. file \in [Paths -> Seq(Nat) \cup {Missing}] /\ Writers \subseteq Writers'
      BY <1>4, WritersStay DEF ServerTyped
    <2>3. d \in Clients /\ Path[d] \in Paths /\ d # NoConn
      BY AsmServerAssumption DEF Writers, Paths
    <2>1. CASE d \in Writers
      <3>1. PICK q \in Pids : serves[q] = d /\ child[q] \in {"post_ok"} \cup Ended
        BY <2>1 DEF DoneInv
      <3>2. q = p \/ serves[p] # d
        BY <2>3, <3>1 DEF ConnInv
      <3>3. Written(d)' = Written(d)
        BY <1>4, <2>1, WritersStay DEF Written
      <3>5. file[Path[d]] # Missing /\ IsPrefix(Written(d), file[Path[d]])
        BY <2>0, <2>1 DEF FileInv, Alone
      <3>6. file'[Path[d]] = file[Path[d]]
        <4>1. CASE UNCHANGED file
          BY <4>1
        <4>2. CASE /\ file[Path[serves[p]]] = Missing
                   /\ file' = [file EXCEPT ![Path[serves[p]]] = <<>>]
          <5>1. Path[serves[p]] # Path[d]
            BY <3>5, <4>2
          <5>. QED
            BY <2>0, <2>3, <4>2, <5>1
        <4>3. ASSUME NEW n \in Nat, Puts(p, n), file' # file
              PROVE  file'[Path[d]] = file[Path[d]]
          <5>1. q # p
            BY <3>1, <4>3 DEF Puts, Ended
          <5>2. serves[p] \in Writers'
            BY <4>3 DEF Puts, Writers, ServerTyped
          <5>3. Path[serves[p]] # Path[d]
            BY <3>2, <5>1, <5>2 DEF Alone
          <5>. QED
            BY <2>0, <2>3, <4>3, <5>3 DEF Puts
        <4>. QED
          BY <1>4, <4>1, <4>2, <4>3, FileFrame
      <3>. QED
        BY <3>3, <3>5, <3>6
    <2>2. CASE d \notin Writers
      <3>1. PICK n \in Nat : Puts(p, n)
        BY <1>4, <2>2, FileFrame DEF Writers
      <3>2. d = serves[p] /\ wrote'[d] = n /\ n > 0
        BY <2>2, <2>3, <3>1 DEF Writers, Puts, ServerTyped
      <3>. DEFINE new == SubSeq(Body[d], 1, n)
      <3>3. /\ file[Path[d]] \in Seq(Nat) /\ new \in Seq(Nat) /\ Written(d)' = new
            /\ file' = [file EXCEPT ![Path[d]] = Overwritten(file[Path[d]], new)]
        BY <3>1, <3>2 DEF Puts, Written
      <3>. HIDE DEF new
      <3>4. Overwritten(file[Path[d]], new) \in Seq(Nat)
            /\ IsPrefix(new, Overwritten(file[Path[d]], new))
        BY <3>3, OverwrittenStart
      <3>5. file'[Path[d]] = Overwritten(file[Path[d]], new)
        BY <2>0, <2>3, <3>3
      <3>6. Missing \notin Seq(Nat)
        BY AsmServerAssumption
      <3>. QED
        BY <3>3, <3>4, <3>5, <3>6
    <2>. QED
      BY <2>1, <2>2
  <1>. QED
    BY <1>1, <1>2, <1>3, <1>4 DEF Next, Parent

\* What was posted and answered before a step and is still there after it was
\* there before it, the same.
LEMMA PostedBefore ==
    ASSUME ServerIInv, Next, NEW d \in Clients, answer[d].ok, Posted(d)'
    PROVE  Posted(d) /\ Written(d)' = Written(d)
  <1>. USE DEF ServerIInv
  <1>0. d # NoConn
    BY AsmServerAssumption
  <1>1. CASE Setup \/ Accept \/ ParentClose \/ KillParent
    BY <1>1, ParentFrame DEF Posted, Alone, Writers, Written, history
  <1>2. CASE Fork
    BY <1>2, ForkFrame DEF Posted, Alone, Writers, Written, history
  <1>3. ASSUME NEW c \in Clients, Client(c) PROVE Posted(d) /\ Written(d)' = Written(d)
    BY <1>3, ClientFrame DEF Posted, Alone, Writers, Written, history
  <1>4. ASSUME NEW p \in Pids, Child(p) PROVE Posted(d) /\ Written(d)' = Written(d)
    <2>1. PICK q \in Pids : serves[q] = d /\ child[q] \in {"get_content"} \cup Ended
      BY DEF DoneInv
    <2>2. serves[p] = d => child[p] # "post_write"
      BY <1>0, <2>1 DEF ConnInv, Ended
    <2>3. wrote'[d] = wrote[d] /\ Writers \subseteq Writers'
      BY <1>4, <2>2, WritersStay
    <2>. QED
      BY <2>3 DEF Posted, Alone, Writers, Written
  <1>. QED
    BY <1>1, <1>2, <1>3, <1>4 DEF Next, Parent

\* Where a child that serves a GET comes from.
LEMMA GetSource ==
    ASSUME ServerIInv, NEW p \in Pids, Child(p), Method[serves[p]] = "GET"
    PROVE  /\ child'[p] = "get_read" => GetOpen(p)
           /\ child'[p] = "get_ok" => GetRead(p)
           /\ child'[p] = "get_content" => GetOk(p)
           /\ child'[p] = "over" => GetContent(p)
  <1>. USE DEF ServerIInv
  <1>1. CASE Read(p)
    BY <1>1, ReadGoes
  <1>2. CASE PostOpen(p) \/ PostWrite(p) \/ PostOk(p)
    BY <1>2, ServesClient DEF PostOpen, PostWrite, PostOk, PostSteps
  <1>3. CASE ChildClose(p) \/ Exit(p)
    BY <1>3 DEF ChildClose, Exit, Goto, ServerTyped
  <1>4. CASE GetOpen(p) \/ GetRead(p) \/ GetOk(p) \/ GetContent(p)
    BY <1>4 DEF GetOpen, GetRead, GetOk, GetContent, Reply, Goto, ServerTyped
  <1>. QED
    BY <1>1, <1>2, <1>3, <1>4 DEF Child

\* What a read() of n bytes finds of what was written at the start of a file.
LEMMA PartMatches ==
    ASSUME NEW s \in Seq(Nat), NEW t \in Seq(Nat), IsPrefix(s, t),
           NEW n \in Nat, n <= Len(t)
    PROVE  /\ Len(SubSeq(t, 1, n)) = n
           /\ IsPrefix(SubSeq(s, 1, Min({Len(s), n})), SubSeq(t, 1, n))
  <1>1. Min({Len(t), n}) = n
    <2>1. Len(t) \in Nat
      OBVIOUS
    <2>. QED
      BY <2>1 DEF Min
  <1>. QED
    BY <1>1, FrontsMatch, FrontOf

\* A step of the child of a GET takes what was posted one step further.
LEMMA ReadsStep ==
    ASSUME ServerIInv, NEW p \in Pids, Child(p),
           serves[p] \in Clients, Method[serves[p]] = "GET",
           NEW d \in Clients, Posted(d), Written(d)' = Written(d),
           Path[d] = Path[serves[p]], Reads(p, d)
    PROVE  Reads(p, d)'
  <1>. USE DEF ServerIInv
  <1>. DEFINE f == file[Path[d]]
  <1>0. UNCHANGED <<serves, gone>>
    BY ChildFrame DEF peers
  <1>9. f # Missing /\ f \in Seq(Nat) /\ IsPrefix(Written(d), f)
    <2>1. Path[d] \in Paths
      BY DEF Paths
    <2>. QED
      BY <2>1 DEF FileInv, Posted, ServerTyped
  <1>1. child'[p] = "get_read" => file_fd'[p] \/ p \in failed'
    <2>1. GetOpen(p) => file_fd'[p] \/ p \in failed'
      BY <1>9 DEF GetOpen, ServerTyped
    <2>. QED
      BY <2>1, GetSource
  <1>2. ASSUME child'[p] = "get_ok"
        PROVE  Found(p, d, file_buffer[p])'
    <2>1. GetRead(p) /\ (file_fd[p] \/ p \in failed)
      BY <1>2, GetSource DEF Reads, GetRead
    <2>2. BufferSize \in Nat /\ Written(d) \in Seq(Nat) /\ Len(f) \in Nat
      BY <1>9, WrittenTyped, AsmServerAssumption
    <2>. DEFINE all == Min({Len(f), BufferSize})
    <2>3. all \in Nat /\ all <= Len(f) /\ all <= BufferSize
      BY <2>2, MinOfTwo
    <2>4. PICK n \in Nat : /\ n <= Len(f)
                           /\ file_buffer'[p] = SubSeq(f, 1, n)
                           /\ p \in failed' \/ n = all
      <3>1. CASE file_buffer' = [file_buffer EXCEPT ![p] = <<>>]
                 /\ (p \in failed' \/ all = 0)
        <4>. HIDE DEF f
        <4>1. SubSeq(f, 1, 0) = <<>>
          BY <1>9, FrontOf, EmptySeq
        <4>2. file_buffer'[p] = SubSeq(f, 1, 0)
          BY <3>1, <4>1 DEF ServerTyped
        <4>3. 0 \in Nat /\ 0 <= Len(f)
          BY <2>2
        <4>. HIDE DEF all
        <4>4. p \in failed' \/ 0 = all
          BY <3>1
        <4>. QED
          BY <4>2, <4>3, <4>4
      <3>2. ASSUME NEW n \in Nat, n <= all,
                   file_buffer' = [file_buffer EXCEPT ![p] = SubSeq(f, 1, n)],
                   p \in failed' \/ n = all
            PROVE  \E k \in Nat : /\ k <= Len(f)
                                  /\ file_buffer'[p] = SubSeq(f, 1, k)
                                  /\ p \in failed' \/ k = all
        <4>. HIDE DEF f, all
        <4>1. n <= Len(f)
          BY <2>2, <2>3, <3>2
        <4>2. file_buffer'[p] = SubSeq(f, 1, n)
          BY <3>2 DEF ServerTyped
        <4>. QED
          BY <3>2, <4>1, <4>2
      <3>. QED
        BY <2>1, <3>1, <3>2, ReadPart
    <2>. DEFINE w == Written(d)
    <2>. HIDE DEF f, w
    <2>5. Len(file_buffer'[p]) = n /\ IsPrefix(SubSeq(w, 1, Min({Len(w), n})), file_buffer'[p])
      BY <1>9, <2>2, <2>4, PartMatches DEF w
    <2>6. CASE p \in failed'
      BY <2>5, <2>6 DEF Found, w
    <2>7. CASE p \notin failed'
      <3>1. IsPrefix(SubSeq(w, 1, Min({Len(w), BufferSize})), SubSeq(f, 1, all))
        BY <1>9, <2>2, FrontsMatch DEF w
      <3>. QED
        BY <2>4, <2>7, <3>1 DEF Found, w
    <2>. QED
      BY <2>6, <2>7
  <1>3. ASSUME child'[p] = "get_content"
        PROVE  Found(p, d, file_buffer[p])'
    <2>1. GetOk(p)
      BY <1>3, GetSource
    <2>. QED
      BY <2>1 DEF GetOk, Reads, Found, history
  <1>4. ASSUME child'[p] = "over", serves[p] \notin gone
        PROVE  Found(p, d, answer[serves[p]].content)'
    <2>1. GetContent(p)
      BY <1>4, GetSource
    <2>2. answer'[serves[p]].content = file_buffer[p]
      BY <1>4, <2>1 DEF GetContent, Reply, ServerTyped
    <2>. QED
      BY <1>0, <2>1, <2>2 DEF GetContent, Reads, Found, history
  <1>. QED
    BY <1>0, <1>1, <1>2, <1>3, <1>4 DEF Reads

\* Every step keeps what the children of the GETs have.
LEMMA ReaderStep ==
    ASSUME ServerIInv, Next
    PROVE  ReaderInv'
  <1>. USE DEF ServerIInv
  <1>. SUFFICES ASSUME NEW p \in Pids, serves'[p] # NoConn, Method[serves'[p]] = "GET",
                       NEW d \in acked'[serves'[p]],
                       Path[d] = Path[serves'[p]], Posted(d)'
                PROVE  Reads(p, d)'
    BY DEF ReaderInv
  <1>1. CASE Setup \/ Accept \/ ParentClose \/ KillParent
    BY <1>1, ParentFrame DEF ReaderInv, Posted, Alone, Writers, Written, Reads, Found, process,
                             peers, history
  <1>2. CASE Fork
    <2>1. UNCHANGED <<file_fd, file_buffer, answer, acked, gone, failed, wrote>>
      BY <1>2, ForkFrame DEF peers, history
    <2>2. CASE child'[p] = "close"
      BY <2>2 DEF Reads
    <2>3. CASE serves'[p] = serves[p] /\ child'[p] = child[p]
      <3>1. serves[p] \in Clients /\ d \in acked[serves[p]]
        BY <2>1, <2>3 DEF ServerTyped
      <3>2. d \in Clients /\ answer[d].ok
        BY <3>1 DEF DoneInv, ServerTyped
      <3>3. Posted(d)
        BY <3>2, PostedBefore
      <3>4. Reads(p, d)
        BY <2>3, <3>1, <3>3 DEF ReaderInv
      <3>. QED
        BY <2>1, <2>3, <3>4 DEF Reads, Found, Written
    <2>. QED
      BY <1>2, <2>2, <2>3, ForkFrame
  <1>3. ASSUME NEW c \in Clients, Client(c) PROVE Reads(p, d)'
    <2>1. /\ UNCHANGED <<child, serves, file_fd, file_buffer, answer, failed, wrote>>
          /\ gone \subseteq gone'
      BY <1>3, ClientFrame DEF process, history, Client, Connect, Send, Hangup
    <2>2. serves[p] \in Clients
      BY <2>1 DEF ServerTyped
    <2>3. acked'[serves[p]] = acked[serves[p]]
      <3>1. Connect(c) => c # serves[p]
        BY <2>1 DEF Connect, ConnInv
      <3>2. Connect(c) => \A e \in Clients : e # c => acked'[e] = acked[e]
        BY DEF Connect, ServerTyped
      <3>. QED
        BY <1>3, <2>2, <3>1, <3>2 DEF Client, Send, Hangup
    <2>4. d \in Clients /\ answer[d].ok
      BY <2>1, <2>2, <2>3 DEF DoneInv, ServerTyped
    <2>5. Posted(d)
      BY <2>4, PostedBefore
    <2>6. Reads(p, d)
      BY <2>1, <2>3, <2>5 DEF ReaderInv
    <2>. QED
      BY <2>1, <2>6 DEF Reads, Found, Written
  <1>4. ASSUME NEW q \in Pids, Child(q) PROVE Reads(p, d)'
    <2>1. /\ UNCHANGED <<serves, acked, gone>>
          /\ \A r \in Pids : r # q => child'[r] = child[r]
      BY <1>4, ChildFrame DEF peers
    <2>2. serves[p] \in Clients /\ d \in acked[serves[p]]
      BY <2>1 DEF ServerTyped
    <2>3. d \in Clients /\ Method[d] = "POST" /\ answer[d].ok
      BY <2>2 DEF DoneInv, ServerTyped
    <2>4. Posted(d) /\ Written(d)' = Written(d)
      BY <2>3, PostedBefore
    <2>5. Reads(p, d)
      BY <2>1, <2>2, <2>4 DEF ReaderInv
    <2>6. CASE p = q
      BY <1>4, <2>1, <2>2, <2>3, <2>4, <2>5, <2>6, ReadsStep
    <2>7. CASE p # q
      <3>1. serves[p] # serves[q]
        BY <2>1, <2>7 DEF ConnInv
      <3>2. /\ child'[p] = child[p] /\ file_fd'[p] = file_fd[p]
            /\ file_buffer'[p] = file_buffer[p]
            /\ answer'[serves[p]] = answer[serves[p]]
            /\ p \in failed' <=> p \in failed
        BY <1>4, <2>1, <2>2, <2>7, <3>1, OwnFrame
      <3>. QED
        BY <2>1, <2>4, <2>5, <3>2 DEF Reads, Found
    <2>. QED
      BY <2>6, <2>7
  <1>. QED
    BY <1>1, <1>2, <1>3, <1>4 DEF Next, Parent

\* Every step of the server, its children and its clients keeps the invariant.
LEMMA ServerNext == ServerIInv /\ [Next]_vars => ServerIInv'
  <1>1. ASSUME ServerIInv, Next PROVE ServerIInv'
    <2>1. ServerTyped'
      BY <1>1, ParentTypes, ChildTypes, ClientTypes DEF Next
    <2>. QED
      BY <1>1, <2>1, ConnStep, MethodStep, OpenStep, DoneStep, WroteStep, FileStep, ReaderStep
         DEF ServerIInv
  <1>2. ASSUME ServerIInv, UNCHANGED vars PROVE ServerIInv'
    <2>. USE <1>2 DEF vars, server, process, peers, history, ServerIInv
    <2>1. ServerTyped' /\ MethodInv' /\ OpenInv' /\ DoneInv' /\ WroteInv'
      BY DEF ServerTyped, MethodInv, OpenInv, DoneInv, WroteInv, Writers, BodyLength
    <2>2. ConnInv'
      BY DEF ConnInv, Waits
    <2>3. FileInv'
      BY DEF FileInv, Alone, Writers, Written
    <2>4. ReaderInv'
      BY DEF ReaderInv, Posted, Alone, Writers, Written, Reads, Found
    <2>. QED
      BY <2>1, <2>2, <2>3, <2>4
  <1>. QED
    BY <1>1, <1>2

\* A client that gets a file after someone was told that a POST to it went well
\* finds what the calls on files left of what was posted, for any clients,
\* bodies, number of children, calls that fail or fall short, and place where
\* the requests are cut.
THEOREM PostsAreRead == Spec => []ReadYourPost
  <1>1. ServerIInv => ReadYourPost
    <2>. SUFFICES ASSUME ServerIInv, NEW c \in Clients, NEW p \in Pids,
                         Method[c] = "GET", serves[p] = c, child[p] = "over", c \notin gone,
                         NEW d \in acked[c], Path[d] = Path[c],
                         \A e \in Writers \ {d} : Path[e] # Path[c]
                  PROVE  LET content == answer[c].content
                             room == IF p \in failed THEN Len(content) ELSE BufferSize
                         IN  IsPrefix(SubSeq(Stored(d), 1, Min({Len(Stored(d)), room})), content)
      BY Zenon DEF ReadYourPost
    <2>. USE DEF ServerIInv
    <2>1. d \in Clients /\ Method[d] = "POST" /\ answer[d].ok /\ c # NoConn
      BY AsmServerAssumption DEF DoneInv, ServerTyped
    <2>2. Stored(d) = Written(d)
      <3>1. PICK q \in Pids : serves[q] = d
        BY <2>1 DEF DoneInv
      <3>2. d # NoConn
        BY <2>1, AsmServerAssumption
      <3>3. q \notin failed => wrote[d] = BodyLength(d)
        BY <2>1, <3>1, <3>2 DEF WroteInv
      <3>. QED
        BY <3>1, <3>3 DEF Stored, Written
    <2>5. SUFFICES Found(p, d, answer[c].content)
      BY <2>2, Zenon DEF Found
    <2>3. CASE d \in Writers
      <3>1. Posted(d)
        BY <2>3 DEF Posted, Alone
      <3>. QED
        BY <2>1, <3>1 DEF ReaderInv, Reads
    <2>4. CASE d \notin Writers
      <3>1. wrote[d] = 0
        BY <2>1, <2>4 DEF Writers, ServerTyped
      <3>8. Written(d) \in Seq(Nat) /\ Len(Written(d)) = wrote[d]
        BY <2>1, WrittenTyped
      <3>2. answer[c].content \in Seq(Nat) /\ BufferSize \in Nat
        BY AsmServerAssumption DEF ServerTyped
      <3>. DEFINE room == IF p \in failed THEN Len(answer[c].content) ELSE BufferSize
                  w == Written(d)
      <3>3. room \in Nat
        BY <3>2
      <3>4. Len(w) = 0 /\ w \in Seq(Nat)
        BY <3>1, <3>8
      <3>. HIDE DEF room, w
      <3>5. Min({Len(w), room}) = 0
        <4>. DEFINE m == Min({0, room})
        <4>1. m \in {0, room} /\ m <= 0
          BY <3>3, MinOfTwo
        <4>. HIDE DEF m
        <4>2. m = 0
          BY <3>3, <4>1
        <4>. QED
          BY <3>4, <4>2 DEF m
      <3>6. SubSeq(w, 1, 0) \in Seq(Nat) /\ Len(SubSeq(w, 1, 0)) = 0
        BY <3>4, FrontOf
      <3>7. IsPrefix(SubSeq(w, 1, 0), answer[c].content)
        <4>. DEFINE none == SubSeq(w, 1, 0)
                    content == answer[c].content
        <4>1. none \in Seq(Nat) /\ Len(none) = 0 /\ content \in Seq(Nat)
          BY <3>2, <3>6
        <4>. HIDE DEF none, content
        <4>2. Len(none) <= Len(content) /\ \A i \in 1 .. Len(none) : none[i] = content[i]
          BY <4>1
        <4>3. IsPrefix(none, content)
          BY <4>1, <4>2, PrefixByItems
        <4>. QED
          BY <4>3 DEF none, content
      <3>. QED
        <4>1. IsPrefix(SubSeq(w, 1, Min({Len(w), room})), answer[c].content)
          BY <3>5, <3>7
        <4>. QED
          BY <4>1 DEF Found, room, w
    <2>. QED
      BY <2>3, <2>4
  <1>. QED
    BY <1>1, ServerInit, ServerNext, PTL DEF Spec
=============================================================================
