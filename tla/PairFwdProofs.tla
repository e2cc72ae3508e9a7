---------------------------- MODULE PairFwdProofs ----------------------------
(***************************************************************************)
(* Proofs about basic_fwd and rxtx_callbacks (PairFwd), for all numbers of *)
(* ports, burst sizes and pools. The inductive invariant says which ports  *)
(* the start-up loop has started, what the loop of lcore_main() holds      *)
(* between its calls, and that stamps lie in the past.                     *)
(***************************************************************************)
EXTENDS PairFwd, DataLemmas

\* What the variables range over.
TypeOK ==
    /\ program \in {"basic_fwd", "rxtx_callbacks"} /\ nb_ports \in Nat
    /\ pc \in {"options", "pool", "init", "rx", "tx", "free", "exit"}
    /\ port \in Nat /\ started \subseteq Ports
    /\ pool \in Nat /\ bufs \in Seq(Nat) /\ nb_tx \in Nat
    /\ total_cycles \in Nat /\ total_pkts \in Nat
    /\ tsc \in Nat /\ rxq \in [Ports -> Seq(Nat)]
    /\ window \in Seq(Nat)

\* The ports are paired before any is initialised, and all are started when the
\* forwarding begins.
StartupInv ==
    /\ pc \in {"options", "pool"} => port = 0
    /\ pc \in {"init", "rx", "tx", "free"} => nb_ports >= 2 /\ nb_ports % 2 = 0
    /\ pc = "init" => port <= nb_ports /\ 0 .. port - 1 \subseteq started
    /\ pc \in {"rx", "tx", "free"} => port \in Ports /\ started = Ports

\* What lcore_main() holds.
LoopInv ==
    /\ pc \notin {"tx", "free"} => bufs = <<>>
    /\ pc # "free" => nb_tx = 0
    /\ pc = "tx" => bufs # <<>>
    /\ nb_tx <= Len(bufs) /\ Len(bufs) <= BurstSize
    /\ pc = "init" => pool = MbufsPerPort * nb_ports

\* Stamps lie in the past, so no latency is negative.
StampInv ==
    /\ \A p \in Ports : \A i \in 1 .. Len(rxq[p]) : rxq[p][i] = 0
    /\ \A i \in 1 .. Len(bufs) : bufs[i] <= tsc

\* A report is due at the first packet above the threshold.
LatencyInv == total_pkts <= ReportAfter /\ AverageOfWindow

IInv == TypeOK /\ StartupInv /\ LoopInv /\ StampInv /\ LatencyInv /\ MbufConservation

-----------------------------------------------------------------------------
\* port ^ 1 is a port when their number is even.
LEMMA PeerIsPort ==
    ASSUME NEW n \in Nat, n % 2 = 0, NEW p \in 0 .. n - 1
    PROVE  (IF p % 2 = 0 THEN p + 1 ELSE p - 1) \in 0 .. n - 1
  OBVIOUS

\* The next port, after the last one the first.
LEMMA NextIsPort ==
    ASSUME NEW n \in Nat, n >= 1, NEW p \in Nat
    PROVE  p % n \in 0 .. n - 1
  OBVIOUS

\* The size of the pool.
LEMMA PoolSizeType ==
    ASSUME NEW n \in Nat
    PROVE  MbufsPerPort * n \in Nat
  BY PairFwdAssumption

\* The invariant holds initially.
LEMMA InitInv == ASSUME Init PROVE IInv
  <1> USE DEF Init
  <1>1. nb_ports \in Nat
    BY PairFwdAssumption
  <1>2. TypeOK
    BY <1>1, EmptySeq DEF TypeOK
  <1>3. StartupInv
    BY DEF StartupInv
  <1>4. LoopInv /\ StampInv /\ MbufConservation
    BY PairFwdAssumption, EmptySeq DEF LoopInv, StampInv, MbufConservation
  <1>5. LatencyInv
    <2>1. Len(<<>>) = 0 /\ <<>> \in Seq(Nat) /\ DOMAIN <<>> = {}
      BY EmptySeq
    <2>2. SumFunction(<<>>) = 0
      BY <2>1, SumEmpty DEF SumFunction
    <2> QED BY <2>1, <2>2, PairFwdAssumption DEF LatencyInv, AverageOfWindow
  <1> QED BY <1>2, <1>3, <1>4, <1>5 DEF IInv

-----------------------------------------------------------------------------
(* Start-up and the world outside.                                         *)

\* A step of start-up touches neither frames nor latencies.
LEMMA StartupStep ==
    ASSUME IInv, UNCHANGED <<machine, bufs, nb_tx, latency, wires>>,
           pc \in {"options", "pool", "init"},
           pc' \in {"options", "pool", "init", "rx", "exit"},
           port' \in Nat, started' \subseteq Ports, pool' \in Nat,
           StartupInv',
           pc' \in {"init", "rx"} => pool' = MbufsPerPort * nb_ports
    PROVE  IInv'
  <1>1. UNCHANGED <<program, nb_ports, bufs, nb_tx, total_cycles,
                    total_queue_cycles, total_pkts, window, report, rxq, tsc>> /\ Ports' = Ports
    BY DEF machine, latency, wires, Ports
  <1>2. TypeOK'
    BY <1>1 DEF IInv, TypeOK
  <1>3. LoopInv'
    BY <1>1 DEF IInv, LoopInv
  <1>4. StampInv' /\ LatencyInv'
    BY <1>1 DEF IInv, StampInv, LatencyInv, AverageOfWindow
  <1>5. MbufConservation'
    <2> SUFFICES ASSUME pc' \in {"rx", "tx", "free"}
                 PROVE  pool' + Len(bufs') - nb_tx' = MbufsPerPort * nb_ports'
      BY DEF MbufConservation
    <2>1. bufs' = <<>> /\ nb_tx' = 0 /\ Len(<<>>) = 0
      BY <1>1, EmptySeq DEF IInv, LoopInv
    <2> QED BY <1>1, <2>1
  <1> QED BY <1>2, <1>3, <1>4, <1>5 DEF IInv

\* Parsing options keeps the invariant.
LEMMA ParseOptionStep == ASSUME IInv, ParseOption PROVE IInv'
  <1>1. /\ pc = "options" /\ pc' \in {"options", "exit", "pool"}
        /\ UNCHANGED <<machine, started, port, pool, bufs, nb_tx, latency, wires>>
    BY DEF ParseOption
  <1>2. port' \in Nat /\ started' \subseteq Ports /\ pool' \in Nat
    BY <1>1 DEF IInv, TypeOK
  <1>3. StartupInv'
    BY <1>1 DEF IInv, StartupInv
  <1> QED BY <1>1, <1>2, <1>3, StartupStep

\* Creating the pool keeps the invariant.
LEMMA CreatePoolStep == ASSUME IInv, CreatePool PROVE IInv'
  <1>1. /\ pc = "pool"
        /\ UNCHANGED <<machine, started, port, bufs, nb_tx, latency, wires>>
    BY DEF CreatePool, config
  <1>2. nb_ports \in Nat /\ port \in Nat /\ started \subseteq Ports /\ pool \in Nat
    BY DEF IInv, TypeOK
  <1>3. CASE PortsPaired /\ pool' = MbufsPerPort * nb_ports /\ pc' = "init"
    <2>1. pool' \in Nat
      BY <1>2, <1>3, PoolSizeType
    <2>2. StartupInv'
      <3>1. nb_ports' = nb_ports /\ nb_ports >= 2 /\ nb_ports % 2 = 0
        BY <1>1, <1>3 DEF machine, PortsPaired
      <3>2. pc' = "init" /\ port' = 0 /\ started' = started
        BY <1>1, <1>3, <1>2 DEF IInv, StartupInv
      <3> QED BY <3>1, <3>2, <1>2 DEF StartupInv
    <2> QED BY <1>1, <1>2, <1>3, <2>1, <2>2, StartupStep
  <1>4. CASE pc' = "exit" /\ UNCHANGED pool
    <2>1. StartupInv'
      BY <1>4 DEF StartupInv
    <2> QED BY <1>1, <1>2, <1>4, <2>1, StartupStep
  <1> QED BY <1>3, <1>4 DEF CreatePool

\* Initialising a port keeps the invariant.
LEMMA InitPortStep == ASSUME IInv, InitPort PROVE IInv'
  <1>1. /\ pc = "init" /\ port \in Ports
        /\ UNCHANGED <<machine, pool, bufs, nb_tx, latency, wires>>
    BY DEF InitPort
  <1>2. /\ nb_ports \in Nat /\ port \in Nat /\ started \subseteq Ports /\ pool \in Nat
        /\ nb_ports' = nb_ports
    BY <1>1 DEF IInv, TypeOK, machine
  <1>3. /\ pool = MbufsPerPort * nb_ports /\ nb_ports >= 2 /\ nb_ports % 2 = 0
        /\ 0 .. port - 1 \subseteq started
    BY <1>1 DEF IInv, LoopInv, StartupInv
  <1>4. CASE started' = started \cup {port} /\ port' = port + 1 /\ pc' = "init"
    <2>1. started' \subseteq Ports /\ port' \in Nat
      BY <1>1, <1>2, <1>4
    <2>2. port' <= nb_ports /\ 0 .. port' - 1 \subseteq started'
      BY <1>1, <1>2, <1>3, <1>4 DEF Ports
    <2>3. StartupInv'
      BY <1>2, <1>3, <1>4, <2>2 DEF StartupInv
    <2> QED BY <1>1, <1>2, <1>3, <1>4, <2>1, <2>3, StartupStep
  <1>5. CASE pc' = "exit" /\ UNCHANGED <<started, port>>
    <2>1. StartupInv'
      BY <1>5 DEF StartupInv
    <2> QED BY <1>1, <1>2, <1>5, <2>1, StartupStep
  <1> QED BY <1>1, <1>4, <1>5 DEF InitPort, PortInit

\* Entering lcore_main() keeps the invariant.
LEMMA InitDoneStep == ASSUME IInv, InitDone PROVE IInv'
  <1>1. /\ pc = "init" /\ port \notin Ports /\ pc' = "rx" /\ port' = 0
        /\ UNCHANGED <<machine, started, pool, bufs, nb_tx, latency, wires>>
    BY DEF InitDone, config
  <1>2. /\ nb_ports \in Nat /\ port \in Nat /\ started \subseteq Ports /\ pool \in Nat
        /\ nb_ports' = nb_ports
    BY <1>1 DEF IInv, TypeOK, machine
  <1>3. /\ pool = MbufsPerPort * nb_ports /\ nb_ports >= 2 /\ nb_ports % 2 = 0
        /\ 0 .. port - 1 \subseteq started /\ port <= nb_ports
    BY <1>1 DEF IInv, LoopInv, StartupInv
  <1>4. port = nb_ports /\ started = Ports
    <2>1. port = nb_ports
      BY <1>1, <1>2, <1>3 DEF Ports
    <2> QED BY <1>2, <1>3, <2>1 DEF Ports
  <1>5. StartupInv'
    BY <1>1, <1>2, <1>3, <1>4 DEF StartupInv, Ports
  <1> QED BY <1>1, <1>2, <1>3, <1>5, StartupStep

\* A frame from outside keeps the invariant: it has no stamp yet.
LEMMA InjectStep == ASSUME IInv, NEW p \in Ports, Inject(p) PROVE IInv'
  <1> DEFINE a == Arrive(rxq[p], <<0>>, RxQueueSize)
  <1>1. /\ UNCHANGED <<program, nb_ports, pc, port, started, pool, bufs, nb_tx, total_cycles,
                       total_queue_cycles, total_pkts, window, report, tsc>>
        /\ rxq' = [rxq EXCEPT ![p] = a] /\ Ports' = Ports
    BY DEF Inject, machine, config, latency, Ports
  <1>2. \A q \in Ports : rxq[q] \in Seq({0})
    <2> TAKE q \in Ports
    <2>1. /\ rxq[q] \in Seq(Nat)
          /\ \A i \in 1 .. Len(rxq[q]) : rxq[q][i] = 0
      BY DEF IInv, TypeOK, StampInv
    <2>2. Len(rxq[q]) \in Nat /\ rxq[q] \in [1 .. Len(rxq[q]) -> Nat]
      BY <2>1, LenProperties
    <2>3. \A i \in 1 .. Len(rxq[q]) : rxq[q][i] \in {0}
      BY <2>1
    <2> QED BY <2>2, <2>3
  <1>3. a \in Seq({0})
    <2>1. <<0>> \in Seq({0}) /\ RxQueueSize \in Nat
      BY PairFwdAssumption
    <2> QED BY <1>2, <2>1, ArriveFacts
  <1>4. \A i \in 1 .. Len(a) : a[i] \in {0}
    <2> HIDE DEF a
    <2> QED BY <1>3, ElementOfSeq
  <1>5. a \in Seq(Nat) /\ \A i \in 1 .. Len(a) : a[i] = 0
    <2>1. {0} \subseteq Nat
      OBVIOUS
    <2>2. a \in Seq(Nat)
      <3> HIDE DEF a
      <3> QED BY <1>3, <2>1, SeqMonotonic
    <2> QED BY <1>4, <2>2
  <1> HIDE DEF a
  <1>6. TypeOK'
    BY <1>1, <1>5 DEF IInv, TypeOK
  <1>7. StartupInv' /\ LoopInv' /\ LatencyInv' /\ MbufConservation'
    BY <1>1 DEF IInv, StartupInv, LoopInv, LatencyInv, AverageOfWindow, MbufConservation
  <1>8. StampInv'
    BY <1>1, <1>5 DEF IInv, StampInv, TypeOK
  <1> QED BY <1>6, <1>7, <1>8 DEF IInv

\* The passing of time keeps the invariant.
LEMMA TickStep == ASSUME IInv, Tick PROVE IInv'
  <1>1. /\ UNCHANGED <<program, nb_ports, pc, port, started, pool, bufs, nb_tx, total_cycles,
                       total_queue_cycles, total_pkts, window, report, rxq>>
        /\ tsc' = tsc + 1 /\ Ports' = Ports
    BY DEF Tick, machine, config, latency, Ports
  <1>2. TypeOK'
    BY <1>1 DEF IInv, TypeOK
  <1>3. StartupInv' /\ LoopInv' /\ LatencyInv' /\ MbufConservation'
    BY <1>1 DEF IInv, StartupInv, LoopInv, LatencyInv, AverageOfWindow, MbufConservation
  <1>4. StampInv'
    <2>1. \A i \in 1 .. Len(bufs) : bufs[i] <= tsc + 1
      <3> TAKE i \in 1 .. Len(bufs)
      <3>1. bufs[i] \in Nat
        BY ElementOfSeq DEF IInv, TypeOK
      <3>2. bufs[i] \in Nat /\ bufs[i] <= tsc /\ tsc \in Nat
        BY <3>1 DEF IInv, TypeOK, StampInv
      <3> QED BY <3>2
    <2> QED BY <1>1, <2>1 DEF IInv, StampInv
  <1> QED BY <1>2, <1>3, <1>4 DEF IInv

-----------------------------------------------------------------------------
(* The forwarding loop.                                                    *)

\* What a receive burst hands to the loop.
LEMMA BurstFacts ==
    ASSUME IInv, pc = "rx"
    PROVE  LET n == RxCount(Len(rxq[port]), BurstSize, pool)
               t == RxTaken(Len(rxq[port]), BurstSize, pool)
               b == SubSeq(rxq[port], 1, n)
               r == SubSeq(rxq[port], t + 1, Len(rxq[port]))
           IN  /\ port \in Ports /\ n \in Nat /\ n <= pool /\ n <= BurstSize
               /\ b \in Seq(Nat) /\ Len(b) = n
               /\ r \in Seq(Nat) /\ Len(r) \in Nat
               /\ \A i \in 1 .. n : b[i] = 0
               /\ \A i \in 1 .. Len(r) : r[i] = 0
  <1> DEFINE q == rxq[port]
             n == RxCount(Len(q), BurstSize, pool)
             t == RxTaken(Len(q), BurstSize, pool)
             b == SubSeq(q, 1, n)
             r == SubSeq(q, t + 1, Len(q))
  <1>1. port \in Ports /\ pool \in Nat /\ BurstSize \in Nat
    BY PairFwdAssumption DEF IInv, StartupInv, TypeOK
  <1>2. q \in Seq(Nat)
    BY <1>1 DEF IInv, TypeOK
  <1>3. Len(q) \in Nat /\ \A i \in 1 .. Len(q) : q[i] \in Nat /\ q[i] = 0
    BY <1>1, <1>2, LenProperties, ElementOfSeq DEF IInv, StampInv
  <1> HIDE DEF q
  <1>4. n \in 0 .. Len(q) /\ n <= BurstSize /\ n <= pool /\ t \in n .. Len(q)
    BY <1>1, <1>3, RxCountFacts
  <1> HIDE DEF n, t
  <1>5. b \in Seq(Nat) /\ Len(b) = n /\ \A i \in 1 .. n : b[i] = q[i]
    <2>1. n \in Int /\ 1 \in Int /\ \A i \in 1 .. n : q[i] \in Nat
      BY <1>3, <1>4
    <2>2. /\ SubSeq(q, 1, n) \in Seq(Nat)
          /\ Len(SubSeq(q, 1, n)) = IF 1 <= n THEN n - 1 + 1 ELSE 0
          /\ \A i \in 1 .. n - 1 + 1 : SubSeq(q, 1, n)[i] = q[1 + i - 1]
      BY <2>1, SubSeqProperties
    <2> QED BY <1>3, <1>4, <2>2
  <1>6. r \in Seq(Nat) /\ Len(r) \in Nat /\ \A i \in 1 .. Len(r) : r[i] = 0
    <2>1. t + 1 \in Int /\ Len(q) \in Int /\ \A i \in t + 1 .. Len(q) : q[i] \in Nat
      BY <1>3, <1>4
    <2>2. /\ SubSeq(q, t + 1, Len(q)) \in Seq(Nat)
          /\ Len(SubSeq(q, t + 1, Len(q))) =
               IF t + 1 <= Len(q) THEN Len(q) - (t + 1) + 1 ELSE 0
          /\ \A i \in 1 .. Len(q) - (t + 1) + 1 :
               SubSeq(q, t + 1, Len(q))[i] = q[(t + 1) + i - 1]
      BY <2>1, SubSeqProperties
    <2>3. ASSUME NEW i \in 1 .. Len(r) PROVE r[i] = 0
      <3>1. i \in 1 .. Len(q) - (t + 1) + 1 /\ (t + 1) + i - 1 \in 1 .. Len(q)
        BY <1>3, <1>4, <2>2
      <3> QED BY <1>3, <2>2, <3>1
    <2>4. Len(r) \in Nat
      BY <1>3, <1>4, <2>2
    <2> QED BY <2>2, <2>3, <2>4
  <1>7. \A i \in 1 .. n : b[i] = 0
    <2> HIDE DEF b
    <2>1. \A i \in 1 .. n : i \in 1 .. Len(q)
      BY <1>3, <1>4
    <2> QED BY <1>3, <1>5, <2>1
  <1>8. n \in Nat
    BY <1>4
  <1> HIDE DEF b, r
  <1> QED BY <1>1, <1>4, <1>5, <1>6, <1>7, <1>8 DEF q, n, t, b, r


\* Receiving a burst keeps the invariant; its stamps are those of now.
LEMMA RxBurstStep == ASSUME IInv, RxBurst PROVE IInv'
  <1> DEFINE n == RxCount(Len(rxq[port]), BurstSize, pool)
             t == RxTaken(Len(rxq[port]), BurstSize, pool)
             b == SubSeq(rxq[port], 1, n)
             r == SubSeq(rxq[port], t + 1, Len(rxq[port]))
  <1>1. /\ pc = "rx" /\ rxq' = [rxq EXCEPT ![port] = r] /\ pool' = pool - n
        /\ bufs' = IF program = "rxtx_callbacks" THEN AddTimestamps(b) ELSE b
        /\ IF n = 0 THEN port' = AfterEmpty(port) /\ UNCHANGED pc
                    ELSE pc' = "tx" /\ UNCHANGED port
        /\ UNCHANGED <<program, nb_ports, started, nb_tx, total_cycles, total_queue_cycles,
                       total_pkts, window, report, tsc>>
        /\ Ports' = Ports
    BY DEF RxBurst, machine, config, latency, Ports
  <1>2. /\ port \in Ports /\ n \in Nat /\ n <= pool /\ n <= BurstSize
        /\ b \in Seq(Nat) /\ Len(b) = n
        /\ r \in Seq(Nat) /\ Len(r) \in Nat
        /\ \A i \in 1 .. n : b[i] = 0
        /\ \A i \in 1 .. Len(r) : r[i] = 0
    BY <1>1, BurstFacts
  <1> HIDE DEF n, b, r
  <1>3. /\ nb_ports \in Nat /\ nb_ports >= 2 /\ nb_ports % 2 = 0 /\ started = Ports
        /\ port \in Nat /\ pool \in Nat /\ tsc \in Nat /\ BurstSize \in Nat
    BY <1>1, PairFwdAssumption DEF IInv, TypeOK, StartupInv
  <1>4. AddTimestamps(b) \in Seq(Nat) /\ Len(AddTimestamps(b)) = n
        /\ \A i \in 1 .. n : AddTimestamps(b)[i] = tsc
    <2> DEFINE a == [i \in 1 .. n |-> tsc]
    <2>1. AddTimestamps(b) = a
      BY <1>2 DEF AddTimestamps
    <2>2. a \in Seq(Nat) /\ Len(a) = n /\ \A i \in 1 .. n : a[i] = tsc
      BY <1>2, <1>3
    <2> HIDE DEF a
    <2> QED BY <2>1, <2>2
  <1>5. bufs' \in Seq(Nat) /\ Len(bufs') = n /\ \A i \in 1 .. n : bufs'[i] <= tsc
    <2>1. CASE program = "rxtx_callbacks"
      BY <1>1, <1>3, <1>4, <2>1
    <2>2. CASE program # "rxtx_callbacks"
      BY <1>1, <1>2, <1>3, <2>2
    <2> QED BY <2>1, <2>2
  <1>6. /\ port' \in Nat /\ port' \in Ports
        /\ pc' \in {"rx", "tx"} /\ (pc' = "rx" <=> n = 0)
    <2>1. CASE n = 0
      <3>1. port' = (port + 1) % nb_ports
        BY <1>1, <2>1 DEF AfterEmpty
      <3>2. port + 1 \in Nat /\ nb_ports >= 1
        BY <1>3
      <3>3. port' \in 0 .. nb_ports - 1
        BY <1>3, <3>1, <3>2, NextIsPort
      <3>4. port' \in Nat
        BY <1>3, <3>3
      <3> QED BY <1>1, <2>1, <3>3, <3>4 DEF Ports
    <2>2. CASE n # 0
      BY <1>1, <1>2, <1>3, <2>2
    <2> QED BY <2>1, <2>2
  <1>7. pool' \in Nat
    BY <1>1, <1>2, <1>3
  <1>8. TypeOK'
    <2>1. rxq' \in [Ports -> Seq(Nat)]
      BY <1>1, <1>2 DEF IInv, TypeOK
    <2> QED BY <1>1, <1>5, <1>6, <1>7, <2>1 DEF IInv, TypeOK
  <1>9. StartupInv'
    BY <1>1, <1>3, <1>6 DEF StartupInv
  <1>10. LoopInv'
    <2>1. nb_tx' = 0
      BY <1>1 DEF IInv, LoopInv
    <2>2. pc' = "rx" => bufs' = <<>>
      BY <1>5, <1>6, EmptySeq
    <2>3. pc' = "tx" => bufs' # <<>>
      BY <1>5, <1>6, EmptySeq
    <2> QED BY <1>2, <1>5, <1>6, <2>1, <2>2, <2>3 DEF LoopInv
  <1>11. StampInv'
    <2>1. \A i \in 1 .. Len(bufs') : bufs'[i] <= tsc'
      BY <1>1, <1>5
    <2>2. \A p \in Ports' : \A i \in 1 .. Len(rxq'[p]) : rxq'[p][i] = 0
      BY <1>1, <1>2 DEF IInv, StampInv, TypeOK
    <2> QED BY <2>1, <2>2 DEF StampInv
  <1>12. LatencyInv'
    BY <1>1 DEF IInv, LatencyInv, AverageOfWindow
  <1>13. MbufConservation'
    <2>1. bufs = <<>> /\ nb_tx = 0 /\ Len(<<>>) = 0
      BY <1>1, EmptySeq DEF IInv, LoopInv
    <2>2. pool = MbufsPerPort * nb_ports
      BY <1>1, <1>3, <2>1 DEF IInv, MbufConservation
    <2>3. pool' = pool - n /\ Len(bufs') = n /\ nb_tx' = 0
      BY <1>1, <1>5, <2>1
    <2>4. n \in Nat /\ pool \in Nat
      BY <1>2, <1>3
    <2>5. pool' + Len(bufs') - nb_tx' = pool
      BY <2>3, <2>4
    <2> QED BY <1>1, <2>2, <2>5 DEF MbufConservation
  <1> QED BY <1>8, <1>9, <1>10, <1>11, <1>12, <1>13 DEF IInv

\* The average of calc_latency() is that of the packets since the last report.
LEMMA LatencyFacts ==
    ASSUME IInv, CalcLatency(bufs), UNCHANGED tsc, pc = "tx"
    PROVE  LatencyInv' /\ total_cycles' \in Nat /\ total_pkts' \in Nat /\ window' \in Seq(Nat)
  <1> DEFINE each == [i \in 1 .. Len(bufs) |-> tsc - bufs[i]]
             cycles == total_cycles + SumFunction(each)
             pkts == total_pkts + Len(bufs)
  <1>1. /\ bufs \in Seq(Nat) /\ Len(bufs) \in Nat /\ Len(bufs) <= BurstSize
        /\ tsc \in Nat /\ BurstSize \in Nat /\ ReportAfter \in Nat
        /\ total_cycles \in Nat /\ total_pkts \in Nat /\ window \in Seq(Nat)
        /\ Len(window) \in Nat /\ Len(bufs) # 0
    BY LenProperties, EmptySeq, PairFwdAssumption DEF IInv, TypeOK, LoopInv
  <1>2. /\ total_pkts <= ReportAfter /\ total_pkts = Len(window)
        /\ total_cycles = SumFunction(window)
    BY DEF IInv, LatencyInv, AverageOfWindow
  <1>3. \A i \in 1 .. Len(bufs) : tsc - bufs[i] \in Nat
    <2> TAKE i \in 1 .. Len(bufs)
    <2>1. bufs[i] \in Nat
      BY <1>1, ElementOfSeq
    <2>2. bufs[i] \in Nat /\ bufs[i] <= tsc
      BY <2>1 DEF IInv, StampInv
    <2> QED BY <1>1, <2>2
  <1>4. each \in Seq(Nat) /\ Len(each) = Len(bufs)
    BY <1>1, <1>3
  <1>5. SumFunction(each) \in Nat
    <2>1. DOMAIN each = 1 .. Len(bufs) /\ \A i \in 1 .. Len(bufs) : each[i] \in Nat
      BY <1>3
    <2>2. IsFiniteSet(1 .. Len(bufs))
      BY <1>1, FS_Interval
    <2> HIDE DEF each
    <2> QED BY <2>1, <2>2, SumNat DEF SumFunction
  <1>6. /\ IF pkts > ReportAfter
           THEN /\ report' = [avg |-> cycles \div pkts, of |-> window \o each]
                /\ total_cycles' = 0 /\ total_queue_cycles' = 0 /\ total_pkts' = 0
                /\ window' = <<>>
           ELSE /\ total_cycles' = cycles /\ total_pkts' = pkts
                /\ window' = window \o each
                /\ UNCHANGED report
    BY DEF CalcLatency, CyclesAfterReport
  <1> HIDE DEF each
  <1>7. /\ window \o each \in Seq(Nat)
        /\ Len(window \o each) = Len(window) + Len(each)
        /\ SumFunction(window \o each) = SumFunction(window) + SumFunction(each)
    <2>1. window \in Seq(Int) /\ each \in Seq(Int)
      BY <1>1, <1>4, SeqMonotonic
    <2> QED BY <1>1, <1>4, <2>1, ConcatProperties, SumConcat
  <1>8. /\ cycles \in Nat /\ cycles = SumFunction(window \o each)
        /\ pkts \in Nat /\ pkts = Len(window \o each)
    BY <1>1, <1>2, <1>4, <1>5, <1>7
  <1>9. pkts <= ReportAfter + BurstSize
    BY <1>1, <1>2
  <1> HIDE DEF cycles, pkts
  <1>10. CASE pkts > ReportAfter
    <2>1. /\ report' = [avg |-> cycles \div pkts, of |-> window \o each]
          /\ total_cycles' = 0 /\ total_queue_cycles' = 0 /\ total_pkts' = 0
          /\ window' = <<>>
      BY <1>6, <1>10
    <2>2. Len(<<>>) = 0 /\ SumFunction(<<>>) = 0 /\ <<>> \in Seq(Nat)
      <3>1. DOMAIN <<>> = {}
        OBVIOUS
      <3> QED BY <3>1, EmptySeq, SumEmpty DEF SumFunction
    <2>3. /\ report'.avg = SumFunction(report'.of) \div Len(report'.of)
          /\ Len(report'.of) = pkts
      BY <1>8, <2>1
    <2>4. Len(report'.of) \in ReportAfter + 1 .. ReportAfter + BurstSize
      BY <1>1, <1>8, <1>9, <1>10, <2>3
    <2>5. total_pkts' <= ReportAfter /\ total_cycles' \in Nat /\ total_pkts' \in Nat
      BY <1>1, <2>1
    <2> QED BY <2>1, <2>2, <2>3, <2>4, <2>5 DEF LatencyInv, AverageOfWindow
  <1>11. CASE ~(pkts > ReportAfter)
    <2>1. /\ total_cycles' = cycles /\ total_pkts' = pkts
          /\ window' = window \o each /\ report' = report
      BY <1>6, <1>11
    <2>2. total_pkts' <= ReportAfter
      BY <1>1, <1>8, <1>11, <2>1
    <2>3. window' # <<>>
      BY <1>1, <1>4, <1>7, <2>1, EmptySeq
    <2> QED BY <1>7, <1>8, <2>1, <2>2, <2>3 DEF IInv, LatencyInv, AverageOfWindow
  <1> QED BY <1>10, <1>11

\* Sending keeps the invariant: the callback sees the whole burst, the driver
\* frees what it sends.
LEMMA TxBurstStep == ASSUME IInv, TxBurst PROVE IInv'
  <1>1. /\ pc = "tx" /\ pc' = "free"
        /\ UNCHANGED <<program, nb_ports, port, started, bufs, rxq, tsc>> /\ Ports' = Ports
        /\ IF program = "rxtx_callbacks" THEN CalcLatency(bufs) ELSE UNCHANGED latency
    BY DEF TxBurst, machine, config, wires, Ports
  <1>2. PICK n \in 0 .. Len(bufs) : nb_tx' = n /\ pool' = pool + n
    BY DEF TxBurst
  <1>3. /\ bufs \in Seq(Nat) /\ Len(bufs) \in Nat /\ pool \in Nat /\ nb_tx = 0
        /\ Len(bufs) <= BurstSize
    BY <1>1, LenProperties DEF IInv, TypeOK, LoopInv
  <1>4. LatencyInv' /\ total_cycles' \in Nat /\ total_pkts' \in Nat /\ window' \in Seq(Nat)
    <2>1. CASE CalcLatency(bufs)
      BY <1>1, <2>1, LatencyFacts
    <2>2. CASE UNCHANGED latency
      BY <2>2 DEF latency, IInv, TypeOK, LatencyInv, AverageOfWindow
    <2> QED BY <1>1, <2>1, <2>2
  <1>5. n \in Nat /\ n <= Len(bufs) /\ pool' \in Nat
    BY <1>2, <1>3
  <1>6. TypeOK'
    BY <1>1, <1>2, <1>4, <1>5 DEF IInv, TypeOK
  <1>7. StartupInv' /\ StampInv'
    BY <1>1 DEF IInv, StartupInv, StampInv
  <1>8. LoopInv'
    BY <1>1, <1>2, <1>3, <1>5 DEF LoopInv
  <1>9. MbufConservation'
    <2>1. pool + Len(bufs) - nb_tx = MbufsPerPort * nb_ports
      BY <1>1 DEF IInv, MbufConservation
    <2>2. pool' + Len(bufs') - nb_tx' = pool + Len(bufs) - nb_tx
      BY <1>1, <1>2, <1>3, <1>5
    <2> QED BY <1>1, <2>1, <2>2 DEF MbufConservation
  <1> QED BY <1>4, <1>6, <1>7, <1>8, <1>9 DEF IInv

\* Freeing the rest of a burst keeps the invariant.
LEMMA FreeUnsentStep == ASSUME IInv, FreeUnsent PROVE IInv'
  <1>1. /\ pc = "free" /\ pc' = "rx"
        /\ pool' = pool + Cardinality(nb_tx + 1 .. Len(bufs))
        /\ bufs' = <<>> /\ nb_tx' = 0 /\ port' = (port + 1) % nb_ports
        /\ UNCHANGED <<program, nb_ports, started, total_cycles, total_queue_cycles, total_pkts,
                       window, report, rxq, tsc>> /\ Ports' = Ports
    BY DEF FreeUnsent, FirstUnsent, machine, config, latency, wires, Ports
  <1>2. /\ nb_ports \in Nat /\ nb_ports >= 2 /\ nb_ports % 2 = 0 /\ started = Ports
        /\ port \in Nat /\ pool \in Nat /\ Len(bufs) \in Nat /\ nb_tx \in Nat
        /\ nb_tx <= Len(bufs) /\ BurstSize \in Nat
    BY <1>1, LenProperties, PairFwdAssumption DEF IInv, TypeOK, StartupInv, LoopInv
  <1>3. pool' = pool + (Len(bufs) - nb_tx)
    <2>1. nb_tx + 1 \in Int /\ Len(bufs) \in Int
      BY <1>2
    <2>2. Cardinality(nb_tx + 1 .. Len(bufs)) =
            IF nb_tx + 1 > Len(bufs) THEN 0 ELSE Len(bufs) - (nb_tx + 1) + 1
      BY <2>1, FS_Interval
    <2> QED BY <1>1, <1>2, <2>2
  <1>4. port' \in Nat /\ port' \in Ports
    <2>1. port + 1 \in Nat /\ nb_ports >= 1
      BY <1>2
    <2>2. port' \in 0 .. nb_ports - 1
      BY <1>1, <1>2, <2>1, NextIsPort
    <2> QED BY <1>2, <2>2 DEF Ports
  <1>5. pool' \in Nat
    BY <1>2, <1>3
  <1>6. <<>> \in Seq(Nat) /\ Len(<<>>) = 0
    BY EmptySeq
  <1>7. TypeOK'
    BY <1>1, <1>4, <1>5, <1>6 DEF IInv, TypeOK
  <1>8. StartupInv'
    BY <1>1, <1>2, <1>4 DEF StartupInv
  <1>9. LoopInv'
    BY <1>1, <1>2, <1>6 DEF LoopInv
  <1>10. StampInv' /\ LatencyInv'
    BY <1>1, <1>6 DEF IInv, StampInv, LatencyInv, AverageOfWindow
  <1>11. MbufConservation'
    <2>1. pool + Len(bufs) - nb_tx = MbufsPerPort * nb_ports
      BY <1>1 DEF IInv, MbufConservation
    <2>2. pool' + Len(bufs') - nb_tx' = pool + Len(bufs) - nb_tx
      BY <1>1, <1>2, <1>3, <1>6
    <2> QED BY <1>1, <2>1, <2>2 DEF MbufConservation
  <1> QED BY <1>7, <1>8, <1>9, <1>10, <1>11 DEF IInv

-----------------------------------------------------------------------------
\* Every step keeps the invariant.
LEMMA NextInv == ASSUME IInv, [Next]_vars PROVE IInv'
  <1>1. CASE UNCHANGED vars
    BY <1>1 DEF vars, machine, config, latency, wires, Ports, IInv, TypeOK, StartupInv, LoopInv,
                StampInv, LatencyInv, AverageOfWindow, MbufConservation
  <1> QED BY <1>1, ParseOptionStep, CreatePoolStep, InitPortStep, InitDoneStep, InjectStep,
             TickStep, RxBurstStep, TxBurstStep, FreeUnsentStep
          DEF Next, Startup, LcoreMain

\* IInv is an invariant of both programs.
THEOREM Invariance == Spec => []IInv
  BY InitInv, NextInv, PTL DEF Spec

\* Type correctness.
THEOREM Typing == Spec => []TypeOK
  <1>1. IInv => TypeOK
    BY DEF IInv
  <1> QED BY <1>1, Invariance, PTL

\* Every mbuf is free or in hand, however much of a burst the driver sends.
THEOREM MbufsConserved == Spec => []MbufConservation
  <1>1. IInv => MbufConservation
    BY DEF IInv
  <1> QED BY <1>1, Invariance, PTL

\* The peer port ^ 1 of every port that is polled exists and was started.
THEOREM PeersStarted == Spec => []PeerStarted
  <1>1. IInv => PeerStarted
    <2> SUFFICES ASSUME IInv, pc \in {"rx", "tx"} PROVE {port, TxPort} \subseteq started
      BY DEF PeerStarted
    <2>1. nb_ports \in Nat /\ nb_ports % 2 = 0 /\ port \in 0 .. nb_ports - 1
          /\ started = 0 .. nb_ports - 1
      BY DEF IInv, StartupInv, TypeOK, Ports
    <2>2. TxPort \in 0 .. nb_ports - 1
      BY <2>1, PeerIsPort DEF TxPort
    <2> QED BY <2>1, <2>2
  <1> QED BY <1>1, Invariance, PTL

\* A printed average is that of the packets counted since the last report, each
\* once, for any threshold and any burst size.
THEOREM AveragesWindow == Spec => []AverageOfWindow
  <1>1. IInv => AverageOfWindow
    BY DEF IInv, LatencyInv
  <1> QED BY <1>1, Invariance, PTL

\* No latency is negative: a packet is sent after the burst that it was
\* received in was stamped.
NoNegativeLatency == \A i \in 1 .. Len(bufs) : bufs[i] <= tsc

\* The unsigned difference of calc_latency() never wraps around.
THEOREM LatenciesPositive == Spec => []NoNegativeLatency
  <1>1. IInv => NoNegativeLatency
    BY DEF IInv, StampInv, NoNegativeLatency
  <1> QED BY <1>1, Invariance, PTL
=============================================================================
