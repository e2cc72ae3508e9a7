---------------------------- MODULE L2fwdProofs ----------------------------
(***************************************************************************)
(* Proofs about the run-to-completion forwarder (L2fwd), for all sets of   *)
(* lcores and of ports, all layouts of the ports over the lcores and all   *)
(* sizes. The inductive invariant IInv ties each frame to where it is:     *)
(* what waits in a receive queue or a burst is either untouched or         *)
(* encrypted once, what is in a transmit buffer or on the wire is          *)
(* encrypted once and was addressed to the peer. It ties each lcore's      *)
(* place in its loop to its port list, and the state of main() to the      *)
(* loops. The last part proves the refinement of LossyFifo: for each       *)
(* action, what it does to the numbers of the unmarked frames under way    *)
(* in each direction is a step of the channel.                             *)
(***************************************************************************)
EXTENDS L2fwd, DataLemmas

\* The frames of the model.
Frame ==
    [id : Nat, at : Ports, enc : 0 .. 2, marked : BOOLEAN,
     body : {"plain", "cipher", "empty"}, mac : Ports \cup {Outside}]

\* What a port may receive: a frame of its own that is still untouched, or one
\* the forwarder has encrypted.
Waiting(p) ==
    {f \in Frame : \/ f.marked /\ f.enc = 1
                   \/ ~f.marked /\ f.enc = 0 /\ f.at = p}

\* What may leave through a port: a frame of its peer, encrypted once, whose
\* payload the null length of the cipher has emptied.
Leaving(q) ==
    {f \in Frame : f.marked /\ f.enc = 1 /\ f.at = Dst[q] /\ f.body = "empty"}

\* The port a lcore is at.
Polled(l) == rx_port_list[l][cur[l]]

\* What the variables range over.
TypeOK ==
    /\ rx_port_list \in Layouts
    /\ force_quit \in BOOLEAN
    /\ pc \in [Lcores -> {"launched", "top", "rx", "packet", "drain", "done"}]
    /\ cur \in [Lcores -> Nat]
    /\ burst \in [Lcores -> Seq(Frame)]
    /\ tx_buffer \in [Ports -> Seq(Frame)]
    /\ pool \in Nat
    /\ rx \in [Ports -> Nat] /\ tx \in [Ports -> Nat]
    /\ dropped \in [Ports -> Nat] /\ decrypted \in [Ports -> Nat]
    /\ rxq \in [Ports -> Seq(Frame)]
    /\ sent \in [Ports -> Seq(Frame)]
    /\ nframes \in Nat
    /\ main \in {"link", "loop", "close", "exit"}
    /\ count \in Nat /\ print_flag \in BOOLEAN
    /\ open \in SUBSET Ports

\* Every queue, buffer and burst holds frames of its kind.
FrameInv ==
    /\ \A p \in Ports : /\ rxq[p] \in Seq(Waiting(p))
                        /\ tx_buffer[p] \in Seq(Leaving(p))
                        /\ sent[p] \in Seq(Leaving(p))
    /\ \A l \in Lcores : pc[l] = "packet" => burst[l] \in Seq(Waiting(Polled(l)))

\* Where a lcore is in its port list, and when it has a burst.
ThreadInv ==
    \A l \in Lcores :
        /\ pc[l] = "launched" => cur[l] = 1
        /\ pc[l] \notin {"launched", "done"} => cur[l] \in 1 .. Len(rx_port_list[l])
        /\ pc[l] = "packet" <=> burst[l] # <<>>

\* main() touches the links while all ports are open, and closes them when no
\* lcore runs.
MainInv ==
    /\ main \in {"link", "loop"} => open = Ports
    /\ main \in {"close", "exit"} => \A l \in Lcores : pc[l] = "done"

\* The inductive invariant.
IInv ==
    /\ TypeOK /\ FrameInv /\ ThreadInv /\ MainInv
    /\ MbufConservation /\ StatsBalance

-----------------------------------------------------------------------------
\* A layout gives each lcore a list of ports.
LEMMA LayoutType == ASSUME TypeOK PROVE rx_port_list \in [Lcores -> Seq(Ports)]
  BY ConfigAssumption DEF TypeOK

\* A lcore in its loop is at a port, and the ports are paired.
LEMMA PolledType ==
    ASSUME TypeOK, ThreadInv, NEW l \in Lcores, pc[l] \notin {"launched", "done"}
    PROVE  Polled(l) \in Ports /\ Dst[Polled(l)] \in Ports
                /\ Dst[Dst[Polled(l)]] = Polled(l)
  <1>1. rx_port_list[l] \in Seq(Ports) /\ cur[l] \in 1 .. Len(rx_port_list[l])
    BY LayoutType DEF ThreadInv
  <1>2. Polled(l) \in Ports
    BY <1>1, ElementOfSeq DEF Polled
  <1> QED BY <1>2, ConfigAssumption

\* A frame that leaves may be received again by any port.
LEMMA LeavingIsWaiting ==
    ASSUME NEW p, NEW q, NEW s \in Seq(Leaving(q))
    PROVE  s \in Seq(Waiting(p))
  <1>1. Leaving(q) \subseteq Waiting(p)
    BY DEF Leaving, Waiting
  <1> QED BY <1>1, SeqMonotonic

\* Frames of either kind are frames.
LEMMA FramesAreFrames ==
    ASSUME NEW p
    PROVE  Seq(Leaving(p)) \subseteq Seq(Frame) /\ Seq(Waiting(p)) \subseteq Seq(Frame)
  <1>1. Leaving(p) \subseteq Frame /\ Waiting(p) \subseteq Frame
    BY DEF Leaving, Waiting
  <1> QED BY <1>1, SeqMonotonic

\* Encrypting a frame that waits and rewriting its addresses makes it one that
\* leaves.
LEMMA RewriteFacts ==
    ASSUME NEW p \in Ports, NEW q \in Ports, Dst[q] = p, NEW f \in Waiting(p), ~f.marked,
           NEW ctx
    PROVE  Rewrite(RealEncrypt(f, ctx), q) \in Leaving(q)
  <1>0. EncryptOut(CtxReset(ctx), f.body) = "empty"
    BY DEF EncryptOut, CtxReset
  <1>1. f \in Frame /\ f.enc = 0 /\ f.at = p
    BY DEF Waiting
  <1> DEFINE r1 == [f EXCEPT !.body = "empty"]
             r2 == [r1 EXCEPT !.marked = TRUE]
             e  == IF f.enc = 2 THEN 2 ELSE f.enc + 1
             r3 == [r2 EXCEPT !.enc = e]
  <1>2. r1 \in Frame /\ r1.enc = 0 /\ r1.at = p /\ r1.body = "empty"
    BY <1>1 DEF Frame
  <1>3. r2 \in Frame /\ r2.enc = 0 /\ r2.at = p /\ r2.body = "empty" /\ r2.marked
    <2> HIDE DEF r1
    <2> QED BY <1>2 DEF Frame
  <1>4. r3 \in Frame /\ r3.enc = 1 /\ r3.at = p /\ r3.body = "empty" /\ r3.marked
    <2>1. e = 1
      BY <1>1
    <2> HIDE DEF r2, e
    <2> QED BY <1>3, <2>1 DEF Frame
  <1>5. RealEncrypt(f, ctx) = r3
    BY <1>0, Zenon DEF RealEncrypt
  <1> HIDE DEF r3
  <1>6. ASSUME NEW m \in Ports \cup {Outside}
        PROVE  [[r3 EXCEPT !.mac = m] EXCEPT !.marked = TRUE] \in Leaving(q)
    <2> DEFINE r4 == [r3 EXCEPT !.mac = m]
               r5 == [r4 EXCEPT !.marked = TRUE]
    <2>1. r4 \in Frame /\ r4.enc = 1 /\ r4.at = p /\ r4.body = "empty" /\ r4.marked
      BY <1>4 DEF Frame
    <2>2. r5 \in Frame /\ r5.enc = 1 /\ r5.at = p /\ r5.body = "empty" /\ r5.marked
      <3> HIDE DEF r4
      <3> QED BY <2>1 DEF Frame
    <2> QED
      <3> HIDE DEF r5
      <3>1. r5 \in Leaving(q)
        BY <2>2 DEF Leaving
      <3> QED BY <3>1 DEF r5
  <1>7. r3.mac \in Ports \cup {Outside}
    BY <1>4 DEF Frame
  <1>8. CASE MacUpdating
    BY <1>5, <1>6, <1>8, Zenon DEF Rewrite
  <1>9. CASE ~MacUpdating
    BY <1>5, <1>6, <1>7, <1>9, Zenon DEF Rewrite
  <1> QED BY <1>8, <1>9

\* A transmit burst of n of the frames, the others dropped: what goes onto the
\* wire, what is counted and what returns to the pool.
LEMMA FlushFacts ==
    ASSUME TypeOK, FrameInv, NEW q \in Ports, NEW fs \in Seq(Leaving(q)),
           NEW n \in 0 .. Len(fs), Flush(q, fs, n)
    PROVE  /\ sent' \in [Ports -> Seq(Frame)] /\ rxq' \in [Ports -> Seq(Frame)]
           /\ tx_buffer' \in [Ports -> Seq(Frame)]
           /\ tx' \in [Ports -> Nat] /\ dropped' \in [Ports -> Nat]
           /\ pool' \in Nat /\ pool' = pool + Len(fs)
           /\ tx_buffer' = [tx_buffer EXCEPT ![q] = <<>>]
           /\ \A p \in Ports : /\ rxq'[p] \in Seq(Waiting(p))
                               /\ tx_buffer'[p] \in Seq(Leaving(p))
                               /\ sent'[p] \in Seq(Leaving(p))
                               /\ p # q => tx'[p] = tx[p] /\ dropped'[p] = dropped[p]
           /\ tx'[q] + dropped'[q] = tx[q] + dropped[q] + Len(fs)
  <1> DEFINE out == Taken(fs, n)
  <1>0. Len(fs) \in Nat /\ n \in Nat /\ Len(fs) - n \in Nat
    BY LenProperties
  <1>1. out \in Seq(Leaving(q))
    BY TakenFacts
  <1>2. \A p \in Ports : sent'[p] \in Seq(Leaving(p))
    <2>1. sent[q] \o out \in Seq(Leaving(q))
      BY <1>1, ConcatProperties DEF FrameInv
    <2>2. sent' = [sent EXCEPT ![q] = sent[q] \o out]
      BY DEF Flush
    <2> HIDE DEF out
    <2> QED BY <2>1, <2>2 DEF TypeOK, FrameInv
  <1>3. \A p \in Ports : rxq'[p] \in Seq(Waiting(p))
    <2>1. CASE Peer[q] \in Ports
      <3>1. out \in Seq(Waiting(Peer[q]))
        BY <1>1, LeavingIsWaiting
      <3>2. Arrive(rxq[Peer[q]], out, RxQueueSize) \in Seq(Waiting(Peer[q]))
        BY <2>1, <3>1, ArriveFacts, SizeAssumption DEF FrameInv
      <3>3. rxq' = [rxq EXCEPT ![Peer[q]] = Arrive(rxq[Peer[q]], out, RxQueueSize)]
        BY <2>1 DEF Flush
      <3> HIDE DEF out
      <3> QED BY <3>2, <3>3 DEF TypeOK, FrameInv
    <2>2. CASE Peer[q] \notin Ports
      BY <2>2 DEF Flush, FrameInv
    <2> QED BY <2>1, <2>2
  <1>4. \A p \in Ports : tx_buffer'[p] \in Seq(Leaving(p))
    BY EmptySeq DEF Flush, FrameInv, TypeOK
  <1>5. DOMAIN sent' = Ports /\ DOMAIN rxq' = Ports
          /\ sent' = [p \in Ports |-> sent'[p]] /\ rxq' = [p \in Ports |-> rxq'[p]]
    BY DEF Flush, TypeOK
  <1>6. sent' \in [Ports -> Seq(Frame)] /\ rxq' \in [Ports -> Seq(Frame)]
    <2>1. \A p \in Ports : sent'[p] \in Seq(Frame) /\ rxq'[p] \in Seq(Frame)
      BY <1>2, <1>3, FramesAreFrames
    <2> QED BY <1>5, <2>1
  <1>7. tx_buffer' \in [Ports -> Seq(Frame)]
    BY EmptySeq DEF Flush, TypeOK
  <1>8. /\ tx' \in [Ports -> Nat] /\ dropped' \in [Ports -> Nat]
        /\ \A p \in Ports : p # q => tx'[p] = tx[p] /\ dropped'[p] = dropped[p]
        /\ tx'[q] + dropped'[q] = tx[q] + dropped[q] + Len(fs)
    <2>1. tx' = [tx EXCEPT ![q] = tx[q] + n]
      BY DEF Flush
    <2>2. dropped' = [dropped EXCEPT ![q] = dropped[q] + (Len(fs) - n)]
      BY DEF Flush, CountedUnsent
    <2>3. tx[q] + n \in Nat /\ dropped[q] + (Len(fs) - n) \in Nat
      BY <1>0 DEF TypeOK
    <2>4. tx'[q] = tx[q] + n /\ dropped'[q] = dropped[q] + (Len(fs) - n)
      BY <2>1, <2>2 DEF TypeOK
    <2>5. tx' \in [Ports -> Nat] /\ dropped' \in [Ports -> Nat]
      BY <2>1, <2>2, <2>3 DEF TypeOK
    <2>6. \A p \in Ports : p # q => tx'[p] = tx[p] /\ dropped'[p] = dropped[p]
      BY <2>1, <2>2 DEF TypeOK
    <2>7. tx[q] \in Nat /\ dropped[q] \in Nat
      BY DEF TypeOK
    <2>8. tx'[q] + dropped'[q] = tx[q] + dropped[q] + Len(fs)
      BY <1>0, <2>4, <2>7
    <2> QED BY <2>5, <2>6, <2>8
  <1>9. pool' = pool + Len(fs) /\ pool' \in Nat /\ tx_buffer' = [tx_buffer EXCEPT ![q] = <<>>]
    BY <1>0 DEF Flush, TypeOK
  <1> QED BY <1>2, <1>3, <1>4, <1>6, <1>7, <1>8, <1>9

-----------------------------------------------------------------------------
(* Counting mbufs and frames.                                              *)

\* A burst that is not empty has one frame or more than one.
LEMMA OneOrMore == ASSUME NEW x \in Nat, x # 0 PROVE x = 1 \/ (x > 1 /\ x # 1)
  OBVIOUS

\* The last frame of a burst is not one of several.
LEMMA OneIsNotMore == ASSUME NEW x \in Nat, x > 1 PROVE x # 1
  OBVIOUS

\* The mbufs each lcore has in its burst.
InBursts == [l \in Lcores |-> Len(burst[l])]

\* The mbufs each transmit buffer holds.
InBuffers == [p \in Ports |-> Len(tx_buffer[p])]

\* The frames of port p in the burst of each lcore.
Handled(p) ==
    [l \in Lcores |->
        IF pc[l] = "packet" /\ rx_port_list[l][cur[l]] = p THEN Len(burst[l]) ELSE 0]

\* These are counts, and so are their sums.
LEMMA CountTypes ==
    ASSUME TypeOK
    PROVE  /\ InBursts \in [Lcores -> Int] /\ InBuffers \in [Ports -> Int]
           /\ \A p : Handled(p) \in [Lcores -> Int]
           /\ SumFunction(InBursts) \in Int /\ SumFunction(InBuffers) \in Int
           /\ \A p : Pending(p) \in Int
  <1>1. /\ \A l \in Lcores : Len(burst[l]) \in Int
        /\ \A p \in Ports : Len(tx_buffer[p]) \in Int
    BY LenProperties DEF TypeOK
  <1>2. InBursts \in [Lcores -> Int] /\ InBuffers \in [Ports -> Int]
    BY <1>1 DEF InBursts, InBuffers
  <1>3. \A p : Handled(p) \in [Lcores -> Int]
    BY <1>1 DEF Handled
  <1>4. SumFunction(InBursts) \in Int /\ SumFunction(InBuffers) \in Int
    BY <1>2, SumInt, LcoreAssumption
  <1>5. \A p : SumFunction(Handled(p)) \in Int
    BY <1>3, SumInt, LcoreAssumption
  <1> QED BY <1>2, <1>3, <1>4, <1>5 DEF Pending, Handled

\* When one lcore's burst changes, their sum changes by as much.
LEMMA BurstChange ==
    ASSUME TypeOK, TypeOK', NEW l \in Lcores,
           \A k \in Lcores : k # l => burst'[k] = burst[k]
    PROVE  SumFunction(InBursts') =
             SumFunction(InBursts) + (Len(burst'[l]) - Len(burst[l]))
  <1>1. InBursts \in [Lcores -> Int] /\ InBursts' \in [Lcores -> Int]
    <2>1. \A k \in Lcores : Len(burst[k]) \in Int /\ Len(burst'[k]) \in Int
      BY LenProperties DEF TypeOK
    <2> QED BY <2>1 DEF InBursts
  <1>2. \A k \in Lcores : k # l => InBursts'[k] = InBursts[k]
    BY DEF InBursts
  <1>3. SumFunction(InBursts') = SumFunction(InBursts) + (InBursts'[l] - InBursts[l])
    <2>1. IsFiniteSet(Lcores)
      BY LcoreAssumption
    <2> QED BY <1>1, <1>2, <2>1, SumChange
  <1> QED BY <1>3 DEF InBursts

\* When one transmit buffer changes, their sum changes by as much.
LEMMA BufferChange ==
    ASSUME TypeOK, TypeOK', NEW q \in Ports,
           \A p \in Ports : p # q => tx_buffer'[p] = tx_buffer[p]
    PROVE  SumFunction(InBuffers') =
             SumFunction(InBuffers) + (Len(tx_buffer'[q]) - Len(tx_buffer[q]))
  <1>1. InBuffers \in [Ports -> Int] /\ InBuffers' \in [Ports -> Int]
    <2>1. \A p \in Ports : Len(tx_buffer[p]) \in Int /\ Len(tx_buffer'[p]) \in Int
      BY LenProperties DEF TypeOK
    <2> QED BY <2>1 DEF InBuffers
  <1>2. \A p \in Ports : p # q => InBuffers'[p] = InBuffers[p]
    BY DEF InBuffers
  <1>3. SumFunction(InBuffers') = SumFunction(InBuffers) + (InBuffers'[q] - InBuffers[q])
    <2>1. IsFiniteSet(Ports)
      BY LcoreAssumption
    <2> QED BY <1>1, <1>2, <2>1, SumChange
  <1> QED BY <1>3 DEF InBuffers

\* When one lcore moves, what is under way for a port changes by that lcore's
\* share.
LEMMA PendingChange ==
    ASSUME TypeOK, TypeOK', UNCHANGED rx_port_list, NEW l \in Lcores,
           \A k \in Lcores : k # l => /\ burst'[k] = burst[k]
                                      /\ pc'[k] = pc[k] /\ cur'[k] = cur[k],
           NEW p
    PROVE  Pending(p)' = Pending(p) + (Handled(p)'[l] - Handled(p)[l])
  <1>1. Handled(p) \in [Lcores -> Int] /\ Handled(p)' \in [Lcores -> Int]
    <2>1. \A k \in Lcores : Len(burst[k]) \in Int /\ Len(burst'[k]) \in Int
      BY LenProperties DEF TypeOK
    <2> QED BY <2>1 DEF Handled
  <1>2. \A k \in Lcores : k # l => Handled(p)'[k] = Handled(p)[k]
    BY DEF Handled
  <1>3. SumFunction(Handled(p)') = SumFunction(Handled(p)) + (Handled(p)'[l] - Handled(p)[l])
    BY <1>1, <1>2, SumChange, LcoreAssumption
  <1> QED BY <1>3 DEF Pending, Handled

\* A step that moves no frame.
LEMMA QuietStep ==
    ASSUME IInv, UNCHANGED <<pool, burst, tx_buffer, rx, tx, dropped, decrypted, rx_port_list>>,
           \A l \in Lcores : pc'[l] = "packet" <=> pc[l] = "packet",
           \A l \in Lcores : pc[l] = "packet" => cur'[l] = cur[l]
    PROVE  MbufConservation' /\ StatsBalance'
  <1>1. MbufConservation'
    BY DEF IInv, MbufConservation
  <1>2. \A p : Handled(p)' = Handled(p)
    BY DEF Handled
  <1>3. \A p : Pending(p)' = Pending(p)
    BY <1>2 DEF Pending, Handled
  <1>4. StatsBalance'
    BY <1>3 DEF IInv, StatsBalance
  <1> QED BY <1>1, <1>4

-----------------------------------------------------------------------------
(* The steps.                                                              *)

\* A lcore entering its loop keeps the invariant.
LEMMA EnterStep == ASSUME IInv, NEW l \in Lcores, Enter(l) PROVE IInv'
  <1> USE DEF Enter, stats, wires, control, link
  <1>1. TypeOK'
    BY DEF IInv, TypeOK
  <1>2. FrameInv'
    BY DEF IInv, FrameInv, TypeOK, Polled
  <1>3. ThreadInv'
    <2>1. rx_port_list[l] # <<>> => 1 \in 1 .. Len(rx_port_list[l])
      <3>1. rx_port_list[l] \in Seq(Ports)
        BY LayoutType DEF IInv
      <3> QED BY <3>1, EmptySeq, LenProperties
    <2> QED BY <2>1 DEF IInv, ThreadInv, TypeOK
  <1>4. MainInv'
    BY DEF IInv, MainInv, TypeOK
  <1>5. MbufConservation' /\ StatsBalance'
    <2>1. \A k \in Lcores : pc'[k] = "packet" <=> pc[k] = "packet"
      BY DEF IInv, TypeOK
    <2> QED BY <2>1, QuietStep
  <1> QED BY <1>1, <1>2, <1>3, <1>4, <1>5 DEF IInv

\* A lcore that goes on in its loop without touching a frame keeps the
\* invariant.
LEMMA GotoStep ==
    ASSUME IInv, NEW l \in Lcores, NEW next \in {"rx", "drain", "done"}, Goto(l, next)
    PROVE  IInv'
  <1> USE DEF Goto, stats, wires, contexts, control, link
  <1>1. TypeOK'
    BY DEF IInv, TypeOK
  <1>2. FrameInv'
    BY DEF IInv, FrameInv, TypeOK, Polled
  <1>3. ThreadInv'
    <2>1. 1 \in 1 .. Len(rx_port_list[l])
      BY DEF IInv, ThreadInv
    <2> QED BY <2>1 DEF IInv, ThreadInv, TypeOK
  <1>4. MainInv'
    BY DEF IInv, MainInv, TypeOK
  <1>5. MbufConservation' /\ StatsBalance'
    <2>1. \A k \in Lcores : pc'[k] = "packet" <=> pc[k] = "packet"
      BY DEF IInv, TypeOK
    <2>2. \A k \in Lcores : pc[k] = "packet" => cur'[k] = cur[k]
      BY DEF IInv, TypeOK
    <2> QED BY <2>1, <2>2, QuietStep
  <1> QED BY <1>1, <1>2, <1>3, <1>4, <1>5 DEF IInv

\* What NextPort() leaves behind.
LEMMA NextPortFacts ==
    ASSUME IInv, NEW l \in Lcores, pc[l] \in {"rx", "packet", "drain"},
           NEW turn \in {"rx", "drain"}, NEW after \in {"rx", "top"},
           NextPort(l, turn, after)
    PROVE  /\ pc' = [pc EXCEPT ![l] = pc'[l]] /\ pc'[l] \in {"rx", "drain", "top"}
           /\ cur' = [cur EXCEPT ![l] = cur'[l]]
           /\ cur'[l] \in Nat /\ cur'[l] \in 1 .. Len(rx_port_list[l])
  <1>1. /\ cur[l] \in 1 .. Len(rx_port_list[l])
        /\ Len(rx_port_list[l]) \in Nat
        /\ cur[l] \in Nat
    BY LayoutType, LenProperties DEF IInv, ThreadInv, TypeOK
  <1>2. CASE MorePorts(l)
    BY <1>1, <1>2 DEF NextPort, MorePorts, IInv, TypeOK
  <1>3. CASE ~MorePorts(l)
    BY <1>1, <1>3 DEF NextPort, MorePorts, IInv, TypeOK
  <1> QED BY <1>2, <1>3

\* Draining a transmit buffer keeps the invariant.
LEMMA DrainStep == ASSUME IInv, NEW l \in Lcores, Drain(l) PROVE IInv'
  <1> DEFINE q == Dst[Polled(l)]
  <1>0. pc[l] = "drain" /\ q \in Ports /\ Dst[q] = Polled(l) /\ Polled(l) \in Ports
    BY PolledType DEF Drain, IInv
  <1>1. PICK n \in 0 .. Len(tx_buffer[q]) : Flush(q, tx_buffer[q], n)
    BY DEF Drain, DrainPort, Polled
  <1> HIDE DEF q
  <1>2. tx_buffer[q] \in Seq(Leaving(q))
    BY <1>0 DEF IInv, FrameInv
  <1>3. /\ sent' \in [Ports -> Seq(Frame)] /\ rxq' \in [Ports -> Seq(Frame)]
        /\ tx_buffer' \in [Ports -> Seq(Frame)]
        /\ tx' \in [Ports -> Nat] /\ dropped' \in [Ports -> Nat]
        /\ pool' \in Nat /\ pool' = pool + Len(tx_buffer[q])
        /\ tx_buffer' = [tx_buffer EXCEPT ![q] = <<>>]
        /\ \A p \in Ports : /\ rxq'[p] \in Seq(Waiting(p))
                            /\ tx_buffer'[p] \in Seq(Leaving(p))
                            /\ sent'[p] \in Seq(Leaving(p))
                            /\ p # q => tx'[p] = tx[p] /\ dropped'[p] = dropped[p]
        /\ tx'[q] + dropped'[q] = tx[q] + dropped[q] + Len(tx_buffer[q])
    BY <1>0, <1>1, <1>2, FlushFacts DEF IInv
  <1>4. /\ pc' = [pc EXCEPT ![l] = pc'[l]] /\ pc'[l] \in {"rx", "drain", "top"}
        /\ cur' = [cur EXCEPT ![l] = cur'[l]]
        /\ cur'[l] \in Nat /\ cur'[l] \in 1 .. Len(rx_port_list[l])
    BY <1>0, NextPortFacts DEF Drain
  <1>5. UNCHANGED <<rx_port_list, burst, encrypt_ctx, decrypt_ctx, rx, decrypted, nframes,
                    force_quit, main, count, print_flag, open>>
    BY DEF Drain, contexts, control, link
  <1>6. TypeOK'
    <2>1. pc' \in [Lcores -> {"launched", "top", "rx", "packet", "drain", "done"}]
      BY <1>4 DEF IInv, TypeOK
    <2>2. cur' \in [Lcores -> Nat]
      BY <1>4 DEF IInv, TypeOK
    <2> QED BY <1>3, <1>5, <2>1, <2>2 DEF IInv, TypeOK
  <1>7. \A k \in Lcores : (pc'[k] = "packet" <=> pc[k] = "packet")
                /\ (pc[k] = "packet" => cur'[k] = cur[k])
    BY <1>0, <1>4 DEF IInv, TypeOK
  <1>8. FrameInv'
    BY <1>3, <1>5, <1>7 DEF IInv, FrameInv, Polled
  <1>9. ThreadInv'
    BY <1>0, <1>4, <1>5 DEF IInv, ThreadInv, TypeOK
  <1>10. MainInv'
    BY <1>0, <1>4, <1>5 DEF IInv, MainInv, TypeOK
  <1>11. Len(tx_buffer'[q]) = 0 /\ Len(tx_buffer[q]) \in Nat
    BY <1>0, <1>3, EmptySeq, LenProperties DEF IInv, TypeOK
  <1>12. MbufConservation'
    <2>1. SumFunction(InBuffers') = SumFunction(InBuffers) - Len(tx_buffer[q])
      <3>1. SumFunction(InBuffers') =
              SumFunction(InBuffers) + (Len(tx_buffer'[q]) - Len(tx_buffer[q]))
        BY <1>0, <1>3, <1>6, BufferChange DEF IInv, TypeOK
      <3>2. SumFunction(InBuffers) \in Int
        BY CountTypes DEF IInv
      <3> QED BY <1>11, <3>1, <3>2
    <2>2. InBursts' = InBursts
      BY <1>5 DEF InBursts
    <2>3. NbMbufs = pool + SumFunction(InBursts) + SumFunction(InBuffers)
      BY DEF IInv, MbufConservation, InBursts, InBuffers
    <2>4. SumFunction(InBursts) \in Int /\ SumFunction(InBuffers) \in Int /\ pool \in Nat
      BY CountTypes DEF IInv, TypeOK
    <2>5. NbMbufs = pool' + SumFunction(InBursts') + SumFunction(InBuffers')
      BY <1>3, <1>11, <2>1, <2>2, <2>3, <2>4
    <2> QED BY <2>5 DEF MbufConservation, InBursts, InBuffers
  <1>13. StatsBalance'
    <2> SUFFICES ASSUME NEW p \in Ports
                 PROVE rx'[p] = decrypted'[p] + tx'[Dst[p]] + dropped'[Dst[p]]
                                  + Len(tx_buffer'[Dst[p]]) + Pending(p)'
      BY DEF StatsBalance
    <2>1. Pending(p)' = Pending(p)
      <3>1. Handled(p)' = Handled(p)
        BY <1>5, <1>7 DEF Handled
      <3> QED BY <3>1 DEF Pending, Handled
    <2>2. rx[p] = decrypted[p] + tx[Dst[p]] + dropped[Dst[p]]
                    + Len(tx_buffer[Dst[p]]) + Pending(p)
      BY DEF IInv, StatsBalance
    <2>3. Dst[p] \in Ports
      BY ConfigAssumption
    <2>4. CASE Dst[p] = q
      <3>1. /\ decrypted[p] \in Nat /\ Pending(p) \in Int
            /\ tx[q] \in Nat /\ dropped[q] \in Nat /\ tx'[q] \in Nat /\ dropped'[q] \in Nat
        BY <1>0, <1>3, CountTypes DEF IInv, TypeOK
      <3>2. rx[p] = decrypted[p] + (tx[q] + dropped[q] + Len(tx_buffer[q])) + Pending(p)
        BY <1>11, <2>2, <2>4, <3>1
      <3>3. rx[p] = decrypted[p] + tx'[q] + dropped'[q] + Len(tx_buffer'[q]) + Pending(p)
        BY <1>3, <1>11, <3>1, <3>2, SMTT(20)
      <3> QED BY <1>5, <2>1, <2>4, <3>3
    <2>5. CASE Dst[p] # q
      BY <1>3, <1>5, <2>1, <2>2, <2>3, <2>5 DEF IInv, TypeOK
    <2> QED BY <2>4, <2>5
  <1> QED BY <1>6, <1>8, <1>9, <1>10, <1>12, <1>13 DEF IInv

\* The rest of a queue of frames that wait.
LEMMA RxBurstTypes ==
    ASSUME IInv, NEW l \in Lcores, RxBurst(l)
    PROVE  LET p == Polled(l)
               n == RxCount(Len(rxq[p]), BurstSize, pool)
           IN  /\ pc[l] = "rx" /\ p \in Ports /\ n \in Nat /\ n <= pool /\ n <= Len(rxq[p])
               /\ rxq' \in [Ports -> Seq(Frame)]
               /\ \A r \in Ports : rxq'[r] \in Seq(Waiting(r))
               /\ SubSeq(rxq[p], 1, n) \in Seq(Waiting(p))
               /\ Len(SubSeq(rxq[p], 1, n)) = n
  <1> DEFINE p == Polled(l)
             len == Len(rxq[p])
             n == RxCount(len, BurstSize, pool)
             t == RxTaken(len, BurstSize, pool)
  <1>1. pc[l] = "rx" /\ p \in Ports
    BY PolledType DEF RxBurst, IInv
  <1>2. rxq[p] \in Seq(Waiting(p)) /\ len \in Nat
    BY <1>1, LenProperties DEF IInv, FrameInv
  <1>3. n \in 0 .. len /\ n <= pool /\ t \in n .. len
    <2> HIDE DEF len
    <2> QED BY <1>2, RxCountFacts, SizeAssumption DEF IInv, TypeOK
  <1>4. rxq' = [rxq EXCEPT ![p] = Rest(rxq[p], t)]
    BY DEF RxBurst, Polled
  <1> HIDE DEF p, n, t
  <1>5. Rest(rxq[p], t) \in Seq(Waiting(p))
    <2>1. t \in 0 .. Len(rxq[p])
      BY <1>2, <1>3
    <2> QED BY <1>2, <2>1, TakenFacts
  <1>6. Taken(rxq[p], n) \in Seq(Waiting(p)) /\ Len(Taken(rxq[p], n)) = n
    <2>1. n \in 0 .. Len(rxq[p])
      BY <1>2, <1>3
    <2> QED BY <1>2, <2>1, TakenFacts
  <1>7. \A r \in Ports : rxq'[r] \in Seq(Waiting(r))
    BY <1>1, <1>4, <1>5 DEF IInv, TypeOK, FrameInv
  <1>8. rxq' \in [Ports -> Seq(Frame)]
    <2>1. Rest(rxq[p], t) \in Seq(Frame)
      BY <1>5, FramesAreFrames
    <2> QED BY <1>1, <1>4, <2>1 DEF IInv, TypeOK
  <1> QED
    BY <1>1, <1>2, <1>3, <1>6, <1>7, <1>8 DEF Taken, p, n

\* Receiving a burst keeps the invariant.
LEMMA RxBurstStep == ASSUME IInv, NEW l \in Lcores, RxBurst(l) PROVE IInv'
  <1> DEFINE p == Polled(l)
             n == RxCount(Len(rxq[p]), BurstSize, pool)
             b == SubSeq(rxq[p], 1, n)
  <1>1. /\ pc[l] = "rx" /\ p \in Ports /\ n \in Nat /\ n <= pool /\ n <= Len(rxq[p])
        /\ rxq' \in [Ports -> Seq(Frame)]
        /\ \A r \in Ports : rxq'[r] \in Seq(Waiting(r))
        /\ b \in Seq(Waiting(p)) /\ Len(b) = n
    BY RxBurstTypes
  <1>2. b \in Seq(Frame)
    BY <1>1, FramesAreFrames
  <1>3. UNCHANGED <<rx_port_list, encrypt_ctx, decrypt_ctx, tx_buffer, tx, dropped, decrypted,
                    sent, nframes, force_quit, main, count, print_flag, open>>
    BY DEF RxBurst, contexts, control, link
  <1>4. CASE n = 0
    <2>1. NextPort(l, "rx", "top") /\ UNCHANGED <<burst, pool, rx>>
      BY <1>4 DEF RxBurst, Polled
    <2>2. /\ pc' = [pc EXCEPT ![l] = pc'[l]] /\ pc'[l] \in {"rx", "drain", "top"}
          /\ cur' = [cur EXCEPT ![l] = cur'[l]]
          /\ cur'[l] \in Nat /\ cur'[l] \in 1 .. Len(rx_port_list[l])
      BY <1>1, <2>1, NextPortFacts
    <2> HIDE DEF p, n, b
    <2>3. TypeOK'
      <3>1. pc' \in [Lcores -> {"launched", "top", "rx", "packet", "drain", "done"}]
        BY <2>2 DEF IInv, TypeOK
      <3>2. cur' \in [Lcores -> Nat]
        BY <2>2 DEF IInv, TypeOK
      <3> QED BY <1>1, <1>3, <2>1, <3>1, <3>2 DEF IInv, TypeOK
    <2>4. \A k \in Lcores : (pc'[k] = "packet" <=> pc[k] = "packet")
                  /\ (pc[k] = "packet" => cur'[k] = cur[k])
      BY <1>1, <2>2 DEF IInv, TypeOK
    <2>5. FrameInv'
      BY <1>1, <1>3, <2>1, <2>4 DEF IInv, FrameInv, Polled
    <2>6. ThreadInv'
      BY <1>1, <1>3, <2>1, <2>2 DEF IInv, ThreadInv, TypeOK
    <2>7. MainInv'
      BY <1>1, <1>3, <2>2 DEF IInv, MainInv, TypeOK
    <2>8. MbufConservation' /\ StatsBalance'
      BY <1>3, <2>1, <2>4, QuietStep
    <2> QED BY <2>3, <2>5, <2>6, <2>7, <2>8 DEF IInv
  <1>5. CASE n # 0
    <2>1. /\ burst' = [burst EXCEPT ![l] = b]
          /\ pool' = pool - n
          /\ rx' = [rx EXCEPT ![p] = rx[p] + n]
          /\ pc' = [pc EXCEPT ![l] = "packet"]
          /\ UNCHANGED cur
      BY <1>5 DEF RxBurst, Polled
    <2>2. burst[l] = <<>>
      BY <1>1 DEF IInv, ThreadInv
    <2>3. b # <<>>
      BY <1>1, <1>5, EmptySeq
    <2> HIDE DEF p, n, b
    <2>4. TypeOK'
      <3>1. pc' \in [Lcores -> {"launched", "top", "rx", "packet", "drain", "done"}]
        BY <2>1 DEF IInv, TypeOK
      <3>2. burst' \in [Lcores -> Seq(Frame)]
        BY <1>2, <2>1 DEF IInv, TypeOK
      <3>3. rx' \in [Ports -> Nat]
        <4>1. rx[p] + n \in Nat
          BY <1>1 DEF IInv, TypeOK
        <4> QED BY <2>1, <4>1 DEF IInv, TypeOK
      <3>4. pool' \in Nat
        BY <1>1, <2>1 DEF IInv, TypeOK
      <3> QED BY <1>1, <1>3, <2>1, <3>1, <3>2, <3>3, <3>4 DEF IInv, TypeOK
    <2>5. FrameInv'
      <3>1. Polled(l)' = p
        BY <1>3, <2>1 DEF Polled, p
      <3>2. burst'[l] \in Seq(Waiting(Polled(l)'))
        BY <1>1, <2>1, <3>1 DEF IInv, TypeOK
      <3>3. \A k \in Lcores : k # l => /\ burst'[k] = burst[k] /\ pc'[k] = pc[k]
                                       /\ Polled(k)' = Polled(k)
        BY <1>3, <2>1 DEF IInv, TypeOK, Polled
      <3>4. \A k \in Lcores : pc'[k] = "packet" => burst'[k] \in Seq(Waiting(Polled(k)'))
        BY <3>2, <3>3 DEF IInv, FrameInv
      <3>5. \A r \in Ports : tx_buffer'[r] \in Seq(Leaving(r)) /\ sent'[r] \in Seq(Leaving(r))
        BY <1>3 DEF IInv, FrameInv
      <3> QED BY <1>1, <3>4, <3>5 DEF FrameInv
    <2>6. ThreadInv'
      BY <1>1, <1>3, <2>1, <2>3 DEF IInv, ThreadInv, TypeOK
    <2>7. MainInv'
      BY <1>1, <1>3, <2>1 DEF IInv, MainInv, TypeOK
    <2>8. Len(burst'[l]) = n /\ Len(burst[l]) = 0
      BY <1>1, <2>1, <2>2, EmptySeq DEF IInv, TypeOK
    <2>9. MbufConservation'
      <3>1. SumFunction(InBursts') = SumFunction(InBursts) + (Len(burst'[l]) - Len(burst[l]))
        BY <2>1, <2>4, BurstChange DEF IInv, TypeOK
      <3>2. InBuffers' = InBuffers
        BY <1>3 DEF InBuffers
      <3>3. NbMbufs = pool + SumFunction(InBursts) + SumFunction(InBuffers)
        BY DEF IInv, MbufConservation, InBursts, InBuffers
      <3>4. SumFunction(InBursts) \in Int /\ SumFunction(InBuffers) \in Int /\ pool \in Nat
        BY CountTypes DEF IInv, TypeOK
      <3>5. NbMbufs = pool' + SumFunction(InBursts') + SumFunction(InBuffers')
        BY <1>1, <2>1, <2>8, <3>1, <3>2, <3>3, <3>4
      <3> QED BY <3>5 DEF MbufConservation, InBursts, InBuffers
    <2>10. StatsBalance'
      <3> SUFFICES ASSUME NEW r \in Ports
                   PROVE rx'[r] = decrypted'[r] + tx'[Dst[r]] + dropped'[Dst[r]]
                                    + Len(tx_buffer'[Dst[r]]) + Pending(r)'
        BY DEF StatsBalance
      <3>1. Pending(r)' = Pending(r) + (Handled(r)'[l] - Handled(r)[l])
        BY <1>3, <2>1, <2>4, PendingChange DEF IInv, TypeOK
      <3>2. Handled(r)[l] = 0
        BY <1>1 DEF Handled
      <3>3. Handled(r)'[l] = IF r = p THEN n ELSE 0
        BY <1>3, <2>1, <2>8 DEF IInv, TypeOK, Handled, Polled, p
      <3>4. rx'[r] = rx[r] + (IF r = p THEN n ELSE 0)
        <4>1. rx \in [Ports -> Nat] /\ rx[r] \in Nat
          BY DEF IInv, TypeOK
        <4>2. rx' = [rx EXCEPT ![p] = rx[p] + n]
          BY <2>1
        <4>3. CASE r = p
          BY <4>1, <4>2, <4>3
        <4>4. CASE r # p
          BY <4>1, <4>2, <4>4
        <4> QED BY <4>3, <4>4
      <3>5. rx[r] = decrypted[r] + tx[Dst[r]] + dropped[Dst[r]]
                      + Len(tx_buffer[Dst[r]]) + Pending(r)
        BY DEF IInv, StatsBalance
      <3>6. /\ decrypted[r] \in Nat /\ tx[Dst[r]] \in Nat /\ dropped[Dst[r]] \in Nat
            /\ Len(tx_buffer[Dst[r]]) \in Nat /\ Pending(r) \in Int
        BY CountTypes, ConfigAssumption, LenProperties DEF IInv, TypeOK
      <3>7. rx'[r] = decrypted[r] + tx[Dst[r]] + dropped[Dst[r]]
                       + Len(tx_buffer[Dst[r]]) + Pending(r)'
        <4>1. PICK t \in Nat : t = decrypted[r] + tx[Dst[r]] + dropped[Dst[r]]
                                      + Len(tx_buffer[Dst[r]])
          BY <3>6
        <4>2. PICK g \in Int : g = Pending(r)
          BY <3>6, Zenon
        <4>3. PICK d \in Nat : d = (IF r = p THEN n ELSE 0)
          BY <1>1
        <4>4. rx[r] = t + g /\ rx'[r] = rx[r] + d /\ Pending(r)' = g + (d - 0)
          BY <3>1, <3>2, <3>3, <3>4, <3>5, <4>1, <4>2, <4>3, Zenon
        <4>5. (t + g) + d = t + (g + (d - 0))
          OBVIOUS
        <4> QED BY <4>1, <4>4, <4>5, Zenon
      <3> QED BY <1>3, <3>7
    <2> QED BY <2>4, <2>5, <2>6, <2>7, <2>9, <2>10 DEF IInv
  <1> QED BY <1>4, <1>5

\* A turn of the packet loop takes the first frame off the burst.
LEMMA NextPacketFacts ==
    ASSUME IInv, NEW l \in Lcores, pc[l] = "packet", NextPacket(l), UNCHANGED rx_port_list
    PROVE  /\ burst' = [burst EXCEPT ![l] = burst'[l]]
           /\ burst'[l] \in Seq(Waiting(Polled(l)))
           /\ Len(burst'[l]) = Len(burst[l]) - 1 /\ Len(burst[l]) \in Nat \ {0}
           /\ Head(burst[l]) \in Waiting(Polled(l))
           /\ pc' = [pc EXCEPT ![l] = pc'[l]]
           /\ pc'[l] \in {"packet", "rx", "drain", "top"}
           /\ cur' = [cur EXCEPT ![l] = cur'[l]]
           /\ cur'[l] \in Nat /\ cur'[l] \in 1 .. Len(rx_port_list[l])
           /\ pc'[l] = "packet" => cur'[l] = cur[l]
           /\ pc'[l] = "packet" <=> burst'[l] # <<>>
           /\ \A p : Handled(p)'[l] = Handled(p)[l] - (IF p = Polled(l) THEN 1 ELSE 0)
  <1>1. burst[l] \in Seq(Waiting(Polled(l))) /\ burst[l] # <<>>
    BY DEF IInv, FrameInv, ThreadInv
  <1>2. burst' = [burst EXCEPT ![l] = Tail(burst[l])]
    BY DEF NextPacket
  <1>3. /\ Head(burst[l]) \in Waiting(Polled(l))
        /\ Tail(burst[l]) \in Seq(Waiting(Polled(l)))
        /\ Len(Tail(burst[l])) = Len(burst[l]) - 1
    BY <1>1, HeadTailProperties
  <1>4. Len(burst[l]) \in Nat \ {0}
    BY <1>1, EmptySeq, LenProperties
  <1>5. burst'[l] = Tail(burst[l]) /\ burst' = [burst EXCEPT ![l] = burst'[l]]
    BY <1>2 DEF IInv, TypeOK
  <1>6. burst'[l] = <<>> <=> Len(burst[l]) = 1
    <2>1. burst'[l] \in Seq(Waiting(Polled(l))) /\ Len(burst'[l]) = Len(burst[l]) - 1
      BY <1>3, <1>5
    <2>2. burst'[l] = <<>> <=> Len(burst'[l]) = 0
      BY <2>1, EmptySeq
    <2> QED BY <1>4, <2>1, <2>2
  <1>7. cur[l] \in Nat /\ cur[l] \in 1 .. Len(rx_port_list[l])
    BY DEF IInv, TypeOK, ThreadInv
  <1>8. /\ pc' = [pc EXCEPT ![l] = pc'[l]]
        /\ pc'[l] \in {"packet", "rx", "drain", "top"}
        /\ cur' = [cur EXCEPT ![l] = cur'[l]]
        /\ cur'[l] \in Nat /\ cur'[l] \in 1 .. Len(rx_port_list[l])
        /\ pc'[l] = "packet" => cur'[l] = cur[l]
        /\ pc'[l] = "packet" <=> burst'[l] # <<>>
    <2>1. CASE Len(burst[l]) > 1
      <3>1. Len(burst[l]) # 1
        <4>1. Len(burst[l]) \in Nat
          BY <1>4
        <4> QED BY <2>1, <4>1, OneIsNotMore, Zenon
      <3>2. UNCHANGED <<pc, cur>>
        BY <3>1 DEF NextPacket
      <3>3. pc'[l] = "packet" /\ burst'[l] # <<>>
        BY <1>6, <3>1, <3>2
      <3> QED BY <1>7, <3>2, <3>3 DEF IInv, TypeOK
    <2>2. CASE Len(burst[l]) = 1
      <3>1. NextPort(l, "rx", "top")
        BY <2>2 DEF NextPacket
      <3>2. /\ pc' = [pc EXCEPT ![l] = pc'[l]] /\ pc'[l] \in {"rx", "drain", "top"}
            /\ cur' = [cur EXCEPT ![l] = cur'[l]]
            /\ cur'[l] \in Nat /\ cur'[l] \in 1 .. Len(rx_port_list[l])
        BY <3>1, NextPortFacts
      <3> QED BY <1>6, <2>2, <3>2
    <2>3. Len(burst[l]) > 1 \/ Len(burst[l]) = 1
      <3>1. Len(burst[l]) \in Nat /\ Len(burst[l]) # 0
        BY <1>4
      <3> QED BY <3>1, OneOrMore, Zenon
    <2> QED BY <2>1, <2>2, <2>3
  <1>9. ASSUME NEW p
        PROVE Handled(p)'[l] = Handled(p)[l] - (IF p = Polled(l) THEN 1 ELSE 0)
    <2>1. Handled(p)[l] = IF p = Polled(l) THEN Len(burst[l]) ELSE 0
      BY DEF Handled, Polled
    <2>2. CASE pc'[l] = "packet"
      <3>1. Handled(p)'[l] = IF p = Polled(l) THEN Len(burst'[l]) ELSE 0
        BY <1>8, <2>2 DEF Handled, Polled
      <3> QED BY <1>3, <1>4, <1>5, <2>1, <3>1
    <2>3. CASE pc'[l] # "packet"
      <3>1. Handled(p)'[l] = 0
        BY <2>3 DEF Handled
      <3>2. Len(burst[l]) = 1
        BY <1>6, <1>8, <2>3
      <3> QED BY <2>1, <3>1, <3>2
    <2> QED BY <2>2, <2>3
  <1> QED BY <1>3, <1>4, <1>5, <1>8, <1>9

\* Freeing a marked frame keeps the invariant.
LEMMA DecryptStep == ASSUME IInv, NEW l \in Lcores, DecryptPacket(l) PROVE IInv'
  <1> DEFINE p == Polled(l)
  <1>1. pc[l] = "packet" /\ NextPacket(l)
    BY DEF DecryptPacket
  <1>2. UNCHANGED <<rx_port_list, encrypt_ctx, tx_buffer, rx, tx, dropped, rxq, sent, nframes,
                    force_quit, main, count, print_flag, open>>
    BY DEF DecryptPacket, wires, control, link
  <1>3. /\ decrypted' = [decrypted EXCEPT ![p] = decrypted[p] + 1]
        /\ pool' = pool + 1
    BY DEF DecryptPacket, FreeMarked, Polled
  <1>4. p \in Ports
    BY <1>1, PolledType DEF IInv
  <1>5. /\ burst' = [burst EXCEPT ![l] = burst'[l]]
        /\ burst'[l] \in Seq(Waiting(p))
        /\ Len(burst'[l]) = Len(burst[l]) - 1 /\ Len(burst[l]) \in Nat \ {0}
        /\ pc' = [pc EXCEPT ![l] = pc'[l]]
        /\ pc'[l] \in {"packet", "rx", "drain", "top"}
        /\ cur' = [cur EXCEPT ![l] = cur'[l]]
        /\ cur'[l] \in Nat /\ cur'[l] \in 1 .. Len(rx_port_list[l])
        /\ pc'[l] = "packet" => cur'[l] = cur[l]
        /\ pc'[l] = "packet" <=> burst'[l] # <<>>
        /\ \A r : Handled(r)'[l] = Handled(r)[l] - (IF r = p THEN 1 ELSE 0)
    BY <1>1, <1>2, NextPacketFacts
  <1>6. burst'[l] \in Seq(Frame)
    BY <1>5, FramesAreFrames
  <1> HIDE DEF p
  <1>7. TypeOK'
    <2>1. decrypted[p] + 1 \in Nat /\ pool' \in Nat
      BY <1>3, <1>4 DEF IInv, TypeOK
    <2>2. decrypted' \in [Ports -> Nat]
      BY <1>3, <2>1 DEF IInv, TypeOK
    <2>3. pc' \in [Lcores -> {"launched", "top", "rx", "packet", "drain", "done"}]
      BY <1>5 DEF IInv, TypeOK
    <2>4. cur' \in [Lcores -> Nat]
      BY <1>5 DEF IInv, TypeOK
    <2>5. burst' \in [Lcores -> Seq(Frame)]
      BY <1>5, <1>6 DEF IInv, TypeOK
    <2> QED BY <1>2, <2>1, <2>2, <2>3, <2>4, <2>5 DEF IInv, TypeOK
  <1>8. FrameInv'
    <2>1. \A k \in Lcores : k # l => /\ burst'[k] = burst[k] /\ pc'[k] = pc[k]
                                     /\ Polled(k)' = Polled(k)
      BY <1>2, <1>5 DEF IInv, TypeOK, Polled
    <2>2. pc'[l] = "packet" => Polled(l)' = p
      BY <1>2, <1>5 DEF Polled, p
    <2>3. \A k \in Lcores : pc'[k] = "packet" => burst'[k] \in Seq(Waiting(Polled(k)'))
      BY <1>5, <2>1, <2>2 DEF IInv, FrameInv
    <2> QED BY <1>2, <2>3 DEF IInv, FrameInv
  <1>9. ThreadInv'
    BY <1>2, <1>5 DEF IInv, ThreadInv, TypeOK
  <1>10. MainInv'
    BY <1>1, <1>2, <1>5 DEF IInv, MainInv, TypeOK
  <1>11. MbufConservation'
    <2>1. SumFunction(InBursts') = SumFunction(InBursts) + (Len(burst'[l]) - Len(burst[l]))
      BY <1>5, <1>7, BurstChange DEF IInv, TypeOK
    <2>2. InBuffers' = InBuffers
      BY <1>2 DEF InBuffers
    <2>3. NbMbufs = pool + SumFunction(InBursts) + SumFunction(InBuffers)
      BY DEF IInv, MbufConservation, InBursts, InBuffers
    <2>4. SumFunction(InBursts) \in Int /\ SumFunction(InBuffers) \in Int /\ pool \in Nat
      BY CountTypes DEF IInv, TypeOK
    <2>5. NbMbufs = pool' + SumFunction(InBursts') + SumFunction(InBuffers')
      BY <1>3, <1>5, <2>1, <2>2, <2>3, <2>4
    <2> QED BY <2>5 DEF MbufConservation, InBursts, InBuffers
  <1>12. StatsBalance'
    <2> SUFFICES ASSUME NEW r \in Ports
                 PROVE rx'[r] = decrypted'[r] + tx'[Dst[r]] + dropped'[Dst[r]]
                                  + Len(tx_buffer'[Dst[r]]) + Pending(r)'
      BY DEF StatsBalance
    <2>1. Pending(r)' = Pending(r) + (Handled(r)'[l] - Handled(r)[l])
      BY <1>2, <1>5, <1>7, PendingChange DEF IInv, TypeOK
    <2>2. Handled(r)[l] \in Int
      BY CountTypes DEF IInv
    <2>3. Pending(r)' = Pending(r) - (IF r = p THEN 1 ELSE 0)
      BY <1>5, <2>1, <2>2, CountTypes DEF IInv
    <2>4. decrypted'[r] = decrypted[r] + (IF r = p THEN 1 ELSE 0)
      BY <1>3, <1>4 DEF IInv, TypeOK
    <2>5. rx[r] = decrypted[r] + tx[Dst[r]] + dropped[Dst[r]]
                    + Len(tx_buffer[Dst[r]]) + Pending(r)
      BY DEF IInv, StatsBalance
    <2>6. /\ decrypted[r] \in Nat /\ tx[Dst[r]] \in Nat /\ dropped[Dst[r]] \in Nat
          /\ Len(tx_buffer[Dst[r]]) \in Nat /\ Pending(r) \in Int
      BY CountTypes, ConfigAssumption, LenProperties DEF IInv, TypeOK
    <2>7. rx[r] = decrypted'[r] + tx[Dst[r]] + dropped[Dst[r]]
                     + Len(tx_buffer[Dst[r]]) + Pending(r)'
      <3>1. CASE r = p
        <4>1. Pending(r)' = Pending(r) - 1 /\ decrypted'[r] = decrypted[r] + 1
          BY <2>3, <2>4, <3>1
        <4>2. /\ decrypted[r] \in Int /\ tx[Dst[r]] \in Int /\ dropped[Dst[r]] \in Int
              /\ Len(tx_buffer[Dst[r]]) \in Int /\ Pending(r) \in Int
          BY <2>6
        <4>3. ASSUME NEW d \in Int, NEW t \in Int, NEW u \in Int, NEW b \in Int,
                      NEW h \in Int,
                      d = decrypted[r], t = tx[Dst[r]],
                      u = dropped[Dst[r]], b = Len(tx_buffer[Dst[r]]),
                      h = Pending(r)
              PROVE  rx[r] = (decrypted[r] + 1) + tx[Dst[r]] + dropped[Dst[r]]
                        + Len(tx_buffer[Dst[r]]) + (Pending(r) - 1)
          <5>1. rx[r] = d + t + u + b + h
            BY <2>5, <4>3, Zenon
          <5>2. rx[r] = (d + 1) + t + u + b + (h - 1)
            BY <5>1
          <5> QED BY <5>2, <4>3, Zenon
        <4>4. rx[r] = (decrypted[r] + 1) + tx[Dst[r]] + dropped[Dst[r]]
                        + Len(tx_buffer[Dst[r]]) + (Pending(r) - 1)
          BY <4>2, <4>3, Zenon
        <4> QED BY <4>1, <4>4, Zenon
      <3>2. CASE r # p
        <4>1. Pending(r)' = Pending(r) /\ decrypted'[r] = decrypted[r]
          BY <2>3, <2>4, <2>6, <3>2
        <4> QED BY <2>5, <4>1
      <3> QED BY <3>1, <3>2
    <2> QED BY <1>2, <2>7
  <1> QED BY <1>7, <1>8, <1>9, <1>10, <1>11, <1>12 DEF IInv

\* Encrypting and buffering a frame, with the flush of a full buffer, keeps the
\* invariant.
LEMMA ForwardStep == ASSUME IInv, NEW l \in Lcores, ForwardPacket(l) PROVE IInv'
  <1> DEFINE p  == Polled(l)
             q  == Dst[p]
             m  == CurrentPacket(l)
             f  == Rewrite(RealEncrypt(m, encrypt_ctx[l]), q)
             fs == Append(tx_buffer[q], f)
  <1>1. pc[l] = "packet" /\ NextPacket(l) /\ ~m.marked
    BY DEF ForwardPacket, IsMarked
  <1>2. UNCHANGED <<rx_port_list, decrypt_ctx, rx, decrypted, nframes,
                    force_quit, main, count, print_flag, open>>
    BY DEF ForwardPacket, control, link
  <1>3. p \in Ports /\ q \in Ports /\ Dst[q] = p
    BY <1>1, PolledType DEF IInv
  <1>4. /\ burst' = [burst EXCEPT ![l] = burst'[l]]
        /\ burst'[l] \in Seq(Waiting(p))
        /\ Len(burst'[l]) = Len(burst[l]) - 1 /\ Len(burst[l]) \in Nat \ {0}
        /\ m \in Waiting(p)
        /\ pc' = [pc EXCEPT ![l] = pc'[l]]
        /\ pc'[l] \in {"packet", "rx", "drain", "top"}
        /\ cur' = [cur EXCEPT ![l] = cur'[l]]
        /\ cur'[l] \in Nat /\ cur'[l] \in 1 .. Len(rx_port_list[l])
        /\ pc'[l] = "packet" => cur'[l] = cur[l]
        /\ pc'[l] = "packet" <=> burst'[l] # <<>>
        /\ \A r : Handled(r)'[l] = Handled(r)[l] - (IF r = p THEN 1 ELSE 0)
    BY <1>1, <1>2, NextPacketFacts DEF CurrentPacket
  <1>5. burst'[l] \in Seq(Frame)
    BY <1>4, FramesAreFrames
  <1>6. f \in Leaving(q)
    <2> HIDE DEF p, q, m
    <2> QED BY <1>1, <1>3, <1>4, RewriteFacts
  <1>7. /\ fs \in Seq(Leaving(q)) /\ Len(fs) = Len(tx_buffer[q]) + 1
        /\ Len(tx_buffer[q]) \in Nat
    <2>1. tx_buffer[q] \in Seq(Leaving(q))
      BY <1>3 DEF IInv, FrameInv
    <2> HIDE DEF f, q
    <2> QED BY <1>6, <2>1, AppendProperties, LenProperties
  <1>8. \/ /\ tx_buffer' = [tx_buffer EXCEPT ![q] = fs]
           /\ UNCHANGED <<pool, tx, dropped, rxq, sent>>
        \/ \E n \in 0 .. Len(fs) : Flush(q, fs, n)
    BY DEF ForwardPacket, Polled
  <1> HIDE DEF p, q, m, f, fs
  \* What both branches make of the frames that leave by q.
  <1>9. /\ sent' \in [Ports -> Seq(Frame)] /\ rxq' \in [Ports -> Seq(Frame)]
        /\ tx_buffer' \in [Ports -> Seq(Frame)]
        /\ tx' \in [Ports -> Nat] /\ dropped' \in [Ports -> Nat]
        /\ pool' \in Nat
        /\ pool' + Len(tx_buffer'[q]) = pool + Len(tx_buffer[q]) + 1
        /\ \A r \in Ports : r # q => tx_buffer'[r] = tx_buffer[r]
        /\ \A r \in Ports : /\ rxq'[r] \in Seq(Waiting(r))
                            /\ tx_buffer'[r] \in Seq(Leaving(r))
                            /\ sent'[r] \in Seq(Leaving(r))
                            /\ r # q => tx'[r] = tx[r] /\ dropped'[r] = dropped[r]
        /\ tx'[q] + dropped'[q] + Len(tx_buffer'[q])
             = tx[q] + dropped[q] + Len(tx_buffer[q]) + 1
    <2>0. pool \in Nat /\ tx[q] \in Nat /\ dropped[q] \in Nat
      BY <1>3 DEF IInv, TypeOK
    <2>1. CASE /\ tx_buffer' = [tx_buffer EXCEPT ![q] = fs]
               /\ UNCHANGED <<pool, tx, dropped, rxq, sent>>
      <3>1. fs \in Seq(Frame)
        BY <1>7, FramesAreFrames
      <3>2. tx_buffer' \in [Ports -> Seq(Frame)] /\ tx_buffer'[q] = fs
        BY <1>3, <2>1, <3>1 DEF IInv, TypeOK
      <3>3. \A r \in Ports : r # q => tx_buffer'[r] = tx_buffer[r]
        BY <2>1 DEF IInv, TypeOK
      <3>4. \A r \in Ports : tx_buffer'[r] \in Seq(Leaving(r))
        BY <1>7, <3>2, <3>3 DEF IInv, FrameInv
      <3>5. /\ pool' + Len(tx_buffer'[q]) = pool + Len(tx_buffer[q]) + 1
            /\ tx'[q] + dropped'[q] + Len(tx_buffer'[q])
                 = tx[q] + dropped[q] + Len(tx_buffer[q]) + 1
        <4>1. Len(tx_buffer'[q]) = Len(tx_buffer[q]) + 1
          BY <1>7, <3>2
        <4>2. UNCHANGED <<pool, tx, dropped>>
          BY <2>1
        <4>3. /\ pool \in Int /\ tx[q] \in Int /\ dropped[q] \in Int
              /\ Len(tx_buffer[q]) \in Int /\ Len(tx_buffer'[q]) \in Int
          BY <1>7, <2>0, <4>1
        <4>4. ASSUME NEW x \in Int, NEW t \in Int, NEW u \in Int, NEW b \in Int,
                      NEW c \in Int,
                      x = pool, t = tx[q],
                      u = dropped[q], b = Len(tx_buffer[q]),
                      c = Len(tx_buffer'[q])
              PROVE  /\ pool + Len(tx_buffer'[q]) = pool + Len(tx_buffer[q]) + 1
              /\ tx[q] + dropped[q] + Len(tx_buffer'[q])
                   = tx[q] + dropped[q] + Len(tx_buffer[q]) + 1
          <5>1. c = b + 1
            BY <4>1, <4>4, Zenon
          <5>2. x + c = x + b + 1 /\ t + u + c = t + u + b + 1
            BY <5>1
          <5> QED BY <5>2, <4>4, Zenon
        <4>5. /\ pool + Len(tx_buffer'[q]) = pool + Len(tx_buffer[q]) + 1
              /\ tx[q] + dropped[q] + Len(tx_buffer'[q])
                   = tx[q] + dropped[q] + Len(tx_buffer[q]) + 1
          BY <4>1, <4>3, <4>4, Zenon
        <4> QED BY <4>2, <4>5, Zenon
      <3> QED BY <2>1, <3>2, <3>3, <3>4, <3>5 DEF IInv, TypeOK, FrameInv
    <2>2. CASE \E n \in 0 .. Len(fs) : Flush(q, fs, n)
      <3>1. PICK n \in 0 .. Len(fs) : Flush(q, fs, n)
        BY <2>2
      <3>2. /\ sent' \in [Ports -> Seq(Frame)] /\ rxq' \in [Ports -> Seq(Frame)]
            /\ tx_buffer' \in [Ports -> Seq(Frame)]
            /\ tx' \in [Ports -> Nat] /\ dropped' \in [Ports -> Nat]
            /\ pool' \in Nat /\ pool' = pool + Len(fs)
            /\ tx_buffer' = [tx_buffer EXCEPT ![q] = <<>>]
            /\ \A r \in Ports : /\ rxq'[r] \in Seq(Waiting(r))
                                /\ tx_buffer'[r] \in Seq(Leaving(r))
                                /\ sent'[r] \in Seq(Leaving(r))
                                /\ r # q => tx'[r] = tx[r] /\ dropped'[r] = dropped[r]
            /\ tx'[q] + dropped'[q] = tx[q] + dropped[q] + Len(fs)
        BY <1>3, <1>7, <3>1, FlushFacts DEF IInv
      <3>3. Len(tx_buffer'[q]) = 0
        BY <1>3, <3>2, EmptySeq DEF IInv, TypeOK
      <3>4. \A r \in Ports : r # q => tx_buffer'[r] = tx_buffer[r]
        BY <3>2 DEF IInv, TypeOK
      <3>5. pool' + Len(tx_buffer'[q]) = pool + Len(tx_buffer[q]) + 1
        BY <1>7, <2>0, <3>2, <3>3
      <3>6. /\ tx'[q] \in Nat /\ dropped'[q] \in Nat
            /\ tx'[q] + dropped'[q] = tx[q] + dropped[q] + (Len(tx_buffer[q]) + 1)
        BY <1>3, <1>7, <3>2
      <3>7. tx'[q] + dropped'[q] + Len(tx_buffer'[q])
              = tx[q] + dropped[q] + Len(tx_buffer[q]) + 1
        BY <1>7, <2>0, <3>3, <3>6, SMTT(20)
      <3> QED BY <3>2, <3>4, <3>5, <3>7
    <2> QED BY <1>8, <2>1, <2>2
  <1>10. TypeOK'
    <2>1. pc' \in [Lcores -> {"launched", "top", "rx", "packet", "drain", "done"}]
      BY <1>4 DEF IInv, TypeOK
    <2>2. cur' \in [Lcores -> Nat]
      BY <1>4 DEF IInv, TypeOK
    <2>3. burst' \in [Lcores -> Seq(Frame)]
      BY <1>4, <1>5 DEF IInv, TypeOK
    <2> QED BY <1>2, <1>9, <2>1, <2>2, <2>3 DEF IInv, TypeOK
  <1>11. FrameInv'
    <2>1. \A k \in Lcores : k # l => /\ burst'[k] = burst[k] /\ pc'[k] = pc[k]
                                     /\ Polled(k)' = Polled(k)
      BY <1>2, <1>4 DEF IInv, TypeOK, Polled
    <2>2. pc'[l] = "packet" => Polled(l)' = p
      BY <1>2, <1>4 DEF Polled, p
    <2>3. \A k \in Lcores : pc'[k] = "packet" => burst'[k] \in Seq(Waiting(Polled(k)'))
      BY <1>4, <2>1, <2>2 DEF IInv, FrameInv
    <2> QED BY <1>9, <2>3 DEF FrameInv
  <1>12. ThreadInv'
    BY <1>2, <1>4 DEF IInv, ThreadInv, TypeOK
  <1>13. MainInv'
    BY <1>1, <1>2, <1>4 DEF IInv, MainInv, TypeOK
  <1>14. MbufConservation'
    <2>1. SumFunction(InBursts') = SumFunction(InBursts) + (Len(burst'[l]) - Len(burst[l]))
      BY <1>4, <1>10, BurstChange DEF IInv, TypeOK
    <2>2. SumFunction(InBuffers') =
            SumFunction(InBuffers) + (Len(tx_buffer'[q]) - Len(tx_buffer[q]))
      BY <1>3, <1>9, <1>10, BufferChange DEF IInv
    <2>3. NbMbufs = pool + SumFunction(InBursts) + SumFunction(InBuffers)
      BY DEF IInv, MbufConservation, InBursts, InBuffers
    <2>4. SumFunction(InBursts) \in Int /\ SumFunction(InBuffers) \in Int /\ pool \in Nat
      BY CountTypes DEF IInv, TypeOK
    <2>5. Len(tx_buffer'[q]) \in Nat
      BY <1>3, <1>9, LenProperties
    <2>6. /\ SumFunction(InBursts') = SumFunction(InBursts) - 1
          /\ pool' \in Nat /\ pool' + Len(tx_buffer'[q]) = pool + Len(tx_buffer[q]) + 1
      BY <1>4, <1>9, <2>1, <2>4
    <2>7. NbMbufs = pool' + SumFunction(InBursts') + SumFunction(InBuffers')
      <3>1. /\ pool \in Int /\ pool' \in Int /\ Len(tx_buffer[q]) \in Int
            /\ Len(tx_buffer'[q]) \in Int
            /\ SumFunction(InBursts) \in Int /\ SumFunction(InBuffers) \in Int
        BY <1>7, <2>4, <2>5, <2>6
      <3>2. ASSUME NEW x \in Int, NEW x1 \in Int, NEW b \in Int, NEW c \in Int,
                    NEW s \in Int, NEW t \in Int,
                    x = pool, x1 = pool',
                    b = Len(tx_buffer[q]), c = Len(tx_buffer'[q]),
                    s = SumFunction(InBursts), t = SumFunction(InBuffers)
            PROVE  NbMbufs = pool' + (SumFunction(InBursts) - 1)
                        + (SumFunction(InBuffers)
                             + (Len(tx_buffer'[q]) - Len(tx_buffer[q])))
        <4>1. NbMbufs = x + s + t
          BY <2>3, <3>2, Zenon
        <4>2. x1 + c = x + b + 1
          BY <2>6, <3>2, Zenon
        <4>3. NbMbufs = x1 + (s - 1) + (t + (c - b))
          BY <4>1, <4>2
        <4> QED BY <4>3, <3>2, Zenon
      <3>3. NbMbufs = pool' + (SumFunction(InBursts) - 1)
                        + (SumFunction(InBuffers)
                             + (Len(tx_buffer'[q]) - Len(tx_buffer[q])))
        BY <3>1, <3>2, Zenon
      <3> QED BY <2>2, <2>6, <3>3, Zenon
    <2> QED BY <2>7 DEF MbufConservation, InBursts, InBuffers
  <1>15. StatsBalance'
    <2> SUFFICES ASSUME NEW r \in Ports
                 PROVE rx'[r] = decrypted'[r] + tx'[Dst[r]] + dropped'[Dst[r]]
                                  + Len(tx_buffer'[Dst[r]]) + Pending(r)'
      BY DEF StatsBalance
    <2>1. Pending(r)' = Pending(r) + (Handled(r)'[l] - Handled(r)[l])
      BY <1>2, <1>4, <1>10, PendingChange DEF IInv, TypeOK
    <2>2. Pending(r)' = Pending(r) - (IF r = p THEN 1 ELSE 0)
      <3>1. Handled(r)[l] \in Int /\ Pending(r) \in Int
        BY CountTypes DEF IInv
      <3> QED BY <1>4, <2>1, <3>1
    <2>3. rx[r] = decrypted[r] + tx[Dst[r]] + dropped[Dst[r]]
                    + Len(tx_buffer[Dst[r]]) + Pending(r)
      BY DEF IInv, StatsBalance
    <2>4. /\ decrypted[r] \in Nat /\ tx[Dst[r]] \in Nat /\ dropped[Dst[r]] \in Nat
          /\ Len(tx_buffer[Dst[r]]) \in Nat /\ Pending(r) \in Int
          /\ tx'[Dst[r]] \in Nat /\ dropped'[Dst[r]] \in Nat
          /\ Len(tx_buffer'[Dst[r]]) \in Nat
      <3>1. Dst[r] \in Ports
        BY ConfigAssumption
      <3>2. \A x \in Ports : decrypted[x] \in Nat /\ tx[x] \in Nat /\ dropped[x] \in Nat
        BY DEF IInv, TypeOK
      <3>3. \A x \in Ports : tx'[x] \in Nat /\ dropped'[x] \in Nat
        BY <1>9
      <3>4. \A x \in Ports : Len(tx_buffer[x]) \in Nat
        BY LenProperties DEF IInv, TypeOK
      <3>5. \A x \in Ports : Len(tx_buffer'[x]) \in Nat
        BY <1>9, LenProperties
      <3>6. Pending(r) \in Int
        BY CountTypes DEF IInv
      <3> QED BY <3>1, <3>2, <3>3, <3>4, <3>5, <3>6, Zenon
    <2>5. CASE r = p
      <3>1. Dst[r] = q
        BY <2>5 DEF q
      <3>2. /\ tx[q] \in Int /\ dropped[q] \in Int /\ Len(tx_buffer[q]) \in Int
            /\ tx'[q] \in Int /\ dropped'[q] \in Int /\ Len(tx_buffer'[q]) \in Int
            /\ decrypted[r] \in Int /\ Pending(r) \in Int
        BY <2>4, <3>1
      <3>3. rx[r] = decrypted[r] + tx[q] + dropped[q] + Len(tx_buffer[q]) + Pending(r)
        BY <2>3, <3>1, Zenon
      <3>4. ASSUME NEW d \in Int, NEW h \in Int, NEW t \in Int, NEW u \in Int,
                    NEW b \in Int, NEW t1 \in Int, NEW u1 \in Int, NEW b1 \in Int,
                    d = decrypted[r], h = Pending(r),
                    t = tx[q], u = dropped[q],
                    b = Len(tx_buffer[q]), t1 = tx'[q],
                    u1 = dropped'[q], b1 = Len(tx_buffer'[q])
            PROVE  rx[r] = decrypted[r] + tx'[q] + dropped'[q] + Len(tx_buffer'[q])
                             + (Pending(r) - 1)
        <4>1. t1 + u1 + b1 = t + u + b + 1
          BY <1>9, <3>4, Zenon
        <4>2. rx[r] = d + t + u + b + h
          BY <3>3, <3>4, Zenon
        <4>3. rx[r] = d + t1 + u1 + b1 + (h - 1)
          BY <4>1, <4>2
        <4> QED BY <4>3, <3>4, Zenon
      <3>5. rx[r] = decrypted[r] + tx'[q] + dropped'[q] + Len(tx_buffer'[q]) + (Pending(r) - 1)
        BY <3>2, <3>4, Zenon
      <3>6. Pending(r)' = Pending(r) - 1
        BY <2>2, <2>5
      <3> QED BY <1>2, <3>1, <3>5, <3>6, Zenon
    <2>6. CASE r # p
      <3>1. Dst[r] # q /\ Dst[r] \in Ports
        BY <1>3, <2>6, ConfigAssumption
      <3>2. /\ tx'[Dst[r]] = tx[Dst[r]] /\ dropped'[Dst[r]] = dropped[Dst[r]]
            /\ tx_buffer'[Dst[r]] = tx_buffer[Dst[r]]
        BY <1>9, <3>1
      <3>3. Pending(r)' = Pending(r)
        BY <2>2, <2>4, <2>6
      <3> QED BY <1>2, <2>3, <3>2, <3>3
    <2> QED BY <2>5, <2>6
  <1> QED BY <1>10, <1>11, <1>12, <1>13, <1>14, <1>15 DEF IInv

\* The link check, the signal, main() and the wires move no mbuf.
LEMMA CheckLinksStep == ASSUME IInv, CheckLinks PROVE IInv'
  <1> USE DEF CheckLinks, threads, contexts, stats, wires
  <1>1. TypeOK'
    <2>1. count + 1 \in Nat
      BY DEF IInv, TypeOK
    <2>2. CASE force_quit \/ print_flag \/ count > MAX_CHECK_TIME
      <3>1. main' = "loop" /\ count' = 0 /\ print_flag' = FALSE
        BY <2>2
      <3> QED BY <3>1 DEF IInv, TypeOK
    <2>3. CASE ~(force_quit \/ print_flag \/ count > MAX_CHECK_TIME)
      <3>1. PICK up \in BOOLEAN : /\ count' = count + 1
                                  /\ print_flag' = (up \/ count = MAX_CHECK_TIME - 1)
        BY <2>3
      <3>2. print_flag' \in BOOLEAN
        BY <3>1, Zenon
      <3>3. UNCHANGED main
        BY <2>3
      <3> QED BY <2>1, <3>1, <3>2, <3>3 DEF IInv, TypeOK
    <2> QED BY <2>2, <2>3
  <1>2. FrameInv'
    BY DEF IInv, FrameInv, Polled
  <1>3. ThreadInv'
    BY DEF IInv, ThreadInv
  <1>4. MainInv'
    BY DEF IInv, MainInv
  <1>5. MbufConservation' /\ StatsBalance'
    BY QuietStep
  <1> QED BY <1>1, <1>2, <1>3, <1>4, <1>5 DEF IInv

\* A signal keeps the invariant.
LEMMA SignalStep == ASSUME IInv, Signal PROVE IInv'
  <1> USE DEF Signal, threads, contexts, stats, wires, link
  <1>1. TypeOK'
    BY DEF IInv, TypeOK
  <1>2. FrameInv' /\ ThreadInv' /\ MainInv'
    BY DEF IInv, FrameInv, Polled, ThreadInv, MainInv
  <1>3. MbufConservation' /\ StatsBalance'
    BY QuietStep
  <1> QED BY <1>1, <1>2, <1>3 DEF IInv

\* Waiting for the lcores keeps the invariant.
LEMMA WaitLcoresStep == ASSUME IInv, WaitLcores PROVE IInv'
  <1> USE DEF WaitLcores, threads, contexts, stats, wires, link
  <1>1. TypeOK'
    BY DEF IInv, TypeOK
  <1>2. FrameInv' /\ ThreadInv'
    BY DEF IInv, FrameInv, Polled, ThreadInv
  <1>3. MainInv'
    BY DEF IInv, MainInv, WorkersDone
  <1>4. MbufConservation' /\ StatsBalance'
    BY QuietStep
  <1> QED BY <1>1, <1>2, <1>3, <1>4 DEF IInv

\* Closing a port keeps the invariant.
LEMMA ClosePortStep == ASSUME IInv, ClosePort PROVE IInv'
  <1> USE DEF ClosePort, threads, contexts, stats, wires, link
  <1>1. TypeOK'
    <2>1. open' \in SUBSET Ports
      BY DEF IInv, TypeOK
    <2> QED BY <2>1 DEF IInv, TypeOK
  <1>2. FrameInv' /\ ThreadInv'
    BY DEF IInv, FrameInv, Polled, ThreadInv
  <1>3. MainInv'
    BY DEF IInv, MainInv
  <1>4. MbufConservation' /\ StatsBalance'
    BY QuietStep
  <1> QED BY <1>1, <1>2, <1>3, <1>4 DEF IInv

\* A frame from outside keeps the invariant.
LEMMA InjectStep == ASSUME IInv, NEW p \in Ports, Inject(p) PROVE IInv'
  <1> DEFINE f == [id |-> nframes + 1, at |-> p, enc |-> 0, marked |-> FALSE,
                   body |-> "plain", mac |-> Outside]
  <1>1. UNCHANGED <<rx_port_list, pc, cur, burst, tx_buffer, pool, rx, tx, dropped, decrypted,
                    sent, force_quit, main, count, print_flag, open>>
    BY DEF Inject, threads, stats, control, link
  <1>2. nframes + 1 \in Nat /\ nframes' \in Nat
    BY DEF IInv, TypeOK, Inject
  <1>3. f \in Waiting(p)
    BY <1>2 DEF Waiting, Frame
  <1>4. <<f>> \in Seq(Waiting(p))
    <2> HIDE DEF f
    <2> QED BY <1>3
  <1>5. rxq' = [rxq EXCEPT ![p] = Arrive(rxq[p], <<f>>, RxQueueSize)]
    BY DEF Inject
  <1>6. Arrive(rxq[p], <<f>>, RxQueueSize) \in Seq(Waiting(p))
    <2> HIDE DEF f
    <2> QED BY <1>4, ArriveFacts, SizeAssumption DEF IInv, FrameInv
  <1> HIDE DEF f
  <1>7. \A r \in Ports : rxq'[r] \in Seq(Waiting(r))
    BY <1>5, <1>6 DEF IInv, TypeOK, FrameInv
  <1>8. rxq' \in [Ports -> Seq(Frame)]
    <2>1. Arrive(rxq[p], <<f>>, RxQueueSize) \in Seq(Frame)
      BY <1>6, FramesAreFrames
    <2> QED BY <1>5, <2>1 DEF IInv, TypeOK
  <1>9. TypeOK'
    BY <1>1, <1>2, <1>8 DEF IInv, TypeOK
  <1>10. FrameInv'
    BY <1>1, <1>7 DEF IInv, FrameInv, Polled
  <1>11. ThreadInv' /\ MainInv'
    BY <1>1 DEF IInv, ThreadInv, MainInv
  <1>12. MbufConservation' /\ StatsBalance'
    BY <1>1, QuietStep
  <1> QED BY <1>9, <1>10, <1>11, <1>12 DEF IInv

\* The invariant holds initially.
LEMMA InitInv == ASSUME Init PROVE IInv
  <1> USE DEF Init
  <1>1. TypeOK
    <2>1. <<>> \in Seq(Frame)
      BY EmptySeq
    <2> QED BY <2>1, SizeAssumption DEF TypeOK
  <1>2. FrameInv
    BY EmptySeq DEF FrameInv
  <1>3. ThreadInv /\ MainInv
    BY DEF ThreadInv, MainInv
  <1>4. MbufConservation
    <2>1. InBursts \in [Lcores -> Int] /\ \A l \in Lcores : InBursts[l] = 0
      BY EmptySeq DEF InBursts
    <2>2. InBuffers \in [Ports -> Int] /\ \A p \in Ports : InBuffers[p] = 0
      BY EmptySeq DEF InBuffers
    <2>3. SumFunction(InBursts) = 0 /\ SumFunction(InBuffers) = 0
      BY <2>1, <2>2, SumZero, LcoreAssumption
    <2> QED BY <2>3, SizeAssumption DEF MbufConservation, InBursts, InBuffers
  <1>5. StatsBalance
    <2>1. \A p : Pending(p) = 0
      <3> TAKE p
      <3>1. Handled(p) \in [Lcores -> Int] /\ \A l \in Lcores : Handled(p)[l] = 0
        BY DEF Handled
      <3>2. SumFunction(Handled(p)) = 0
        BY <3>1, SumZero, LcoreAssumption
      <3> QED BY <3>2 DEF Pending, Handled
    <2>2. \A p \in Ports : Len(tx_buffer[Dst[p]]) = 0
      BY ConfigAssumption, EmptySeq
    <2> QED BY <2>1, <2>2, ConfigAssumption DEF StatsBalance
  <1> QED BY <1>1, <1>2, <1>3, <1>4, <1>5 DEF IInv

\* Every step keeps the invariant.
LEMMA StepInv == ASSUME IInv, [Step]_program PROVE IInv'
  <1>1. ASSUME NEW l \in Lcores, Work(l) PROVE IInv'
    <2>1. CASE Enter(l)
      BY <2>1, EnterStep
    <2>2. CASE Quit(l)
      BY <2>2, GotoStep DEF Quit
    <2>3. CASE Poll(l)
      BY <2>3, GotoStep DEF Poll
    <2>4. CASE StartDrain(l)
      BY <2>4, GotoStep DEF StartDrain
    <2>5. CASE Drain(l)
      BY <2>5, DrainStep
    <2>6. CASE RxBurst(l)
      BY <2>6, RxBurstStep
    <2>7. CASE DecryptPacket(l)
      BY <2>7, DecryptStep
    <2>8. CASE ForwardPacket(l)
      BY <2>8, ForwardStep
    <2> QED BY <1>1, <2>1, <2>2, <2>3, <2>4, <2>5, <2>6, <2>7, <2>8 DEF Work
  <1>2. ASSUME NEW p \in Ports, Inject(p) PROVE IInv'
    BY <1>2, InjectStep
  <1>3. CASE Signal
    BY <1>3, SignalStep
  <1>4. CASE CheckLinks
    BY <1>4, CheckLinksStep
  <1>5. CASE WaitLcores
    BY <1>5, WaitLcoresStep
  <1>6. CASE ClosePort
    BY <1>6, ClosePortStep
  <1>7. CASE UNCHANGED program
    <2> USE <1>7 DEF program, threads, stats, wires, control, link
    <2>1. TypeOK'
      BY DEF IInv, TypeOK
    <2>2. FrameInv' /\ ThreadInv' /\ MainInv'
      BY DEF IInv, FrameInv, Polled, ThreadInv, MainInv
    <2>3. MbufConservation' /\ StatsBalance'
      BY QuietStep
    <2> QED BY <2>1, <2>2, <2>3 DEF IInv
  <1> QED
    BY <1>1, <1>2, <1>3, <1>4, <1>5, <1>6, <1>7 DEF Step

\* Every step is one of the running program or leaves all but ended alone.
LEMMA NextIsStep == [Next]_vars => [Step]_program
  BY DEF Next, Alive, CryptoFails, Exited, vars

\* IInv is an invariant of the forwarder.
THEOREM Invariance == Spec => []IInv
  <1>1. IInv /\ [Next]_vars => IInv'
    BY NextIsStep, StepInv
  <1> QED BY <1>1, InitInv, PTL DEF Spec

\* Type correctness.
THEOREM Typing == Spec => [](TypeOK /\ ended \in BOOLEAN)
  <1>1. IInv => TypeOK
    BY DEF IInv
  <1>2. Init => ended \in BOOLEAN
    BY DEF Init
  <1>3. ended \in BOOLEAN /\ [Next]_vars => (ended \in BOOLEAN)'
    BY DEF Next, Alive, CryptoFails, Exited, vars
  <1> QED BY <1>1, <1>2, <1>3, Invariance, PTL DEF Spec

\* Every mbuf of the pool is free, in a burst or in a transmit buffer: no path
\* of l2fwd_simple_forward(), of the drain or of rte_eth_tx_buffer() leaks one
\* or frees one twice.
THEOREM MbufsConserved == Spec => []MbufConservation
  <1>1. IInv => MbufConservation
    BY DEF IInv
  <1> QED BY <1>1, Invariance, PTL

\* Port statistics: what a port received is decrypted, forwarded, dropped or in
\* hand, whatever the interleaving of the lcores.
THEOREM StatisticsBalance == Spec => []StatsBalance
  <1>1. IInv => StatsBalance
    BY DEF IInv
  <1> QED BY <1>1, Invariance, PTL

\* The members of a sequence are of the sequence's kind.
LEMMA InSeqOf == ASSUME NEW F, NEW s \in Seq(F) PROVE InSeq(s) \subseteq F
  BY ElementOfSeq DEF InSeq

\* A frame on the wire was encrypted exactly once, and a marked frame is freed,
\* never encrypted again.
THEOREM EncryptsOnce == Spec => []EncryptedOnce
  <1>1. IInv => EncryptedOnce
    <2> SUFFICES ASSUME IInv PROVE EncryptedOnce
      OBVIOUS
    <2>1. ASSUME NEW q \in Ports, NEW f \in InSeq(tx_buffer[q]) \cup InSeq(sent[q])
          PROVE  f.enc = 1 /\ f.marked /\ f.at = Dst[q]
      <3>1. f \in Leaving(q)
        BY <2>1, InSeqOf DEF IInv, FrameInv
      <3> QED BY <3>1 DEF Leaving
    <2>2. ASSUME NEW p \in Ports, NEW f \in InSeq(rxq[p]) PROVE f.marked <=> f.enc = 1
      <3>1. f \in Waiting(p)
        BY <2>2, InSeqOf DEF IInv, FrameInv
      <3> QED BY <3>1 DEF Waiting, Frame
    <2>3. ASSUME NEW l \in Lcores, NEW f \in InSeq(burst[l]) PROVE f.marked <=> f.enc = 1
      <3>1. CASE pc[l] = "packet"
        <4>1. f \in Waiting(Polled(l))
          BY <2>3, <3>1, InSeqOf DEF IInv, FrameInv
        <4> QED BY <4>1 DEF Waiting, Frame
      <3>2. CASE pc[l] # "packet"
        BY <2>3, <3>2, EmptySeq DEF IInv, ThreadInv, InSeq
      <3> QED BY <3>1, <3>2
    <2> QED BY <2>1, <2>2, <2>3 DEF EncryptedOnce
  <1> QED BY <1>1, Invariance, PTL

\* No lcore polls a port main() has closed.
THEOREM ClosesAfterLoops == Spec => []NoLoopOnClosedPort
  <1>1. IInv => NoLoopOnClosedPort
    BY DEF IInv, TypeOK, MainInv, NoLoopOnClosedPort
  <1> QED BY <1>1, Invariance, PTL

\* Every frame sent has its mark and an empty payload: what encrypt_packet()
\* leaves of it.
NothingButEmpty ==
    \A q \in Ports : \A f \in InSeq(sent[q]) : f.marked /\ f.body = "empty"

\* No payload reaches the other side, under any schedule: the general form of
\* what the run run_to_completion_cipher shows by an example.
THEOREM SendsNoPayload == Spec => []NothingButEmpty
  <1>1. IInv => NothingButEmpty
    <2> SUFFICES ASSUME IInv, NEW q \in Ports, NEW f \in InSeq(sent[q])
                 PROVE  f.marked /\ f.body = "empty"
      BY DEF NothingButEmpty
    <2>1. f \in Leaving(q)
      BY InSeqOf DEF IInv, FrameInv
    <2> QED BY <2>1 DEF Leaving
  <1> QED BY <1>1, Invariance, PTL

-----------------------------------------------------------------------------
(* The numbers of the frames on their way.                                 *)

\* The frames without the mark.
Untouched == {f \in Frame : ~f.marked}

\* Their numbers in a queue, in order.
FreshIds(s) == Ids(Fresh(s))

\* The frames bear numbers.
LEMMA FramesNumbered == Numbered(Frame)
  BY DEF Numbered, Frame

\* The numbers of a sequence of frames.
LEMMA IdsFacts ==
    ASSUME NEW s \in Seq(Frame)
    PROVE  Ids(s) \in Seq(Nat) /\ Len(Ids(s)) = Len(s)
                /\ \A i \in 1 .. Len(s) : Ids(s)[i] = s[i].id
  BY FramesNumbered, NumbersFacts

\* The numbers of one sequence after another.
LEMMA IdsConcat ==
    ASSUME NEW s \in Seq(Frame), NEW t \in Seq(Frame)
    PROVE  Ids(s \o t) = Ids(s) \o Ids(t)
  BY FramesNumbered, NumbersConcat

\* The number of one frame.
LEMMA IdsOne == ASSUME NEW f \in Frame PROVE Ids(<<f>>) = <<f.id>>
  BY FramesNumbered, NumbersOne

\* What Fresh() keeps.
LEMMA FreshIs ==
    ASSUME NEW s \in Seq(Frame)
    PROVE  Fresh(s) = Select(s, Untouched) /\ Fresh(s) \in Seq(Frame)
  <1>1. \A i \in 1 .. Len(s) : s[i] \in {f \in InSeq(s) : ~f.marked} <=> s[i] \in Untouched
    <2> TAKE i \in 1 .. Len(s)
    <2>1. s[i] \in Frame /\ s[i] \in InSeq(s)
      BY ElementOfSeq DEF InSeq
    <2> QED BY <2>1 DEF Untouched
  <1>2. Fresh(s) = Select(s, Untouched)
    BY <1>1, SelectSame DEF Fresh
  <1>3. Select(s, Untouched) \in Seq(Frame \cap Untouched)
    BY SelectFacts
  <1>4. Frame \cap Untouched \subseteq Frame
    OBVIOUS
  <1> QED BY <1>2, <1>3, <1>4, SeqMonotonic

\* The numbers of the untouched frames: of one sequence after another, of none,
\* of one frame, of frames that leave.
LEMMA FreshIdsFacts ==
    /\ FreshIds(<<>>) = <<>>
    /\ \A s \in Seq(Frame) : FreshIds(s) \in Seq(Nat)
    /\ \A s, t \in Seq(Frame) : FreshIds(s \o t) = FreshIds(s) \o FreshIds(t)
    /\ \A f \in Frame : FreshIds(<<f>>) = IF f.marked THEN <<>> ELSE <<f.id>>
  <1>0. <<>> \in Seq(Frame)
    BY EmptySeq
  <1>1. FreshIds(<<>>) = <<>>
    BY <1>0, FreshIs, SelectEmpty, NumbersNone DEF FreshIds
  <1>2. \A s \in Seq(Frame) : FreshIds(s) \in Seq(Nat)
    BY FreshIs, IdsFacts DEF FreshIds
  <1>3. ASSUME NEW s \in Seq(Frame), NEW t \in Seq(Frame)
        PROVE  FreshIds(s \o t) = FreshIds(s) \o FreshIds(t)
    <2>1. s \o t \in Seq(Frame)
      BY ConcatProperties
    <2>2. Fresh(s \o t) = Fresh(s) \o Fresh(t)
      <3>1. Fresh(s \o t) = Select(s \o t, Untouched)
        BY <2>1, FreshIs
      <3>2. Select(s \o t, Untouched) = Select(s, Untouched) \o Select(t, Untouched)
        BY SelectConcat
      <3> QED BY <3>1, <3>2, FreshIs
    <2> QED BY <2>2, FreshIs, IdsConcat DEF FreshIds
  <1>4. ASSUME NEW f \in Frame
        PROVE  FreshIds(<<f>>) = IF f.marked THEN <<>> ELSE <<f.id>>
    <2>1. <<f>> \in Seq(Frame)
      OBVIOUS
    <2>2. Fresh(<<f>>) = IF f \in Untouched THEN <<f>> ELSE <<>>
      BY <2>1, FreshIs, SelectOne
    <2>3. f \in Untouched <=> ~f.marked
      BY DEF Untouched
    <2> QED BY <2>2, <2>3, IdsOne, NumbersNone DEF FreshIds
  <1> QED BY <1>1, <1>2, <1>3, <1>4

\* What leaves bears the mark.
LEMMA FreshIdsLeaving ==
    ASSUME NEW q, NEW s \in Seq(Leaving(q)) PROVE FreshIds(s) = <<>>
  <1>1. s \in Seq(Frame)
    BY FramesAreFrames
  <1>2. \A i \in 1 .. Len(s) : s[i] \notin Untouched
    <2> TAKE i \in 1 .. Len(s)
    <2>1. s[i] \in Leaving(q)
      BY ElementOfSeq
    <2> QED BY <2>1 DEF Leaving, Untouched
  <1>3. Len(Select(s, Untouched)) = 0
    BY <1>1, <1>2, SelectNone
  <1>4. Select(s, Untouched) = <<>>
    BY <1>1, <1>3, FreshIs, EmptySeq
  <1> QED BY <1>1, <1>4, FreshIs, NumbersNone DEF FreshIds

-----------------------------------------------------------------------------
(* Steps of the channel.                                                   *)

\* What is under way and what was sent are functions of the port.
LEMMA FlightFunctions ==
    /\ InFlight = [p \in Ports |-> InFlight[p]]
    /\ InFlight' = [p \in Ports |-> InFlight'[p]]
    /\ SentIds = [p \in Ports |-> SentIds[p]]
    /\ SentIds' = [p \in Ports |-> SentIds'[p]]
  BY DEF InFlight, SentIds

\* A step that changes neither is a stutter.
LEMMA FlightSame ==
    ASSUME \A p \in Ports : InFlight'[p] = InFlight[p] /\ SentIds'[p] = SentIds[p],
           nframes' = nframes
    PROVE  UNCHANGED Channel!vars
  <1>1. InFlight' = InFlight /\ SentIds' = SentIds
    BY FlightFunctions
  <1> QED BY <1>1 DEF Channel!vars

\* The k oldest numbers of one port are sent, and t is what stays of the others.
LEMMA KeptStep ==
    ASSUME NEW p \in Ports, NEW s, NEW t, NEW k \in 0 .. Len(s), KeptAfter(s, t, k),
           InFlight[p] = s, InFlight'[p] = t, SentIds'[p] = SentIds[p] \o SubSeq(s, 1, k),
           \A o \in Ports : o # p => InFlight'[o] = InFlight[o] /\ SentIds'[o] = SentIds[o],
           nframes' = nframes
    PROVE  Channel!Next
  <1>0. PICK m \in 0 .. Len(s) - k : \E g \in [1 .. m -> k + 1 .. Len(s)] : KeptAt(s, t, g, m)
    BY DEF KeptAfter
  <1>1. PICK g \in [1 .. m -> k + 1 .. Len(s)] : KeptAt(s, t, g, m)
    BY <1>0
  <1>2. Channel!Increasing(g, m)
    BY <1>1 DEF KeptAt, Channel!Increasing
  <1>3. InFlight' = [InFlight EXCEPT ![p] = t]
    BY FlightFunctions, OneChange
  <1>4. t = [i \in 1 .. m |-> InFlight[p][g[i]]]
    BY <1>1 DEF KeptAt
  <1>5. SentIds' = [SentIds EXCEPT ![p] = SentIds[p] \o SubSeq(InFlight[p], 1, k)]
    <2>1. PICK v : v = SentIds[p] \o SubSeq(s, 1, k)
      OBVIOUS
    <2>2. SentIds' = [SentIds EXCEPT ![p] = v]
      BY <2>1, FlightFunctions, OneChange
    <2> QED BY <2>1, <2>2
  <1>6. Channel!Release(p, k, m, g)
    BY <1>2, <1>3, <1>4, <1>5, Zenon DEF Channel!Release
  <1>7. k \in 0 .. Len(InFlight[p]) /\ m \in 0 .. Len(InFlight[p]) - k
        /\ g \in [1 .. m -> k + 1 .. Len(InFlight[p])]
    BY Zenon
  <1> QED BY <1>6, <1>7, Zenon DEF Channel!Next

\* x is sent and y lost.
LEMMA SentStep ==
    ASSUME NEW p \in Ports, NEW x \in Seq(Nat), NEW y \in Seq(Nat), NEW r \in Seq(Nat),
           InFlight[p] = x \o (y \o r), InFlight'[p] = r, SentIds'[p] = SentIds[p] \o x,
           \A o \in Ports : o # p => InFlight'[o] = InFlight[o] /\ SentIds'[o] = SentIds[o],
           nframes' = nframes
    PROVE  Channel!Next
  <1>1. PICK s : s = x \o (y \o r)
    OBVIOUS
  <1>2. \E k \in 0 .. Len(s) : SubSeq(s, 1, k) = x /\ KeptAfter(s, r, k)
    BY <1>1, KeepLast
  <1>3. PICK k \in 0 .. Len(s) : SubSeq(s, 1, k) = x /\ KeptAfter(s, r, k)
    BY <1>2
  <1>4. SentIds'[p] = SentIds[p] \o SubSeq(s, 1, k) /\ InFlight[p] = s
    BY <1>1, <1>3
  <1> QED BY <1>3, <1>4, KeptStep

\* y is lost and what is ahead of it stays.
LEMMA LostStep ==
    ASSUME NEW p \in Ports, NEW x \in Seq(Nat), NEW y \in Seq(Nat), NEW r \in Seq(Nat),
           InFlight[p] = x \o (y \o r), InFlight'[p] = x \o r,
           SentIds[p] \in Seq(Nat), SentIds'[p] = SentIds[p],
           \A o \in Ports : o # p => InFlight'[o] = InFlight[o] /\ SentIds'[o] = SentIds[o],
           nframes' = nframes
    PROVE  Channel!Next
  <1>1. PICK s : s = x \o (y \o r)
    OBVIOUS
  <1>2. s \in Seq(Nat)
    BY <1>1, ConcatProperties
  <1>3. PICK t : t = x \o r
    OBVIOUS
  <1>4. KeptAfter(s, t, 0)
    BY <1>1, <1>3, KeepAround
  <1>5. SubSeq(s, 1, 0) = <<>> /\ 0 \in 0 .. Len(s)
    BY <1>2, LenProperties
  <1>6. SentIds'[p] = SentIds[p] \o SubSeq(s, 1, 0)
    BY <1>5, ConcatEmptySeq
  <1>7. InFlight[p] = s /\ InFlight'[p] = t
    BY <1>1, <1>3
  <1> QED BY <1>4, <1>5, <1>6, <1>7, KeptStep

\* A number arrives and is the last on its way.
LEMMA AcceptStep ==
    ASSUME NEW p \in Ports, nframes < MaxFrames, nframes' = nframes + 1,
           InFlight'[p] = Append(InFlight[p], nframes + 1),
           \A o \in Ports : o # p => InFlight'[o] = InFlight[o],
           \A o \in Ports : SentIds'[o] = SentIds[o]
    PROVE  Channel!Next
  <1>1. PICK v : v = Append(InFlight[p], nframes + 1)
    OBVIOUS
  <1>2. InFlight' = [InFlight EXCEPT ![p] = v]
    BY <1>1, FlightFunctions, OneChange
  <1>3. SentIds' = SentIds
    BY FlightFunctions
  <1>4. Channel!Accept(p)
    BY <1>1, <1>2, <1>3, Zenon DEF Channel!Accept
  <1> QED BY <1>4, Zenon DEF Channel!Next

\* A number arrives at a full queue and is lost.
LEMMA RefuseStep ==
    ASSUME nframes < MaxFrames, nframes' = nframes + 1,
           \A o \in Ports : InFlight'[o] = InFlight[o] /\ SentIds'[o] = SentIds[o]
    PROVE  Channel!Next
  <1>1. InFlight' = InFlight /\ SentIds' = SentIds
    BY FlightFunctions
  <1>2. Channel!Refuse
    BY <1>1 DEF Channel!Refuse
  <1> QED BY <1>2, Zenon DEF Channel!Next

-----------------------------------------------------------------------------
(* The burst taken from a port.                                            *)

\* BurstOf() over the places k of the lcores, their port lists t, indices c and
\* bursts b.
Carried(t, c, k, b, p) ==
    LET ls == {l \in Lcores : k[l] = "packet" /\ t[l][c[l]] = p}
    IN  IF ls = {} THEN <<>> ELSE b[CHOOSE l \in ls : TRUE]

\* It is, now and after a step.
LEMMA BurstIsCarried ==
    ASSUME NEW p
    PROVE  /\ BurstOf(p) = Carried(rx_port_list, cur, pc, burst, p)
           /\ BurstOf(p)' = Carried(rx_port_list', cur', pc', burst', p)
  BY DEF BurstOf, Carried

\* The lcore that polls a port is the only one to have a burst of it.
LEMMA CarriedOne ==
    ASSUME NEW t \in Layouts, NEW c, NEW k, NEW b, NEW p \in Ports,
           \A l \in Lcores : k[l] = "packet" => c[l] \in 1 .. Len(t[l]),
           NEW l \in Lcores, k[l] = "packet", t[l][c[l]] = p
    PROVE  Carried(t, c, k, b, p) = b[l]
  <1> DEFINE ls == {j \in Lcores : k[j] = "packet" /\ t[j][c[j]] = p}
  <1>1. ls = {l}
    <2>1. l \in ls
      OBVIOUS
    <2>2. ASSUME NEW j \in ls PROVE j = l
      <3>1. j \in Lcores /\ c[j] \in 1 .. Len(t[j]) /\ c[l] \in 1 .. Len(t[l])
            /\ t[j][c[j]] = t[l][c[l]]
        OBVIOUS
      <3>2. \A a, d \in Lcores : \A i \in 1 .. Len(t[a]), m \in 1 .. Len(t[d]) :
               t[a][i] = t[d][m] => a = d /\ i = m
        BY ConfigAssumption, Zenon
      <3> QED BY <3>1, <3>2, Zenon
    <2> QED BY <2>1, <2>2
  <1>2. ls # {} /\ (CHOOSE j \in ls : TRUE) = l
    <2>1. (CHOOSE j \in {l} : TRUE) = l
      OBVIOUS
    <2> HIDE DEF ls
    <2> QED BY <1>1, <2>1, Zenon
  <1>3. Carried(t, c, k, b, p) = IF ls = {} THEN <<>> ELSE b[CHOOSE j \in ls : TRUE]
    BY DEF Carried
  <1> HIDE DEF ls
  <1> QED BY <1>2, <1>3, Zenon

\* No lcore has a burst of p.
LEMMA CarriedNone ==
    ASSUME NEW t, NEW c, NEW k, NEW b, NEW p,
           \A l \in Lcores : k[l] = "packet" => t[l][c[l]] # p
    PROVE  Carried(t, c, k, b, p) = <<>>
  BY DEF Carried

\* A step that leaves the lcores with a burst of p alone.
LEMMA CarriedSame ==
    ASSUME NEW t, NEW c, NEW k, NEW b, NEW c2, NEW k2, NEW b2, NEW p,
           \A l \in Lcores : /\ (k2[l] = "packet" /\ t[l][c2[l]] = p)
                                   <=> (k[l] = "packet" /\ t[l][c[l]] = p)
                             /\ k[l] = "packet" /\ t[l][c[l]] = p => b2[l] = b[l]
    PROVE  Carried(t, c2, k2, b2, p) = Carried(t, c, k, b, p)
  <1> DEFINE ls == {l \in Lcores : k[l] = "packet" /\ t[l][c[l]] = p}
  <1>1. ls = {l \in Lcores : k2[l] = "packet" /\ t[l][c2[l]] = p}
    OBVIOUS
  <1>2. /\ Carried(t, c, k, b, p) = IF ls = {} THEN <<>> ELSE b[CHOOSE j \in ls : TRUE]
        /\ Carried(t, c2, k2, b2, p) = IF ls = {} THEN <<>> ELSE b2[CHOOSE j \in ls : TRUE]
    BY <1>1, Zenon DEF Carried
  <1>3. ls # {} => b2[CHOOSE j \in ls : TRUE] = b[CHOOSE j \in ls : TRUE]
    <2>1. \A l \in ls : b2[l] = b[l]
      OBVIOUS
    <2>2. ls # {} => (CHOOSE j \in ls : TRUE) \in ls
      <3> HIDE DEF ls
      <3> QED OBVIOUS
    <2> HIDE DEF ls
    <2> QED BY <2>1, <2>2
  <1> HIDE DEF ls
  <1>4. CASE ls = {}
    BY <1>2, <1>4
  <1>5. CASE ls # {}
    BY <1>2, <1>3, <1>5
  <1> QED BY <1>4, <1>5

\* A burst of frames is one.
LEMMA CarriedType ==
    ASSUME NEW t, NEW c, NEW k, NEW b \in [Lcores -> Seq(Frame)], NEW p
    PROVE  Carried(t, c, k, b, p) \in Seq(Frame)
  <1> DEFINE ls == {l \in Lcores : k[l] = "packet" /\ t[l][c[l]] = p}
  <1>1. CASE ls = {}
    <2>1. Carried(t, c, k, b, p) = <<>>
      BY <1>1 DEF Carried
    <2> QED BY <2>1, EmptySeq
  <1>2. CASE ls # {}
    <2>1. Carried(t, c, k, b, p) = b[CHOOSE l \in ls : TRUE]
      BY <1>2, Zenon DEF Carried
    <2>2. (CHOOSE l \in ls : TRUE) \in ls
      <3> HIDE DEF ls
      <3> QED BY <1>2
    <2>3. (CHOOSE l \in ls : TRUE) \in Lcores
      BY <2>2
    <2> HIDE DEF ls
    <2> QED BY <2>1, <2>3
  <1> QED BY <1>1, <1>2

\* The burst of p, now and after a step.
LEMMA BurstTypes ==
    ASSUME NEW p
    PROVE  /\ TypeOK => BurstOf(p) \in Seq(Frame)
           /\ TypeOK' => BurstOf(p)' \in Seq(Frame)
  <1>1. TypeOK => burst \in [Lcores -> Seq(Frame)]
    BY DEF TypeOK
  <1>2. TypeOK' => burst' \in [Lcores -> Seq(Frame)]
    BY DEF TypeOK
  <1> QED BY <1>1, <1>2, BurstIsCarried, CarriedType

\* A step of lcores without a burst, or with the burst as it was.
LEMMA BurstStays ==
    ASSUME NEW p, UNCHANGED rx_port_list,
           \A l \in Lcores : /\ pc'[l] = "packet" <=> pc[l] = "packet"
                             /\ pc[l] = "packet" => cur'[l] = cur[l] /\ burst'[l] = burst[l]
    PROVE  BurstOf(p)' = BurstOf(p)
  <1>1. Carried(rx_port_list, cur', pc', burst', p) = Carried(rx_port_list, cur, pc, burst, p)
    <2>1. \A l \in Lcores : /\ (pc'[l] = "packet" /\ rx_port_list[l][cur'[l]] = p)
                                 <=> (pc[l] = "packet" /\ rx_port_list[l][cur[l]] = p)
                            /\ pc[l] = "packet" /\ rx_port_list[l][cur[l]] = p
                                 => burst'[l] = burst[l]
      OBVIOUS
    <2> QED BY <2>1, CarriedSame
  <1> QED BY <1>1, BurstIsCarried

\* The lcore that has a burst of p has the burst.
LEMMA BurstHere ==
    ASSUME IInv, NEW l \in Lcores, pc[l] = "packet", NEW p, p = Polled(l)
    PROVE  BurstOf(p) = burst[l]
  <1>1. p \in Ports
    BY PolledType DEF IInv
  <1>2. /\ rx_port_list \in Layouts
        /\ \A k \in Lcores : pc[k] = "packet" => cur[k] \in 1 .. Len(rx_port_list[k])
    BY DEF IInv, TypeOK, ThreadInv
  <1>3. Carried(rx_port_list, cur, pc, burst, p) = burst[l]
    BY <1>1, <1>2, CarriedOne DEF Polled
  <1> QED BY <1>3, BurstIsCarried

\* The same after a step.
LEMMA BurstHereNext ==
    ASSUME IInv', NEW l \in Lcores, pc'[l] = "packet",
           NEW p \in Ports, p = rx_port_list'[l][cur'[l]]
    PROVE  BurstOf(p)' = burst'[l]
  <1>1. /\ rx_port_list' \in Layouts
        /\ \A k \in Lcores : pc'[k] = "packet" => cur'[k] \in 1 .. Len(rx_port_list'[k])
    BY DEF IInv, TypeOK, ThreadInv
  <1>2. Carried(rx_port_list', cur', pc', burst', p) = burst'[l]
    BY <1>1, CarriedOne
  <1> QED BY <1>2, BurstIsCarried

\* A lcore that polls p alone may have a burst of it.
LEMMA BurstNowhere ==
    ASSUME IInv, NEW l \in Lcores, pc[l] \notin {"launched", "done", "packet"}, NEW p, p = Polled(l)
    PROVE  BurstOf(p) = <<>>
  <1>1. \A k \in Lcores : pc[k] = "packet" => rx_port_list[k][cur[k]] # p
    <2> SUFFICES ASSUME NEW k \in Lcores, pc[k] = "packet", rx_port_list[k][cur[k]] = p PROVE FALSE
      OBVIOUS
    <2>1. /\ cur[k] \in 1 .. Len(rx_port_list[k]) /\ cur[l] \in 1 .. Len(rx_port_list[l])
          /\ rx_port_list[k][cur[k]] = rx_port_list[l][cur[l]]
          /\ rx_port_list \in Layouts
      BY DEF IInv, TypeOK, ThreadInv, Polled
    <2>2. \A a, d \in Lcores : \A i \in 1 .. Len(rx_port_list[a]), m \in 1 .. Len(rx_port_list[d]) :
             rx_port_list[a][i] = rx_port_list[d][m] => a = d /\ i = m
      BY <2>1, ConfigAssumption, Zenon
    <2>3. k = l
      BY <2>1, <2>2, Zenon
    <2> QED BY <2>3
  <1>2. Carried(rx_port_list, cur, pc, burst, p) = <<>>
    BY <1>1, CarriedNone
  <1> QED BY <1>2, BurstIsCarried

\* The packet loop moves on to the next frame of the burst.
LEMMA BurstTail ==
    ASSUME IInv, IInv', NEW l \in Lcores, pc[l] = "packet", NextPacket(l), UNCHANGED rx_port_list,
           NEW p \in Ports, p = Polled(l)
    PROVE  /\ BurstOf(p) = burst[l] /\ BurstOf(p)' = Tail(burst[l])
           /\ \A o \in Ports : o # p => BurstOf(o)' = BurstOf(o)
           /\ Head(burst[l]) \in Waiting(p) /\ Head(burst[l]) \in Frame
           /\ Tail(burst[l]) \in Seq(Frame)
           /\ FreshIds(burst[l]) = FreshIds(<<Head(burst[l])>>) \o FreshIds(Tail(burst[l]))
  <1>1. /\ burst' = [burst EXCEPT ![l] = burst'[l]]
        /\ Head(burst[l]) \in Waiting(p)
        /\ pc' = [pc EXCEPT ![l] = pc'[l]]
        /\ cur' = [cur EXCEPT ![l] = cur'[l]]
        /\ pc'[l] = "packet" => cur'[l] = cur[l]
        /\ pc'[l] = "packet" <=> burst'[l] # <<>>
    BY NextPacketFacts
  <1>2. burst'[l] = Tail(burst[l])
    BY DEF NextPacket, IInv, TypeOK
  <1>3. burst[l] \in Seq(Frame) /\ burst[l] # <<>>
    BY DEF IInv, TypeOK, ThreadInv
  <1>4. Head(burst[l]) \in Frame
    BY <1>1 DEF Waiting
  <1>5. Tail(burst[l]) \in Seq(Frame) /\ burst[l] = <<Head(burst[l])>> \o Tail(burst[l])
    BY <1>3
  <1>6. FreshIds(burst[l]) = FreshIds(<<Head(burst[l])>>) \o FreshIds(Tail(burst[l]))
    <2>1. PICK u \in Seq(Frame) : u = Tail(burst[l])
      BY <1>5
    <2>2. PICK h \in Frame : h = Head(burst[l])
      BY <1>4
    <2>3. <<h>> \in Seq(Frame)
      OBVIOUS
    <2>4. FreshIds(<<h>> \o u) = FreshIds(<<h>>) \o FreshIds(u)
      BY <2>3, FreshIdsFacts
    <2>5. burst[l] = <<h>> \o u
      BY <1>5, <2>1, <2>2, Zenon
    <2> QED BY <2>1, <2>2, <2>4, <2>5, Zenon
  <1>7. BurstOf(p) = burst[l]
    BY BurstHere
  <1>8. BurstOf(p)' = Tail(burst[l])
    <2>1. CASE pc'[l] = "packet"
      <3>1. p = rx_port_list'[l][cur'[l]]
        BY <1>1, <2>1 DEF Polled
      <3> QED BY <1>2, <2>1, <3>1, BurstHereNext
    <2>2. CASE pc'[l] # "packet"
      <3>1. \A k \in Lcores : pc'[k] = "packet" => rx_port_list'[k][cur'[k]] # p
        <4> SUFFICES ASSUME NEW k \in Lcores, pc'[k] = "packet", rx_port_list'[k][cur'[k]] = p
                     PROVE FALSE
          OBVIOUS
        <4>1. k # l /\ pc[k] = "packet" /\ cur'[k] = cur[k]
          BY <1>1, <2>2 DEF IInv, TypeOK
        <4>2. /\ cur[k] \in 1 .. Len(rx_port_list[k]) /\ cur[l] \in 1 .. Len(rx_port_list[l])
              /\ rx_port_list[k][cur[k]] = rx_port_list[l][cur[l]]
              /\ rx_port_list \in Layouts
          BY <4>1 DEF IInv, TypeOK, ThreadInv, Polled
        <4>3. \A a, d \in Lcores :
                 \A i \in 1 .. Len(rx_port_list[a]), m \in 1 .. Len(rx_port_list[d]) :
                 rx_port_list[a][i] = rx_port_list[d][m] => a = d /\ i = m
          BY <4>2, ConfigAssumption, Zenon
        <4> QED BY <4>1, <4>2, <4>3, Zenon
      <3>2. Carried(rx_port_list', cur', pc', burst', p) = <<>>
        BY <3>1, CarriedNone
      <3> QED BY <1>1, <1>2, <2>2, <3>2, BurstIsCarried
    <2> QED BY <2>1, <2>2
  <1>9. ASSUME NEW o \in Ports, o # p PROVE BurstOf(o)' = BurstOf(o)
    <2>1. \A k \in Lcores :
             /\ (pc'[k] = "packet" /\ rx_port_list[k][cur'[k]] = o)
                   <=> (pc[k] = "packet" /\ rx_port_list[k][cur[k]] = o)
             /\ pc[k] = "packet" /\ rx_port_list[k][cur[k]] = o => burst'[k] = burst[k]
      <3> TAKE k \in Lcores
      <3>1. CASE k = l
        BY <1>1, <1>9, <3>1 DEF Polled
      <3>2. CASE k # l
        BY <1>1, <3>2 DEF IInv, TypeOK
      <3> QED BY <3>1, <3>2
    <2>2. Carried(rx_port_list, cur', pc', burst', o) = Carried(rx_port_list, cur, pc, burst, o)
      BY <2>1, CarriedSame
    <2> QED BY <2>2, BurstIsCarried
  <1> QED BY <1>1, <1>4, <1>5, <1>6, <1>7, <1>8, <1>9

-----------------------------------------------------------------------------
(* What is under way.                                                      *)

\* The kernel holds no more frames for a port than fit.
QueueInv == \A p \in Ports : Len(rxq[p]) <= RxQueueSize

\* The numbers of three sequences of frames, of which two may hold marked ones.
LEMMA ThreeParts ==
    ASSUME NEW a \in Seq(Frame), NEW b \in Seq(Frame), NEW c \in Seq(Frame)
    PROVE  /\ Ids((a \o Fresh(b)) \o Fresh(c)) = Ids(a) \o (FreshIds(b) \o FreshIds(c))
           /\ Ids(a) \in Seq(Nat) /\ FreshIds(b) \in Seq(Nat) /\ FreshIds(c) \in Seq(Nat)
  <1>1. PICK b1 \in Seq(Frame) : b1 = Fresh(b)
    BY FreshIs
  <1>2. PICK c1 \in Seq(Frame) : c1 = Fresh(c)
    BY FreshIs
  <1>3. PICK d \in Seq(Frame) : d = a \o b1
    BY ConcatProperties
  <1>4. Ids(d) = Ids(a) \o Ids(b1) /\ Ids(d \o c1) = Ids(d) \o Ids(c1)
    BY <1>3, IdsConcat
  <1>5. PICK x \in Seq(Nat) : x = Ids(a)
    BY IdsFacts
  <1>6. PICK y \in Seq(Nat) : y = Ids(b1)
    BY IdsFacts
  <1>7. PICK z \in Seq(Nat) : z = Ids(c1)
    BY IdsFacts
  <1>8. Associate(x, y, z)
    BY Associates
  <1>9. y = FreshIds(b) /\ z = FreshIds(c)
    BY <1>1, <1>2, <1>6, <1>7 DEF FreshIds
  <1>10. Ids((a \o Fresh(b)) \o Fresh(c)) = (x \o y) \o z
    BY <1>1, <1>2, <1>3, <1>4, <1>5, <1>6, <1>7, Zenon
  <1>11. Ids((a \o Fresh(b)) \o Fresh(c)) = Ids(a) \o (FreshIds(b) \o FreshIds(c))
    BY <1>5, <1>8, <1>9, <1>10, Zenon DEF Associate
  <1> QED BY <1>5, <1>9, <1>11

\* What is under way from p, now and after a step.
LEMMA FlightIs ==
    ASSUME TypeOK, NEW p \in Ports
    PROVE  /\ InFlight[p] = Ids(tx_buffer[Dst[p]]) \o (FreshIds(BurstOf(p)) \o FreshIds(rxq[p]))
           /\ Ids(tx_buffer[Dst[p]]) \in Seq(Nat) /\ FreshIds(BurstOf(p)) \in Seq(Nat)
           /\ FreshIds(rxq[p]) \in Seq(Nat)
           /\ SentIds[p] = Ids(sent[Dst[p]]) /\ SentIds[p] \in Seq(Nat)
  <1>1. Dst[p] \in Ports
    BY ConfigAssumption
  <1>2. tx_buffer[Dst[p]] \in Seq(Frame) /\ BurstOf(p) \in Seq(Frame) /\ rxq[p] \in Seq(Frame)
    BY <1>1, BurstTypes DEF TypeOK
  <1>3. InFlight[p] = Ids((tx_buffer[Dst[p]] \o Fresh(BurstOf(p))) \o Fresh(rxq[p]))
    BY Zenon DEF InFlight, UnderWay
  <1>4. /\ InFlight[p] = Ids(tx_buffer[Dst[p]]) \o (FreshIds(BurstOf(p)) \o FreshIds(rxq[p]))
        /\ Ids(tx_buffer[Dst[p]]) \in Seq(Nat) /\ FreshIds(BurstOf(p)) \in Seq(Nat)
        /\ FreshIds(rxq[p]) \in Seq(Nat)
    BY <1>2, <1>3, ThreeParts, Zenon
  <1>5. SentIds[p] = Ids(sent[Dst[p]])
    BY DEF SentIds
  <1>6. SentIds[p] \in Seq(Nat)
    <2>1. sent[Dst[p]] \in Seq(Frame)
      BY <1>1 DEF TypeOK
    <2> QED BY <1>5, <2>1, IdsFacts
  <1> QED BY <1>4, <1>5, <1>6

\* The same after a step.
LEMMA FlightNext ==
    ASSUME TypeOK', NEW p \in Ports
    PROVE  /\ InFlight'[p] = Ids(tx_buffer'[Dst[p]]) \o (FreshIds(BurstOf(p)') \o FreshIds(rxq'[p]))
           /\ SentIds'[p] = Ids(sent'[Dst[p]])
  <1>1. Dst[p] \in Ports
    BY ConfigAssumption
  <1>2. tx_buffer'[Dst[p]] \in Seq(Frame) /\ BurstOf(p)' \in Seq(Frame) /\ rxq'[p] \in Seq(Frame)
    BY <1>1, BurstTypes DEF TypeOK
  <1>3. InFlight'[p] = Ids((tx_buffer'[Dst[p]] \o Fresh(BurstOf(p)')) \o Fresh(rxq'[p]))
    BY DEF InFlight, UnderWay
  <1>4. InFlight'[p] = Ids(tx_buffer'[Dst[p]]) \o (FreshIds(BurstOf(p)') \o FreshIds(rxq'[p]))
    BY <1>2, <1>3, ThreeParts, Zenon
  <1>5. SentIds'[p] = Ids(sent'[Dst[p]])
    BY DEF SentIds
  <1> QED BY <1>4, <1>5

\* A port whose buffer, burst and queue stay, but for marked frames.
LEMMA PortStays ==
    ASSUME TypeOK, TypeOK', NEW p \in Ports, tx_buffer'[Dst[p]] = tx_buffer[Dst[p]],
           FreshIds(BurstOf(p)') = FreshIds(BurstOf(p)), FreshIds(rxq'[p]) = FreshIds(rxq[p]),
           sent'[Dst[p]] = sent[Dst[p]]
    PROVE  InFlight'[p] = InFlight[p] /\ SentIds'[p] = SentIds[p]
  BY FlightIs, FlightNext, Zenon

\* Marked frames that reach a queue add nothing to what is under way.
LEMMA FlushFresh ==
    ASSUME TypeOK, FrameInv, QueueInv, NEW q \in Ports, NEW fs \in Seq(Leaving(q)),
           NEW n \in 0 .. Len(fs), Flush(q, fs, n)
    PROVE  /\ \A p \in Ports : FreshIds(rxq'[p]) = FreshIds(rxq[p])
           /\ \A p \in Ports : Len(rxq'[p]) <= RxQueueSize
  <1>1. PICK out \in Seq(Leaving(q)) : out = Taken(fs, n)
    BY TakenFacts
  <1>2. CASE Peer[q] \notin Ports
    BY <1>2 DEF Flush, QueueInv
  <1>3. CASE Peer[q] \in Ports
    <2>1. PICK o \in Ports : o = Peer[q]
      BY <1>3
    <2>2. rxq[o] \in Seq(Frame) /\ out \in Seq(Frame) /\ RxQueueSize \in Nat
      BY FramesAreFrames, SizeAssumption DEF TypeOK
    <2>3. PICK v : v = Arrive(rxq[o], out, RxQueueSize)
      OBVIOUS
    <2>4. rxq' = [rxq EXCEPT ![o] = v]
      BY <1>1, <1>3, <2>1, <2>3 DEF Flush
    <2>5. Len(v) <= RxQueueSize
      BY <2>2, <2>3, ArriveFacts
    <2>6. FreshIds(v) = FreshIds(rxq[o])
      <3>1. Len(rxq[o]) <= RxQueueSize
        BY DEF QueueInv
      <3>2. PICK k \in 0 .. Len(out) : v = rxq[o] \o SubSeq(out, 1, k)
        BY <2>2, <2>3, <3>1, ArrivePrefix
      <3>3. PICK w : w = SubSeq(out, 1, k)
        OBVIOUS
      <3>4. w \in Seq(Leaving(q))
        BY <3>3, TakenFacts DEF Taken
      <3>5. w \in Seq(Frame) /\ FreshIds(w) = <<>>
        BY <3>4, FramesAreFrames, FreshIdsLeaving
      <3>6. PICK u \in Seq(Frame) : u = rxq[o]
        BY <2>2
      <3>7. FreshIds(u \o w) = FreshIds(u) \o FreshIds(w) /\ FreshIds(u) \in Seq(Nat)
        BY <3>5, FreshIdsFacts
      <3>8. FreshIds(u) \o <<>> = FreshIds(u)
        BY <3>7, ConcatEmptySeq
      <3> QED BY <3>2, <3>3, <3>5, <3>6, <3>7, <3>8, Zenon
    <2>7. \A p \in Ports : rxq'[p] = IF p = o THEN v ELSE rxq[p]
      BY <2>4 DEF TypeOK
    <2> QED BY <2>5, <2>6, <2>7 DEF QueueInv
  <1> QED BY <1>2, <1>3

\* A transmit burst: the oldest frames under way are sent or dropped.
LEMMA FlushChannel ==
    ASSUME IInv, IInv', QueueInv, NEW p \in Ports, NEW q, q = Dst[p], NEW fs \in Seq(Leaving(q)),
           NEW n \in 0 .. Len(fs), Flush(q, fs, n), NEW r \in Seq(Nat),
           InFlight[p] = Ids(fs) \o r, FreshIds(BurstOf(p)') \o FreshIds(rxq[p]) = r,
           \A o \in Ports : o # p => BurstOf(o)' = BurstOf(o), nframes' = nframes
    PROVE  Channel!Next
  <1>1. q \in Ports /\ \A o \in Ports : Dst[o] \in Ports /\ (o # p => Dst[o] # q)
    BY ConfigAssumption
  <1>2. \A o \in Ports : FreshIds(rxq'[o]) = FreshIds(rxq[o])
    BY <1>1, FlushFresh DEF IInv
  <1>3. InFlight'[p] = r
    <2>1. tx_buffer'[q] = <<>>
      BY <1>1 DEF Flush, IInv, TypeOK
    <2>2. InFlight'[p] = Ids(tx_buffer'[q]) \o (FreshIds(BurstOf(p)') \o FreshIds(rxq'[p]))
      BY FlightNext DEF IInv
    <2>3. <<>> \o r = r
      BY ConcatEmptySeq
    <2> QED BY <1>2, <2>1, <2>2, <2>3, NumbersNone, Zenon
  <1>4. PICK a \in Seq(Frame) : a = Taken(fs, n)
    BY TakenFacts, FramesAreFrames
  <1>5. PICK b \in Seq(Frame) : b = Rest(fs, n)
    BY TakenFacts, FramesAreFrames
  <1>6. PICK x \in Seq(Nat) : x = Ids(a)
    BY IdsFacts
  <1>7. PICK y \in Seq(Nat) : y = Ids(b)
    BY IdsFacts
  <1>8. InFlight[p] = x \o (y \o r)
    <2>1. fs = a \o b
      BY <1>4, <1>5, TakenAndRest
    <2>2. Ids(fs) = x \o y
      BY <1>6, <1>7, <2>1, IdsConcat
    <2>3. Associate(x, y, r)
      BY Associates
    <2> QED BY <2>2, <2>3, Zenon DEF Associate
  <1>9. SentIds'[p] = SentIds[p] \o x
    <2>1. sent'[q] = sent[q] \o a /\ sent[q] \in Seq(Frame)
      BY <1>1, <1>4 DEF Flush, IInv, TypeOK
    <2>2. SentIds'[p] = Ids(sent'[q]) /\ SentIds[p] = Ids(sent[q])
      BY FlightIs, FlightNext DEF IInv
    <2>3. PICK s \in Seq(Frame) : s = sent[q]
      BY <2>1
    <2>4. Ids(s \o a) = Ids(s) \o Ids(a)
      BY IdsConcat
    <2> QED BY <1>6, <2>1, <2>2, <2>3, <2>4, Zenon
  <1>10. ASSUME NEW o \in Ports, o # p PROVE InFlight'[o] = InFlight[o] /\ SentIds'[o] = SentIds[o]
    <2>1. tx_buffer'[Dst[o]] = tx_buffer[Dst[o]] /\ sent'[Dst[o]] = sent[Dst[o]]
      BY <1>1, <1>10 DEF Flush, IInv, TypeOK
    <2>2. BurstOf(o)' = BurstOf(o)
      BY <1>10
    <2>3. FreshIds(BurstOf(o)') = FreshIds(BurstOf(o))
      BY <2>2, Zenon
    <2> QED BY <1>2, <2>1, <2>3, PortStays DEF IInv
  <1> QED BY <1>3, <1>8, <1>9, <1>10, SentStep

-----------------------------------------------------------------------------
(* The steps of the forwarder as steps of the channel.                     *)

\* Encrypting a frame and rewriting its addresses leaves its number.
LEMMA RewriteKeepsId ==
    ASSUME NEW q \in Ports, NEW f \in Frame, NEW ctx
    PROVE  Rewrite(RealEncrypt(f, ctx), q).id = f.id
  <1> DEFINE b  == EncryptOut(CtxReset(ctx), f.body)
             e  == IF f.enc = 2 THEN 2 ELSE f.enc + 1
  <1>1. b \in {"plain", "cipher", "empty"} /\ e \in 0 .. 2
    BY DEF EncryptOut, Frame
  <1>2. RealEncrypt(f, ctx) = [f EXCEPT !.body = b, !.marked = TRUE, !.enc = e]
    BY Zenon DEF RealEncrypt
  <1> HIDE DEF b, e
  <1>3. PICK g \in Frame : g = RealEncrypt(f, ctx) /\ g.id = f.id
    <2> DEFINE g1 == [f EXCEPT !.body = b]
               g2 == [g1 EXCEPT !.marked = TRUE]
               g3 == [g2 EXCEPT !.enc = e]
    <2>1. g1 \in Frame /\ g1.id = f.id
      BY <1>1 DEF Frame
    <2>2. g2 \in Frame /\ g2.id = f.id
      <3> HIDE DEF g1
      <3> QED BY <2>1 DEF Frame
    <2>3. g3 \in Frame /\ g3.id = f.id
      <3> HIDE DEF g2
      <3> QED BY <1>1, <2>2 DEF Frame
    <2>4. g3 = RealEncrypt(f, ctx)
      BY <1>2, Zenon
    <2> QED BY <2>3, <2>4, Zenon
  <1>4. ASSUME NEW m \in Ports \cup {Outside}
        PROVE  [[g EXCEPT !.mac = m] EXCEPT !.marked = TRUE].id = f.id
    <2> DEFINE g4 == [g EXCEPT !.mac = m]
    <2>1. g4 \in Frame /\ g4.id = f.id
      BY <1>3 DEF Frame
    <2> HIDE DEF g4
    <2>2. [g4 EXCEPT !.marked = TRUE].id = f.id
      BY <2>1 DEF Frame
    <2> QED BY <2>2 DEF g4
  <1>5. g.mac \in Ports \cup {Outside}
    BY DEF Frame
  <1>6. CASE MacUpdating
    BY <1>3, <1>4, <1>6, Zenon DEF Rewrite
  <1>7. CASE ~MacUpdating
    BY <1>3, <1>4, <1>5, <1>7, Zenon DEF Rewrite
  <1> QED BY <1>6, <1>7

\* The frame l2fwd_simple_forward() buffers.
LEMMA ForwardFrame ==
    ASSUME IInv, NEW l \in Lcores, ForwardPacket(l)
    PROVE  LET q  == Dst[Polled(l)]
               f  == Rewrite(RealEncrypt(CurrentPacket(l), encrypt_ctx[l]), q)
               fs == Append(tx_buffer[q], f)
           IN  /\ q \in Ports /\ fs \in Seq(Leaving(q))
               /\ Ids(fs) = Ids(tx_buffer[q]) \o <<CurrentPacket(l).id>>
  <1> DEFINE p == Polled(l)
             q == Dst[p]
             m == CurrentPacket(l)
             f == Rewrite(RealEncrypt(m, encrypt_ctx[l]), q)
  <1>1. pc[l] = "packet" /\ ~m.marked
    BY DEF ForwardPacket, IsMarked
  <1>2. p \in Ports /\ q \in Ports /\ Dst[q] = p
    BY <1>1, PolledType DEF IInv
  <1>3. m \in Waiting(p) /\ m \in Frame
    <2>1. burst[l] \in Seq(Waiting(p)) /\ burst[l] # <<>>
      BY <1>1 DEF IInv, FrameInv, ThreadInv
    <2>2. Head(burst[l]) \in Waiting(p)
      <3> HIDE DEF p
      <3> QED BY <2>1, HeadTailProperties
    <2> QED BY <2>2 DEF CurrentPacket, Waiting
  <1>4. f \in Leaving(q) /\ f.id = m.id
    <2> HIDE DEF p, q, m
    <2> QED BY <1>1, <1>2, <1>3, RewriteFacts, RewriteKeepsId
  <1>5. tx_buffer[q] \in Seq(Leaving(q))
    BY <1>2 DEF IInv, FrameInv
  <1> HIDE DEF p, q, m, f
  <1>6. Append(tx_buffer[q], f) \in Seq(Leaving(q))
    BY <1>4, <1>5, AppendProperties
  <1>7. Ids(Append(tx_buffer[q], f)) = Ids(tx_buffer[q]) \o <<m.id>>
    <2>1. PICK s \in Seq(Frame) : s = tx_buffer[q]
      BY <1>5, FramesAreFrames
    <2>2. PICK g \in Frame : g = f
      BY <1>4 DEF Leaving
    <2>3. <<g>> \in Seq(Frame) /\ Append(s, g) = s \o <<g>>
      BY AppendIsConcat
    <2>4. Ids(s \o <<g>>) = Ids(s) \o Ids(<<g>>) /\ Ids(<<g>>) = <<g.id>>
      BY <2>3, IdsConcat, IdsOne
    <2> QED BY <1>4, <2>1, <2>2, <2>3, <2>4, Zenon
  <1> QED BY <1>2, <1>6, <1>7 DEF p, q, m, f

\* The queues stay within their size.
LEMMA QueueInit == Init => QueueInv
  <1>1. Len(<<>>) = 0 /\ 0 <= RxQueueSize
    BY EmptySeq, SizeAssumption
  <1> QED BY <1>1 DEF Init, QueueInv

\* Every step keeps them there.
LEMMA QueueNext == IInv /\ QueueInv /\ [Step]_program => QueueInv'
  <1> SUFFICES ASSUME IInv, QueueInv, [Step]_program PROVE QueueInv'
    OBVIOUS
  <1>1. ASSUME rxq' = rxq PROVE QueueInv'
    BY <1>1 DEF QueueInv
  <1>2. ASSUME NEW l \in Lcores, Drain(l) PROVE QueueInv'
    <2> DEFINE q == Dst[Polled(l)]
    <2>1. pc[l] = "drain" /\ q \in Ports
      BY <1>2, PolledType DEF Drain, IInv
    <2>2. PICK n \in 0 .. Len(tx_buffer[q]) : Flush(q, tx_buffer[q], n)
      BY <1>2 DEF Drain, DrainPort, Polled
    <2> HIDE DEF q
    <2>3. tx_buffer[q] \in Seq(Leaving(q))
      BY <2>1 DEF IInv, FrameInv
    <2> QED BY <2>1, <2>2, <2>3, FlushFresh DEF IInv, QueueInv
  <1>3. ASSUME NEW l \in Lcores, RxBurst(l) PROVE QueueInv'
    <2> DEFINE p == Polled(l)
               t == RxTaken(Len(rxq[p]), BurstSize, pool)
    <2>1. p \in Ports /\ rxq' = [rxq EXCEPT ![p] = Rest(rxq[p], t)]
      BY <1>3, PolledType DEF RxBurst, IInv, Polled
    <2>2. rxq[p] \in Seq(Frame) /\ Len(rxq[p]) \in Nat
      BY <2>1, LenProperties DEF IInv, TypeOK
    <2>3. t \in 0 .. Len(rxq[p])
      <3>1. BurstSize \in Nat /\ pool \in Nat
        BY SizeAssumption DEF IInv, TypeOK
      <3>2. PICK k \in Nat : k = Len(rxq[p])
        BY <2>2
      <3>3. RxCount(k, BurstSize, pool) \in 0 .. k
            /\ RxTaken(k, BurstSize, pool) \in RxCount(k, BurstSize, pool) .. k
        BY <3>1, RxCountFacts
      <3>4. RxTaken(k, BurstSize, pool) \in 0 .. k
        BY <3>3
      <3> QED BY <3>2, <3>4
    <2> HIDE DEF p, t
    <2>4. Len(Rest(rxq[p], t)) <= Len(rxq[p])
      <3>1. Len(Rest(rxq[p], t)) = Len(rxq[p]) - t
        BY <2>2, <2>3, TakenFacts
      <3> QED BY <2>2, <2>3, <3>1
    <2>5. PICK v \in Nat : v = Len(Rest(rxq[p], t))
      <3>1. Rest(rxq[p], t) \in Seq(Frame)
        BY <2>2, <2>3, TakenFacts
      <3> QED BY <3>1, LenProperties
    <2>6. v <= RxQueueSize
      <3>1. Len(rxq[p]) <= RxQueueSize /\ RxQueueSize \in Nat
        BY <2>1, SizeAssumption DEF QueueInv
      <3> QED BY <2>2, <2>4, <2>5, <3>1
    <2>7. \A o \in Ports : rxq'[o] = IF o = p THEN Rest(rxq[p], t) ELSE rxq[o]
      BY <2>1 DEF IInv, TypeOK
    <2> QED BY <2>5, <2>6, <2>7 DEF QueueInv
  <1>4. ASSUME NEW l \in Lcores, ForwardPacket(l) PROVE QueueInv'
    <2> DEFINE q  == Dst[Polled(l)]
               f  == Rewrite(RealEncrypt(CurrentPacket(l), encrypt_ctx[l]), q)
               fs == Append(tx_buffer[q], f)
    <2>1. rxq' = rxq \/ \E n \in 0 .. Len(fs) : Flush(q, fs, n)
      BY <1>4, Zenon DEF ForwardPacket, Polled
    <2>2. fs \in Seq(Leaving(q)) /\ q \in Ports
      BY <1>4, ForwardFrame
    <2> HIDE DEF q, fs
    <2>3. ASSUME NEW n \in 0 .. Len(fs), Flush(q, fs, n) PROVE QueueInv'
      BY <2>2, <2>3, FlushFresh DEF IInv, QueueInv
    <2> QED BY <1>1, <2>1, <2>3
  <1>5. ASSUME NEW p \in Ports, Inject(p) PROVE QueueInv'
    <2> DEFINE f == [id |-> nframes + 1, at |-> p, enc |-> 0, marked |-> FALSE,
                     body |-> "plain", mac |-> Outside]
    <2>1. rxq' = [rxq EXCEPT ![p] = Arrive(rxq[p], <<f>>, RxQueueSize)]
      BY <1>5 DEF Inject
    <2>2. f \in Frame
      BY <1>5 DEF Inject, IInv, TypeOK, Frame
    <2> HIDE DEF f
    <2>3. <<f>> \in Seq(Frame)
      BY <2>2
    <2>4. Len(Arrive(rxq[p], <<f>>, RxQueueSize)) <= RxQueueSize
      BY <2>3, ArriveFacts, SizeAssumption DEF IInv, TypeOK
    <2>5. \A o \in Ports : rxq'[o] = IF o = p THEN Arrive(rxq[p], <<f>>, RxQueueSize) ELSE rxq[o]
      BY <2>1 DEF IInv, TypeOK
    <2> QED BY <2>4, <2>5 DEF QueueInv
  <1>6. CASE UNCHANGED program
    BY <1>1, <1>6 DEF program, wires
  <1>7. CASE Step
    <2>1. ASSUME NEW l \in Lcores, Work(l) PROVE QueueInv'
      <3>1. CASE Enter(l) \/ Quit(l) \/ Poll(l) \/ StartDrain(l) \/ DecryptPacket(l)
        BY <1>1, <3>1 DEF Enter, Quit, Poll, StartDrain, Goto, DecryptPacket, wires
      <3> QED BY <1>2, <1>3, <1>4, <2>1, <3>1 DEF Work
    <2>2. CASE Signal \/ CheckLinks \/ WaitLcores \/ ClosePort
      BY <1>1, <2>2 DEF Signal, CheckLinks, WaitLcores, ClosePort, program, wires
    <2> QED BY <1>5, <1>7, <2>1, <2>2 DEF Step
  <1> QED BY <1>6, <1>7

\* The channel is empty initially.
LEMMA ChannelInit == Init => Channel!Init
  <1> SUFFICES ASSUME Init PROVE Channel!Init
    OBVIOUS
  <1>1. IInv
    BY InitInv
  <1>2. ASSUME NEW p \in Ports PROVE InFlight[p] = <<>> /\ SentIds[p] = <<>>
    <2>1. Dst[p] \in Ports
      BY ConfigAssumption
    <2>2. tx_buffer[Dst[p]] = <<>> /\ rxq[p] = <<>> /\ sent[Dst[p]] = <<>>
      BY <2>1 DEF Init
    <2>3. BurstOf(p) = <<>>
      <3>1. \A l \in Lcores : pc[l] = "packet" => rx_port_list[l][cur[l]] # p
        BY DEF Init
      <3>2. Carried(rx_port_list, cur, pc, burst, p) = <<>>
        BY <3>1, CarriedNone
      <3> QED BY <3>2, BurstIsCarried
    <2>4. InFlight[p] = Ids(tx_buffer[Dst[p]]) \o (FreshIds(BurstOf(p)) \o FreshIds(rxq[p]))
          /\ SentIds[p] = Ids(sent[Dst[p]])
      BY <1>1, FlightIs DEF IInv
    <2>5. Ids(<<>>) = <<>> /\ FreshIds(<<>>) = <<>>
      BY NumbersNone, FreshIdsFacts
    <2>6. <<>> \o <<>> = <<>>
      OBVIOUS
    <2> QED BY <2>2, <2>3, <2>4, <2>5, <2>6, Zenon
  <1>3. InFlight = [p \in Ports |-> <<>>] /\ SentIds = [p \in Ports |-> <<>>]
    BY <1>2, FlightFunctions
  <1> QED BY <1>3 DEF Init, Channel!Init

\* A step that moves no frame, or only moves marked ones out of a burst.
LEMMA QuietChannel ==
    ASSUME IInv, IInv', UNCHANGED <<tx_buffer, rxq, sent, nframes>>,
           \A p \in Ports : FreshIds(BurstOf(p)') = FreshIds(BurstOf(p))
    PROVE  UNCHANGED Channel!vars
  <1>1. ASSUME NEW p \in Ports PROVE InFlight'[p] = InFlight[p] /\ SentIds'[p] = SentIds[p]
    <2>1. tx_buffer'[Dst[p]] = tx_buffer[Dst[p]] /\ sent'[Dst[p]] = sent[Dst[p]]
          /\ FreshIds(rxq'[p]) = FreshIds(rxq[p])
      OBVIOUS
    <2> QED BY <2>1, PortStays DEF IInv
  <1> QED BY <1>1, FlightSame

\* The start of a lcore and the top of its loop.
LEMMA GotoChannel ==
    ASSUME IInv, IInv', NEW l \in Lcores, Enter(l) \/ Quit(l) \/ Poll(l) \/ StartDrain(l)
    PROVE  UNCHANGED Channel!vars
  <1>1. UNCHANGED <<rx_port_list, burst, tx_buffer, rxq, sent, nframes>>
    BY DEF Enter, Quit, Poll, StartDrain, Goto, wires
  <1>2. pc[l] \in {"launched", "top"}
    BY DEF Enter, Quit, Poll, StartDrain, Goto
  <1>3. \E v \in {"done", "top", "rx", "drain"} : pc' = [pc EXCEPT ![l] = v]
    BY Zenon DEF Enter, Quit, Poll, StartDrain, Goto
  <1>4. cur' = cur \/ cur' = [cur EXCEPT ![l] = 1]
    BY DEF Enter, Quit, Poll, StartDrain, Goto
  <1>5. \A k \in Lcores : /\ pc'[k] = "packet" <=> pc[k] = "packet"
                          /\ pc[k] = "packet" => cur'[k] = cur[k] /\ burst'[k] = burst[k]
    BY <1>1, <1>2, <1>3, <1>4 DEF IInv, TypeOK
  <1>6. \A p \in Ports : BurstOf(p)' = BurstOf(p)
    BY <1>1, <1>5, BurstStays
  <1>7. \A p \in Ports : FreshIds(BurstOf(p)') = FreshIds(BurstOf(p))
    BY <1>6, Zenon
  <1> QED BY <1>1, <1>7, QuietChannel

\* A frame arrives.
LEMMA InjectChannel ==
    ASSUME IInv, IInv', QueueInv, NEW p \in Ports, Inject(p)
    PROVE  Channel!Next
  <1> DEFINE f == [id |-> nframes + 1, at |-> p, enc |-> 0, marked |-> FALSE,
                   body |-> "plain", mac |-> Outside]
  <1>1. /\ nframes < MaxFrames /\ nframes' = nframes + 1 /\ nframes \in Nat
        /\ UNCHANGED <<rx_port_list, pc, cur, burst, tx_buffer, sent>>
        /\ rxq' = [rxq EXCEPT ![p] = Arrive(rxq[p], <<f>>, RxQueueSize)]
    BY DEF Inject, IInv, TypeOK, threads
  <1>2. f \in Frame /\ f.id = nframes + 1 /\ ~f.marked
    BY <1>1 DEF Frame
  <1> HIDE DEF f
  <1>3. \A o \in Ports : BurstOf(o)' = BurstOf(o)
    <2>1. \A k \in Lcores : /\ pc'[k] = "packet" <=> pc[k] = "packet"
                            /\ pc[k] = "packet" => cur'[k] = cur[k] /\ burst'[k] = burst[k]
      BY <1>1
    <2> QED BY <1>1, <2>1, BurstStays
  <1>4. ASSUME NEW o \in Ports, FreshIds(rxq'[o]) = FreshIds(rxq[o])
        PROVE  InFlight'[o] = InFlight[o]
    <2>1. FreshIds(BurstOf(o)') = FreshIds(BurstOf(o))
      BY <1>3, Zenon
    <2>2. tx_buffer'[Dst[o]] = tx_buffer[Dst[o]] /\ sent'[Dst[o]] = sent[Dst[o]]
      BY <1>1
    <2> QED BY <1>4, <2>1, <2>2, PortStays DEF IInv
  <1>5. \A o \in Ports : o # p => InFlight'[o] = InFlight[o]
    <2> TAKE o \in Ports
    <2> HAVE o # p
    <2>1. rxq'[o] = rxq[o]
      BY <1>1 DEF IInv, TypeOK
    <2>2. FreshIds(rxq'[o]) = FreshIds(rxq[o])
      BY <2>1, Zenon
    <2> QED BY <1>4, <2>2
  <1>6. \A o \in Ports : SentIds'[o] = SentIds[o]
    <2> TAKE o \in Ports
    <2>1. SentIds'[o] = Ids(sent'[Dst[o]]) /\ SentIds[o] = Ids(sent[Dst[o]])
      BY FlightIs, FlightNext DEF IInv
    <2> QED BY <1>1, <2>1
  <1>7. PICK w \in Seq(Frame) : w = <<f>>
    <2>1. <<f>> \in Seq(Frame)
      BY <1>2
    <2> QED BY <2>1, Zenon
  <1>8. PICK u \in Seq(Frame) : u = rxq[p]
    BY DEF IInv, TypeOK
  <1>9. Len(w) = 1
    BY <1>7
  <1>10. PICK k \in 0 .. 1 : Arrive(u, w, RxQueueSize) = u \o SubSeq(w, 1, k)
    <2>1. Len(u) <= RxQueueSize
      BY <1>8 DEF QueueInv
    <2> QED BY <1>9, <2>1, ArrivePrefix, SizeAssumption
  <1>11. rxq'[p] = u \o SubSeq(w, 1, k)
    <2>1. rxq'[p] = Arrive(rxq[p], <<f>>, RxQueueSize)
      BY <1>1 DEF IInv, TypeOK
    <2> QED BY <1>7, <1>8, <1>10, <2>1
  <1>12. CASE k = 0
    <2>1. SubSeq(w, 1, 0) = <<>> /\ u \o <<>> = u
      BY ConcatEmptySeq
    <2>2. FreshIds(rxq'[p]) = FreshIds(rxq[p])
      BY <1>8, <1>11, <1>12, <2>1, Zenon
    <2>3. \A o \in Ports : InFlight'[o] = InFlight[o]
      BY <1>4, <1>5, <2>2
    <2> QED BY <1>1, <1>6, <2>3, RefuseStep
  <1>13. CASE k = 1
    <2>1. SubSeq(w, 1, 1) = w
      BY <1>9, TakenAll
    <2>2. FreshIds(w) = <<nframes + 1>>
      BY <1>2, <1>7, FreshIdsFacts
    <2>3. FreshIds(u \o w) = FreshIds(u) \o FreshIds(w)
      BY FreshIdsFacts
    <2>4. FreshIds(rxq'[p]) = FreshIds(rxq[p]) \o <<nframes + 1>>
      BY <1>8, <1>11, <1>13, <2>1, <2>2, <2>3, Zenon
    <2>5. InFlight'[p] = Append(InFlight[p], nframes + 1)
      <3>1. PICK a \in Seq(Nat) : a = Ids(tx_buffer[Dst[p]])
        BY FlightIs DEF IInv
      <3>2. PICK b \in Seq(Nat) : b = FreshIds(BurstOf(p))
        BY FlightIs DEF IInv
      <3>3. PICK c \in Seq(Nat) : c = FreshIds(rxq[p])
        BY FlightIs DEF IInv
      <3>4. InFlight[p] = a \o (b \o c)
        BY <3>1, <3>2, <3>3, FlightIs, Zenon DEF IInv
      <3>5. InFlight'[p] = a \o (b \o (c \o <<nframes + 1>>))
        <4>1. InFlight'[p] = Ids(tx_buffer'[Dst[p]]) \o (FreshIds(BurstOf(p)') \o FreshIds(rxq'[p]))
          BY FlightNext DEF IInv
        <4>2. tx_buffer'[Dst[p]] = tx_buffer[Dst[p]] /\ BurstOf(p)' = BurstOf(p)
          BY <1>1, <1>3
        <4> QED BY <2>4, <3>1, <3>2, <3>3, <4>1, <4>2, Zenon
      <3>6. PICK i \in Nat : i = nframes + 1
        BY <1>1
      <3>7. a \o (b \o (c \o <<i>>)) = Append(a \o (b \o c), i)
        BY LastOfThree
      <3> QED BY <3>4, <3>5, <3>6, <3>7, Zenon
    <2> QED BY <1>1, <1>5, <1>6, <2>5, AcceptStep
  <1> QED BY <1>12, <1>13

\* One turn of the drain loop.
LEMMA DrainChannel ==
    ASSUME IInv, IInv', QueueInv, NEW l \in Lcores, Drain(l)
    PROVE  Channel!Next
  <1>1. PICK p \in Ports : p = Polled(l)
    BY PolledType DEF Drain, IInv
  <1>2. PICK q \in Ports : q = Dst[p] /\ Dst[q] = p
    BY ConfigAssumption
  <1>3. PICK n \in 0 .. Len(tx_buffer[q]) : Flush(q, tx_buffer[q], n)
    BY <1>1, <1>2 DEF Drain, DrainPort, Polled
  <1>4. /\ pc[l] = "drain" /\ UNCHANGED <<rx_port_list, burst, nframes>>
        /\ pc' = [pc EXCEPT ![l] = pc'[l]] /\ pc'[l] \in {"rx", "drain", "top"}
        /\ cur' = [cur EXCEPT ![l] = cur'[l]]
    BY NextPortFacts DEF Drain
  <1>5. \A o \in Ports : BurstOf(o)' = BurstOf(o)
    <2>1. \A k \in Lcores : /\ pc'[k] = "packet" <=> pc[k] = "packet"
                            /\ pc[k] = "packet" => cur'[k] = cur[k] /\ burst'[k] = burst[k]
      BY <1>4 DEF IInv, TypeOK
    <2> QED BY <1>4, <2>1, BurstStays
  <1>6. PICK r \in Seq(Nat) : r = FreshIds(BurstOf(p)) \o FreshIds(rxq[p])
    BY FlightIs, ConcatProperties DEF IInv
  <1>7. InFlight[p] = Ids(tx_buffer[q]) \o r
    BY <1>2, <1>6, FlightIs DEF IInv
  <1>8. FreshIds(BurstOf(p)') \o FreshIds(rxq[p]) = r
    BY <1>5, <1>6, Zenon
  <1>9. tx_buffer[q] \in Seq(Leaving(q))
    BY DEF IInv, FrameInv
  <1> QED BY <1>2, <1>3, <1>4, <1>5, <1>7, <1>8, <1>9, FlushChannel

\* A frame is decrypted and freed.
LEMMA DecryptChannel ==
    ASSUME IInv, IInv', NEW l \in Lcores, DecryptPacket(l)
    PROVE  UNCHANGED Channel!vars
  <1>1. /\ pc[l] = "packet" /\ NextPacket(l) /\ CurrentPacket(l).marked
        /\ UNCHANGED <<rx_port_list, tx_buffer, rxq, sent, nframes>>
    BY DEF DecryptPacket, IsMarked, wires
  <1>2. PICK p \in Ports : p = Polled(l)
    BY <1>1, PolledType DEF IInv
  <1>3. /\ BurstOf(p) = burst[l] /\ BurstOf(p)' = Tail(burst[l])
        /\ \A o \in Ports : o # p => BurstOf(o)' = BurstOf(o)
        /\ Head(burst[l]) \in Frame /\ Tail(burst[l]) \in Seq(Frame)
        /\ FreshIds(burst[l]) = FreshIds(<<Head(burst[l])>>) \o FreshIds(Tail(burst[l]))
    BY <1>1, <1>2, BurstTail
  <1>4. FreshIds(<<Head(burst[l])>>) = <<>>
    BY <1>1, <1>3, FreshIdsFacts DEF CurrentPacket
  <1>5. FreshIds(burst[l]) = FreshIds(Tail(burst[l]))
    <2>1. PICK x \in Seq(Nat) : x = FreshIds(Tail(burst[l]))
      BY <1>3, FreshIdsFacts
    <2>2. <<>> \o x = x
      BY ConcatEmptySeq
    <2> QED BY <1>3, <1>4, <2>1, <2>2, Zenon
  <1>6. \A o \in Ports : FreshIds(BurstOf(o)') = FreshIds(BurstOf(o))
    BY <1>3, <1>5, Zenon
  <1> QED BY <1>1, <1>6, QuietChannel

\* A frame is encrypted and buffered, and a full buffer is flushed.
LEMMA ForwardChannel ==
    ASSUME IInv, IInv', QueueInv, NEW l \in Lcores, ForwardPacket(l)
    PROVE  [Channel!Next]_Channel!vars
  <1>1. /\ pc[l] = "packet" /\ NextPacket(l) /\ ~CurrentPacket(l).marked
        /\ UNCHANGED <<rx_port_list, nframes>>
    BY DEF ForwardPacket, IsMarked
  <1>2. PICK p \in Ports : p = Polled(l)
    BY <1>1, PolledType DEF IInv
  <1>3. PICK q \in Ports : q = Dst[p] /\ Dst[q] = p
    BY ConfigAssumption
  <1>4. PICK fs : /\ fs = Append(tx_buffer[q],
                            Rewrite(RealEncrypt(CurrentPacket(l), encrypt_ctx[l]), q))
                  /\ fs \in Seq(Leaving(q))
                  /\ Ids(fs) = Ids(tx_buffer[q]) \o <<CurrentPacket(l).id>>
    BY <1>2, <1>3, ForwardFrame, Zenon
  <1>5. \/ /\ tx_buffer' = [tx_buffer EXCEPT ![q] = fs]
           /\ UNCHANGED <<rxq, sent>>
        \/ \E n \in 0 .. Len(fs) : Flush(q, fs, n)
    BY <1>2, <1>3, <1>4, Zenon DEF ForwardPacket, Polled
  <1>6. /\ BurstOf(p) = burst[l] /\ BurstOf(p)' = Tail(burst[l])
        /\ \A o \in Ports : o # p => BurstOf(o)' = BurstOf(o)
        /\ Head(burst[l]) \in Frame /\ Tail(burst[l]) \in Seq(Frame)
        /\ FreshIds(burst[l]) = FreshIds(<<Head(burst[l])>>) \o FreshIds(Tail(burst[l]))
    BY <1>1, <1>2, BurstTail
  <1>7. PICK i \in Nat : i = CurrentPacket(l).id
    BY <1>6 DEF CurrentPacket, Frame
  <1>8. FreshIds(<<Head(burst[l])>>) = <<i>>
    BY <1>1, <1>6, <1>7, FreshIdsFacts DEF CurrentPacket
  <1>9. PICK b \in Seq(Nat) : b = FreshIds(BurstOf(p)')
    BY <1>6, FreshIdsFacts
  <1>10. PICK c \in Seq(Nat) : c = FreshIds(rxq[p])
    BY FlightIs DEF IInv
  <1>11. PICK r \in Seq(Nat) : r = b \o c
    BY ConcatProperties
  <1>12. InFlight[p] = Ids(fs) \o r
    <2>1. PICK a \in Seq(Nat) : a = Ids(tx_buffer[q])
      BY <1>3, FlightIs DEF IInv
    <2>2. InFlight[p] = a \o ((<<i>> \o b) \o c)
      <3>1. InFlight[p] = Ids(tx_buffer[q]) \o (FreshIds(BurstOf(p)) \o FreshIds(rxq[p]))
        BY <1>3, FlightIs DEF IInv
      <3>2. FreshIds(BurstOf(p)) = <<i>> \o b
        BY <1>6, <1>8, <1>9, Zenon
      <3> QED BY <1>10, <2>1, <3>1, <3>2, Zenon
    <2>3. a \o ((<<i>> \o b) \o c) = (a \o <<i>>) \o (b \o c)
      BY FirstOfThree
    <2> QED BY <1>4, <1>7, <1>11, <2>1, <2>2, <2>3, Zenon
  <1>13. CASE \E n \in 0 .. Len(fs) : Flush(q, fs, n)
    <2>1. PICK n \in 0 .. Len(fs) : Flush(q, fs, n)
      BY <1>13
    <2>2. FreshIds(BurstOf(p)') \o FreshIds(rxq[p]) = r
      BY <1>9, <1>10, <1>11, Zenon
    <2>3. Channel!Next
      BY <1>1, <1>3, <1>4, <1>6, <1>12, <2>1, <2>2, FlushChannel
    <2> QED BY <2>3
  <1>14. CASE tx_buffer' = [tx_buffer EXCEPT ![q] = fs] /\ UNCHANGED <<rxq, sent>>
    <2>1. InFlight'[p] = InFlight[p] /\ SentIds'[p] = SentIds[p]
      <3>1. tx_buffer'[q] = fs
        BY <1>14 DEF IInv, TypeOK
      <3>2. InFlight'[p] = Ids(tx_buffer'[q]) \o (FreshIds(BurstOf(p)') \o FreshIds(rxq'[p]))
            /\ SentIds'[p] = Ids(sent'[q]) /\ SentIds[p] = Ids(sent[q])
        BY <1>3, FlightIs, FlightNext DEF IInv
      <3>3. rxq'[p] = rxq[p] /\ sent'[q] = sent[q]
        BY <1>14
      <3> QED BY <1>9, <1>10, <1>11, <1>12, <3>1, <3>2, <3>3, Zenon
    <2>2. ASSUME NEW o \in Ports, o # p
          PROVE  InFlight'[o] = InFlight[o] /\ SentIds'[o] = SentIds[o]
      <3>1. Dst[o] # q /\ Dst[o] \in Ports
        BY <1>3, <2>2, ConfigAssumption
      <3>2. tx_buffer'[Dst[o]] = tx_buffer[Dst[o]] /\ sent'[Dst[o]] = sent[Dst[o]]
            /\ rxq'[o] = rxq[o]
        BY <1>14, <3>1 DEF IInv, TypeOK
      <3>3. BurstOf(o)' = BurstOf(o)
        BY <1>6, <2>2
      <3>4. FreshIds(BurstOf(o)') = FreshIds(BurstOf(o)) /\ FreshIds(rxq'[o]) = FreshIds(rxq[o])
        BY <3>2, <3>3, Zenon
      <3> QED BY <3>2, <3>4, PortStays DEF IInv
    <2>3. \A o \in Ports : InFlight'[o] = InFlight[o] /\ SentIds'[o] = SentIds[o]
      BY <2>1, <2>2
    <2> QED BY <1>1, <2>3, FlightSame
  <1> QED BY <1>5, <1>13, <1>14

\* The untouched frames of a queue of which t are taken and n are received.
LEMMA RxParts ==
    ASSUME NEW q \in Seq(Frame), NEW len \in Nat, len = Len(q),
           NEW n \in 0 .. len, NEW t \in n .. len
    PROVE  \E x, y, r \in Seq(Nat) : /\ x = FreshIds(Taken(q, n)) /\ r = FreshIds(Rest(q, t))
                                     /\ FreshIds(q) = x \o (y \o r)
  <1>1. n \in 0 .. Len(q) /\ t \in 0 .. Len(q)
    OBVIOUS
  <1>2. PICK a \in Seq(Frame) : a = Taken(q, n)
    BY <1>1, TakenFacts
  <1>3. PICK b \in Seq(Frame) : b = Rest(q, n)
    BY <1>1, TakenFacts
  <1>4. PICK k \in Nat : k = t - n /\ k \in 0 .. Len(b)
    <2>1. Len(b) = Len(q) - n
      BY <1>1, <1>3, TakenFacts
    <2>2. t - n \in 0 .. len - n /\ t - n \in Nat
      OBVIOUS
    <2> QED BY <2>1, <2>2
  <1>5. PICK d \in Seq(Frame) : d = Taken(b, k)
    BY <1>4, TakenFacts
  <1>6. PICK e \in Seq(Frame) : e = Rest(q, t)
    BY <1>1, TakenFacts
  <1>7. q = a \o b /\ b = d \o e
    <2>1. q = a \o b
      BY <1>1, <1>2, <1>3, TakenAndRest
    <2>2. b = d \o Rest(b, k)
      BY <1>4, <1>5, TakenAndRest
    <2>3. Rest(b, k) = e
      BY <1>3, <1>4, <1>6, RestOfRest
    <2> QED BY <2>1, <2>2, <2>3
  <1>8. /\ FreshIds(a \o b) = FreshIds(a) \o FreshIds(b)
        /\ FreshIds(d \o e) = FreshIds(d) \o FreshIds(e)
    BY FreshIdsFacts
  <1>9. FreshIds(a) \in Seq(Nat) /\ FreshIds(d) \in Seq(Nat) /\ FreshIds(e) \in Seq(Nat)
    BY FreshIdsFacts
  <1>10. FreshIds(q) = FreshIds(a) \o (FreshIds(d) \o FreshIds(e))
    BY <1>7, <1>8, Zenon
  <1> QED BY <1>2, <1>6, <1>9, <1>10, Zenon

\* A burst is received: its untouched frames are still under way, unless no
\* mbuf was left.
LEMMA RxBurstChannel ==
    ASSUME IInv, IInv', NEW l \in Lcores, RxBurst(l)
    PROVE  Channel!Next
  <1>1. PICK p \in Ports : p = Polled(l)
    BY PolledType DEF RxBurst, IInv
  <1>2. PICK q \in Seq(Frame) : q = rxq[p]
    BY DEF IInv, TypeOK
  <1>3. PICK len \in Nat : len = Len(q)
    BY LenProperties
  <1>4. PICK n \in 0 .. len : n = RxCount(len, BurstSize, pool)
    BY RxCountFacts, SizeAssumption DEF IInv, TypeOK
  <1>5. PICK t \in n .. len : t = RxTaken(len, BurstSize, pool)
    BY <1>4, RxCountFacts, SizeAssumption DEF IInv, TypeOK
  <1>6. /\ pc[l] = "rx" /\ rxq' = [rxq EXCEPT ![p] = Rest(q, t)]
        /\ UNCHANGED <<rx_port_list, tx_buffer, sent, nframes>>
        /\ \/ /\ n = 0
              /\ NextPort(l, "rx", "top")
              /\ UNCHANGED burst
           \/ /\ n > 0
              /\ burst' = [burst EXCEPT ![l] = Taken(q, n)]
              /\ pc' = [pc EXCEPT ![l] = "packet"]
              /\ UNCHANGED cur
    BY <1>1, <1>2, <1>3, <1>4, <1>5, Zenon DEF RxBurst, Polled, Taken
  <1>7. n \in 0 .. Len(q) /\ t \in 0 .. Len(q)
    BY <1>3, <1>4, <1>5
  <1>8. BurstOf(p) = <<>>
    BY <1>1, <1>6, BurstNowhere
  <1>9. BurstOf(p)' = Taken(q, n) /\ \A o \in Ports : o # p => BurstOf(o)' = BurstOf(o)
    <2>1. CASE n = 0
      <3>1. NextPort(l, "rx", "top") /\ UNCHANGED burst
        BY <1>6, <2>1
      <3>2. /\ pc' = [pc EXCEPT ![l] = pc'[l]] /\ pc'[l] \in {"rx", "drain", "top"}
            /\ cur' = [cur EXCEPT ![l] = cur'[l]]
        BY <1>6, <3>1, NextPortFacts
      <3>3. \A k \in Lcores : /\ pc'[k] = "packet" <=> pc[k] = "packet"
                              /\ pc[k] = "packet" => cur'[k] = cur[k] /\ burst'[k] = burst[k]
        BY <1>6, <3>1, <3>2 DEF IInv, TypeOK
      <3>4. \A o \in Ports : BurstOf(o)' = BurstOf(o)
        BY <1>6, <3>3, BurstStays
      <3>5. Taken(q, n) = <<>>
        BY <1>2, <2>1 DEF Taken
      <3> QED BY <1>8, <3>4, <3>5
    <2>2. CASE n > 0
      <3>1. /\ burst' = [burst EXCEPT ![l] = Taken(q, n)]
            /\ pc' = [pc EXCEPT ![l] = "packet"] /\ UNCHANGED <<cur, rx_port_list>>
        BY <1>6, <2>2
      <3>2. pc'[l] = "packet" /\ burst'[l] = Taken(q, n) /\ p = rx_port_list'[l][cur'[l]]
        BY <1>1, <3>1 DEF IInv, TypeOK, Polled
      <3>3. BurstOf(p)' = Taken(q, n)
        BY <3>2, BurstHereNext
      <3>4. ASSUME NEW o \in Ports, o # p PROVE BurstOf(o)' = BurstOf(o)
        <4>1. \A k \in Lcores :
                 /\ (pc'[k] = "packet" /\ rx_port_list[k][cur'[k]] = o)
                       <=> (pc[k] = "packet" /\ rx_port_list[k][cur[k]] = o)
                 /\ pc[k] = "packet" /\ rx_port_list[k][cur[k]] = o => burst'[k] = burst[k]
          <5> TAKE k \in Lcores
          <5>1. CASE k = l
            BY <1>1, <1>6, <3>1, <3>4, <5>1 DEF Polled
          <5>2. CASE k # l
            BY <3>1, <5>2 DEF IInv, TypeOK
          <5> QED BY <5>1, <5>2
        <4>2. Carried(rx_port_list, cur', pc', burst', o) = Carried(rx_port_list, cur, pc, burst, o)
          BY <4>1, CarriedSame
        <4> QED BY <1>6, <4>2, BurstIsCarried
      <3> QED BY <3>3, <3>4
    <2> QED BY <1>4, <2>1, <2>2
  <1>10. PICK x \in Seq(Nat) : \E y, r \in Seq(Nat) :
             /\ x = FreshIds(Taken(q, n)) /\ r = FreshIds(Rest(q, t)) /\ FreshIds(q) = x \o (y \o r)
    BY <1>3, RxParts
  <1>11. PICK y \in Seq(Nat) : \E r \in Seq(Nat) :
             /\ x = FreshIds(Taken(q, n)) /\ r = FreshIds(Rest(q, t)) /\ FreshIds(q) = x \o (y \o r)
    BY <1>10
  <1>12. PICK r \in Seq(Nat) :
             /\ x = FreshIds(Taken(q, n)) /\ r = FreshIds(Rest(q, t)) /\ FreshIds(q) = x \o (y \o r)
    BY <1>11
  <1>13. PICK z \in Seq(Nat) : z = Ids(tx_buffer[Dst[p]])
    BY FlightIs DEF IInv
  <1>14. InFlight[p] = (z \o x) \o (y \o r)
    <2>1. InFlight[p] = z \o (<<>> \o (x \o (y \o r)))
      <3>1. InFlight[p] = Ids(tx_buffer[Dst[p]]) \o (FreshIds(BurstOf(p)) \o FreshIds(rxq[p]))
        BY FlightIs DEF IInv
      <3>2. FreshIds(BurstOf(p)) = <<>>
        BY <1>8, FreshIdsFacts, Zenon
      <3> QED BY <1>2, <1>12, <1>13, <3>1, <3>2, Zenon
    <2>2. Moves(z, x, y, r)
      BY FrontMoves
    <2> QED BY <2>1, <2>2, Zenon DEF Moves
  <1>15. InFlight'[p] = (z \o x) \o r
    <2>1. InFlight'[p] = Ids(tx_buffer'[Dst[p]]) \o (FreshIds(BurstOf(p)') \o FreshIds(rxq'[p]))
      BY FlightNext DEF IInv
    <2>2. rxq'[p] = Rest(q, t) /\ tx_buffer' = tx_buffer
      BY <1>6 DEF IInv, TypeOK
    <2>3. FreshIds(BurstOf(p)') = x
      BY <1>9, <1>12, Zenon
    <2>4. Associate(z, x, r)
      BY Associates
    <2> QED BY <1>12, <1>13, <2>1, <2>2, <2>3, <2>4, Zenon DEF Associate
  <1>16. z \o x \in Seq(Nat)
    BY ConcatProperties
  <1>17. SentIds'[p] = SentIds[p] /\ SentIds[p] \in Seq(Nat)
    BY <1>6, FlightIs, FlightNext DEF IInv
  <1>18. ASSUME NEW o \in Ports, o # p
         PROVE  InFlight'[o] = InFlight[o] /\ SentIds'[o] = SentIds[o]
    <2>1. BurstOf(o)' = BurstOf(o) /\ rxq'[o] = rxq[o]
      BY <1>6, <1>9, <1>18 DEF IInv, TypeOK
    <2>2. FreshIds(BurstOf(o)') = FreshIds(BurstOf(o)) /\ FreshIds(rxq'[o]) = FreshIds(rxq[o])
      BY <2>1, Zenon
    <2>3. tx_buffer'[Dst[o]] = tx_buffer[Dst[o]] /\ sent'[Dst[o]] = sent[Dst[o]]
      BY <1>6
    <2> QED BY <2>2, <2>3, PortStays DEF IInv
  <1> QED BY <1>6, <1>14, <1>15, <1>16, <1>17, <1>18, LostStep

\* Every step of the forwarder is a step of the channel or none.
LEMMA ChannelNext ==
    IInv /\ IInv' /\ QueueInv /\ [Step]_program => [Channel!Next]_Channel!vars
  <1> SUFFICES ASSUME IInv, IInv', QueueInv, [Step]_program PROVE [Channel!Next]_Channel!vars
    OBVIOUS
  <1>1. ASSUME UNCHANGED <<rx_port_list, pc, cur, burst, tx_buffer, rxq, sent, nframes>>
        PROVE  UNCHANGED Channel!vars
    <2>1. \A k \in Lcores : /\ pc'[k] = "packet" <=> pc[k] = "packet"
                            /\ pc[k] = "packet" => cur'[k] = cur[k] /\ burst'[k] = burst[k]
      BY <1>1
    <2>2. \A p \in Ports : BurstOf(p)' = BurstOf(p)
      BY <1>1, <2>1, BurstStays
    <2>3. \A p \in Ports : FreshIds(BurstOf(p)') = FreshIds(BurstOf(p))
      BY <2>2, Zenon
    <2> QED BY <1>1, <2>3, QuietChannel
  <1>2. ASSUME NEW l \in Lcores, Work(l) PROVE [Channel!Next]_Channel!vars
    <2>1. CASE Enter(l) \/ Quit(l) \/ Poll(l) \/ StartDrain(l)
      BY <2>1, GotoChannel
    <2>2. CASE Drain(l)
      BY <2>2, DrainChannel
    <2>3. CASE RxBurst(l)
      BY <2>3, RxBurstChannel
    <2>4. CASE DecryptPacket(l)
      BY <2>4, DecryptChannel
    <2>5. CASE ForwardPacket(l)
      BY <2>5, ForwardChannel
    <2> QED BY <1>2, <2>1, <2>2, <2>3, <2>4, <2>5 DEF Work
  <1>3. ASSUME NEW p \in Ports, Inject(p) PROVE [Channel!Next]_Channel!vars
    BY <1>3, InjectChannel
  <1>4. CASE Signal \/ CheckLinks \/ WaitLcores \/ ClosePort \/ UNCHANGED program
    <2>1. UNCHANGED <<rx_port_list, pc, cur, burst, tx_buffer, rxq, sent, nframes>>
      BY <1>4 DEF Signal, CheckLinks, WaitLcores, ClosePort, program, threads, wires
    <2> QED BY <1>1, <2>1
  <1> QED BY <1>2, <1>3, <1>4 DEF Step

\* From each port to its peer, frames leave in the order they came in, each at
\* most once, and nothing else leaves: whatever the interleaving of the lcores,
\* the driver's partial transmit bursts, the drain timer, exhausted mbufs and
\* full queues, the forwarder implements the lossy channel.
THEOREM OrderImplemented == Spec => ImplementsLossyFifo
  <1>1. IInv /\ [Next]_vars => IInv'
    BY NextIsStep, StepInv
  <1> QED
    BY <1>1, NextIsStep, QueueInit, QueueNext, ChannelInit, ChannelNext, Invariance, PTL
          DEF Spec, ImplementsLossyFifo, Channel!Spec
=============================================================================
