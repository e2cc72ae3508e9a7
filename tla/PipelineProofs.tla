--------------------------- MODULE PipelineProofs ---------------------------
(***************************************************************************)
(* Proofs about the crypto pipeline (Pipeline), for all finite sets of I/O *)
(* lcores, workers and ports and all sizes. The inductive invariant IInv   *)
(* ties each frame to the ring, batch or queue it is in, each lcore's      *)
(* place in its loop to what it holds, the length of a ring to its size,   *)
(* and main() to the loops. MarksBalance needs more: the register of the   *)
(* lcore that is about to add to the shared counter (MarkInv), and that    *)
(* one lcore does the sending. The last part shows, action by action, that *)
(* with one I/O lcore the pipeline implements LossyFifo.                   *)
(***************************************************************************)
EXTENDS Pipeline, DataLemmas

\* The frames of the model.
Frame ==
    [id : Nat, at : Ports, port : Ports, enc : 0 .. 2, marked : BOOLEAN,
     body : {"plain", "cipher", "empty"}]

\* What a port may receive: a frame of its own that is still untouched, or one
\* the forwarder has encrypted.
Waiting(p) ==
    {f \in Frame : \/ f.marked /\ f.enc = 1
                   \/ ~f.marked /\ f.enc = 0 /\ f.at = p /\ f.port = p}

\* What an I/O lcore hands to a worker, the input port written to the mbuf.
Received ==
    {f \in Frame : \/ f.marked /\ f.enc = 1
                   \/ ~f.marked /\ f.enc = 0 /\ f.at = f.port}

\* What a worker hands back: encrypted once, emptied, the port of the mbuf that
\* of the peer.
Returned ==
    {f \in Frame : f.marked /\ f.enc = 1 /\ f.at = Dst[f.port] /\ f.body = "empty"}

\* What may leave through port q.
Leaving(q) == {f \in Returned : f.port = q}

\* The port a lcore is at.
Polled(l) == RxPortList[l][cur[l]]

\* What the variables range over.
TypeOK ==
    /\ ring_size \in Nat /\ force_quit \in BOOLEAN
    /\ pc \in [IoLcores -> {"top", "rx", "enqueue", "drop", "tx", "group", "send", "sent",
                            "done"}]
    /\ cur \in [IoLcores -> Nat]
    /\ burst \in [IoLcores -> Seq(Received)]
    /\ tx_pkts \in [IoLcores -> Seq(Returned)]
    /\ unsent \in [IoLcores -> Nat] /\ reg \in [IoLcores -> Nat]
    /\ wpc \in [Workers -> {"start", "loop", "crypt", "return", "free", "done"}]
    /\ pkts \in [Workers -> Seq(Received)]
    /\ encrypted_pkts \in [Workers -> Seq(Returned)]
    /\ rx_to_crypto \in [Workers -> Seq(Received)]
    /\ crypto_to_tx \in [Workers -> Seq(Returned)]
    /\ rx_dropped \in [Workers -> Nat] /\ tx_dropped \in [Workers -> Nat]
    /\ encrypted \in [Workers -> Nat] /\ decrypted \in [Workers -> Nat]
    /\ tx_marked \in Nat /\ rx \in [Ports -> Nat] /\ tx \in [Ports -> Nat]
    /\ pool \in Nat /\ nframes \in Nat
    /\ rxq \in [Ports -> Seq(Frame)] /\ sent \in [Ports -> Seq(Frame)]
    /\ main \in {"wait", "exit"}

\* What the kernel holds for a port, and what has left through it.
WireInv == \A p \in Ports : rxq[p] \in Seq(Waiting(p)) /\ sent[p] \in Seq(Leaving(p))

\* Where an I/O lcore is in its port list, and when it holds frames.
IoInv ==
    \A l \in IoLcores :
        /\ pc[l] \in {"rx", "enqueue", "drop"} => cur[l] \in 1 .. Len(RxPortList[l])
        /\ pc[l] \in {"top", "tx", "group", "send"} => cur[l] = 1
        /\ pc[l] = "sent" => cur[l] \in Ports
        /\ burst[l] # <<>> <=> pc[l] \in {"enqueue", "drop"}
        /\ tx_pkts[l] # <<>> => pc[l] \in {"group", "send", "sent"}
        /\ pc[l] \in {"group", "send"} => tx_pkts[l] # <<>>
        /\ pc[l] # "sent" => unsent[l] = 0

\* When a worker holds frames.
WorkerInv ==
    \A w \in Workers :
        /\ pkts[w] # <<>> <=> wpc[w] = "crypt"
        /\ encrypted_pkts[w] # <<>> => wpc[w] \in {"crypt", "return", "free"}
        /\ wpc[w] \in {"return", "free"} => encrypted_pkts[w] # <<>>

\* A ring holds no more than its size.
RingInv ==
    \A w \in Workers :
        Len(rx_to_crypto[w]) <= ring_size /\ Len(crypto_to_tx[w]) <= ring_size

\* Rings as large as the pool: nobody drops, and nobody is about to.
DropInv ==
    NbMbufs <= ring_size =>
        /\ \A l \in IoLcores : pc[l] # "drop"
        /\ \A w \in Workers : wpc[w] # "free" /\ rx_dropped[w] = 0 /\ tx_dropped[w] = 0

\* The inductive invariant.
IInv ==
    /\ TypeOK /\ WireInv /\ IoInv /\ WorkerInv /\ RingInv /\ DropInv
    /\ NothingRunsAfterExit /\ MbufConservation

-----------------------------------------------------------------------------
\* The ring pair the I/O lcores use belongs to a worker.
LEMMA IoPairWorks == IoPair \in Workers
  BY ConfigAssumption DEF IoPair

\* Frames of every kind are frames.
LEMMA FrameSets ==
    /\ Received \subseteq Frame /\ Returned \subseteq Frame
    /\ \A p : Waiting(p) \subseteq Frame /\ Leaving(p) \subseteq Returned
  BY DEF Received, Returned, Waiting, Leaving

\* A frame that leaves may be received again by any port.
LEMMA LeavingIsWaiting ==
    ASSUME NEW p, NEW q, NEW s \in Seq(Leaving(q))
    PROVE  s \in Seq(Waiting(p))
  <1>1. Leaving(q) \subseteq Waiting(p)
    BY DEF Leaving, Returned, Waiting
  <1> QED BY <1>1, SeqMonotonic

\* A lcore in its receive loop is at a port of its list.
LEMMA PolledType ==
    ASSUME TypeOK, IoInv, NEW l \in IoLcores, pc[l] \in {"rx", "enqueue", "drop"}
    PROVE  /\ Polled(l) \in Ports
           /\ cur[l] \in 1 .. Len(RxPortList[l]) /\ Len(RxPortList[l]) \in Nat \ {0}
  <1>1. RxPortList[l] \in Seq(Ports) /\ RxPortList[l] # <<>>
    BY ConfigAssumption
  <1>2. cur[l] \in 1 .. Len(RxPortList[l])
    BY DEF IoInv
  <1> QED BY <1>1, <1>2, ElementOfSeq, EmptySeq DEF Polled

\* Encrypting a frame received and redirecting it makes it one to return.
LEMMA EncryptFacts ==
    ASSUME NEW f \in Received, ~f.marked, NEW ctx
    PROVE  [RealEncrypt(f, ctx) EXCEPT !.port = Dst[@]] \in Returned
  <1>0. EncryptOut(CtxReset(ctx), f.body) = "empty"
    BY DEF EncryptOut, CtxReset
  <1>1. f \in Frame /\ f.enc = 0 /\ f.at = f.port
    BY DEF Received
  <1> DEFINE r1 == [f EXCEPT !.body = "empty"]
             r2 == [r1 EXCEPT !.marked = TRUE]
             e  == IF f.enc = 2 THEN 2 ELSE f.enc + 1
             r3 == [r2 EXCEPT !.enc = e]
  <1>2. r1 \in Frame /\ r1.enc = 0 /\ r1.at = r1.port /\ r1.body = "empty"
    BY <1>1 DEF Frame
  <1>3. r2 \in Frame /\ r2.enc = 0 /\ r2.at = r2.port /\ r2.body = "empty" /\ r2.marked
    <2> HIDE DEF r1
    <2> QED BY <1>2 DEF Frame
  <1>4. r3 \in Frame /\ r3.enc = 1 /\ r3.at = r3.port /\ r3.body = "empty" /\ r3.marked
    <2>1. e = 1
      BY <1>1
    <2> HIDE DEF r2, e
    <2> QED BY <1>3, <2>1 DEF Frame
  <1>5. RealEncrypt(f, ctx) = r3
    BY <1>0, Zenon DEF RealEncrypt
  <1> HIDE DEF r3
  <1> DEFINE r4 == [r3 EXCEPT !.port = Dst[r3.port]]
  <1>6. r3.port \in Ports
    BY <1>4 DEF Frame
  <1>7. Dst[r3.port] \in Ports /\ Dst[Dst[r3.port]] = r3.port
    BY <1>6, ConfigAssumption
  <1>8. r4 \in Frame /\ r4.enc = 1 /\ r4.at = Dst[r4.port] /\ r4.body = "empty" /\ r4.marked
    BY <1>4, <1>7 DEF Frame
  <1>9. r4 \in Returned
    <2> HIDE DEF r4
    <2> QED BY <1>8 DEF Returned
  <1> QED BY <1>5, <1>9

-----------------------------------------------------------------------------
(* Counting mbufs.                                                         *)

\* The mbufs an I/O lcore holds.
HeldIo == [l \in IoLcores |-> Len(burst[l]) + Len(tx_pkts[l]) + unsent[l]]

\* The mbufs a worker and its rings hold.
HeldCrypto ==
    [w \in Workers |-> Len(pkts[w]) + Len(encrypted_pkts[w])
                       + Len(rx_to_crypto[w]) + Len(crypto_to_tx[w])]

\* A sum of three counts.
LEMMA NatSum3 ==
    ASSUME NEW a \in Nat, NEW b \in Nat, NEW c \in Nat
    PROVE  a + b + c \in Nat /\ a <= a + b + c
  OBVIOUS

\* A sum of four counts.
LEMMA NatSum4 ==
    ASSUME NEW a \in Nat, NEW b \in Nat, NEW c \in Nat, NEW d \in Nat
    PROVE  a + b + c + d \in Nat /\ c <= a + b + c + d /\ b + d <= a + b + c + d
  OBVIOUS

\* A sum of two counts.
LEMMA NatSum == \A a, b \in Nat : a + b \in Nat
  OBVIOUS

\* Taking from the first of two counts takes from their sum.
LEMMA LessFirst == \A a, b, n \in Nat : (a - n) + b = (a + b) - n
  OBVIOUS

\* Adding to the first of two counts adds to their sum.
LEMMA MoreFirst == \A a, b, n \in Nat : (a + n) + b = (a + b) + n
  OBVIOUS

\* Taking from the second of two counts takes from their sum.
LEMMA LessLast == \A a, b, n \in Nat : a + (b - n) = (a + b) - n
  OBVIOUS

\* Adding to the second of two counts adds to their sum.
LEMMA MoreLast == \A a, b, n \in Nat : a + (b + n) = (a + b) + n
  OBVIOUS

\* What one count gives another leaves their sum alone.
LEMMA Given ==
    \A x, y, n \in Nat : (x - n) + (y + n) = x + y /\ (x + n) + (y - n) = x + y
  OBVIOUS

\* What an I/O lcore holds is a count.
LEMMA IoTypes ==
    ASSUME NEW b \in [IoLcores -> Seq(Received)], NEW t \in [IoLcores -> Seq(Returned)],
           NEW u \in [IoLcores -> Nat]
    PROVE  /\ \A l \in IoLcores : /\ Len(b[l]) \in Nat /\ Len(t[l]) \in Nat /\ u[l] \in Nat
                                  /\ Len(b[l]) <= Len(b[l]) + Len(t[l]) + u[l]
           /\ [l \in IoLcores |-> Len(b[l]) + Len(t[l]) + u[l]] \in [IoLcores -> Nat]
  <1>1. ASSUME NEW l \in IoLcores
        PROVE  /\ Len(b[l]) \in Nat /\ Len(t[l]) \in Nat /\ u[l] \in Nat
               /\ Len(b[l]) <= Len(b[l]) + Len(t[l]) + u[l]
               /\ Len(b[l]) + Len(t[l]) + u[l] \in Nat
    <2>1. Len(b[l]) \in Nat /\ Len(t[l]) \in Nat /\ u[l] \in Nat
      BY LenProperties
    <2> QED BY <2>1, NatSum3, Zenon
  <1> QED BY <1>1

\* What a worker and its rings hold is a count, no less than its parts.
LEMMA CryptoTypes ==
    ASSUME NEW p \in [Workers -> Seq(Received)], NEW e \in [Workers -> Seq(Returned)],
           NEW r \in [Workers -> Seq(Received)], NEW c \in [Workers -> Seq(Returned)]
    PROVE  /\ \A w \in Workers :
                 /\ Len(p[w]) \in Nat /\ Len(e[w]) \in Nat
                 /\ Len(r[w]) \in Nat /\ Len(c[w]) \in Nat
                 /\ Len(r[w]) <= Len(p[w]) + Len(e[w]) + Len(r[w]) + Len(c[w])
                 /\ Len(e[w]) + Len(c[w]) <= Len(p[w]) + Len(e[w]) + Len(r[w]) + Len(c[w])
           /\ [w \in Workers |-> Len(p[w]) + Len(e[w]) + Len(r[w]) + Len(c[w])]
                 \in [Workers -> Nat]
  <1>1. ASSUME NEW w \in Workers
        PROVE  /\ Len(p[w]) \in Nat /\ Len(e[w]) \in Nat
               /\ Len(r[w]) \in Nat /\ Len(c[w]) \in Nat
               /\ Len(r[w]) <= Len(p[w]) + Len(e[w]) + Len(r[w]) + Len(c[w])
               /\ Len(e[w]) + Len(c[w]) <= Len(p[w]) + Len(e[w]) + Len(r[w]) + Len(c[w])
               /\ Len(p[w]) + Len(e[w]) + Len(r[w]) + Len(c[w]) \in Nat
    <2>1. Len(p[w]) \in Nat /\ Len(e[w]) \in Nat /\ Len(r[w]) \in Nat /\ Len(c[w]) \in Nat
      BY LenProperties
    <2> QED BY <2>1, NatSum4, Zenon
  <1> QED BY <1>1

\* The counts of mbufs held, and their sums, in a state that is type correct.
LEMMA HeldTypes ==
    ASSUME TypeOK
    PROVE  /\ HeldIo \in [IoLcores -> Nat] /\ HeldCrypto \in [Workers -> Nat]
           /\ SumFunction(HeldIo) \in Nat /\ SumFunction(HeldCrypto) \in Nat
           /\ \A l \in IoLcores :
                 /\ Len(burst[l]) \in Nat /\ Len(tx_pkts[l]) \in Nat /\ unsent[l] \in Nat
                 /\ Len(burst[l]) <= HeldIo[l]
           /\ \A w \in Workers :
                 /\ Len(pkts[w]) \in Nat /\ Len(encrypted_pkts[w]) \in Nat
                 /\ Len(rx_to_crypto[w]) \in Nat /\ Len(crypto_to_tx[w]) \in Nat
                 /\ Len(rx_to_crypto[w]) <= HeldCrypto[w]
                 /\ Len(encrypted_pkts[w]) + Len(crypto_to_tx[w]) <= HeldCrypto[w]
  <1>1. /\ HeldIo \in [IoLcores -> Nat]
        /\ \A l \in IoLcores :
              /\ Len(burst[l]) \in Nat /\ Len(tx_pkts[l]) \in Nat /\ unsent[l] \in Nat
              /\ Len(burst[l]) <= Len(burst[l]) + Len(tx_pkts[l]) + unsent[l]
    BY IoTypes DEF TypeOK, HeldIo
  <1>2. /\ HeldCrypto \in [Workers -> Nat]
        /\ \A w \in Workers :
              /\ Len(pkts[w]) \in Nat /\ Len(encrypted_pkts[w]) \in Nat
              /\ Len(rx_to_crypto[w]) \in Nat /\ Len(crypto_to_tx[w]) \in Nat
              /\ Len(rx_to_crypto[w]) <= Len(pkts[w]) + Len(encrypted_pkts[w])
                                            + Len(rx_to_crypto[w]) + Len(crypto_to_tx[w])
              /\ Len(encrypted_pkts[w]) + Len(crypto_to_tx[w])
                    <= Len(pkts[w]) + Len(encrypted_pkts[w])
                         + Len(rx_to_crypto[w]) + Len(crypto_to_tx[w])
    BY CryptoTypes DEF TypeOK, HeldCrypto
  <1>3. /\ \A l \in IoLcores : HeldIo[l] = Len(burst[l]) + Len(tx_pkts[l]) + unsent[l]
        /\ \A w \in Workers : HeldCrypto[w] = Len(pkts[w]) + Len(encrypted_pkts[w])
                                             + Len(rx_to_crypto[w]) + Len(crypto_to_tx[w])
    BY DEF HeldIo, HeldCrypto
  <1>4. SumFunction(HeldIo) \in Nat /\ SumFunction(HeldCrypto) \in Nat
    BY <1>1, <1>2, SumNat, LcoreAssumption DEF SumFunction
  <1> QED BY <1>1, <1>2, <1>3, <1>4, Zenon

\* The same after a step.
LEMMA HeldNext ==
    ASSUME TypeOK'
    PROVE  HeldIo' \in [IoLcores -> Nat] /\ HeldCrypto' \in [Workers -> Nat]
  <1>1. /\ burst' \in [IoLcores -> Seq(Received)] /\ tx_pkts' \in [IoLcores -> Seq(Returned)]
        /\ unsent' \in [IoLcores -> Nat]
    BY DEF TypeOK
  <1>2. /\ pkts' \in [Workers -> Seq(Received)] /\ encrypted_pkts' \in [Workers -> Seq(Returned)]
        /\ rx_to_crypto' \in [Workers -> Seq(Received)]
        /\ crypto_to_tx' \in [Workers -> Seq(Returned)]
    BY DEF TypeOK
  <1>3. HeldIo' \in [IoLcores -> Nat]
    <2>1. [l \in IoLcores |-> Len(burst'[l]) + Len(tx_pkts'[l]) + unsent'[l]]
            \in [IoLcores -> Nat]
      BY <1>1, IoTypes
    <2> QED BY <2>1 DEF HeldIo
  <1>4. HeldCrypto' \in [Workers -> Nat]
    <2>1. [w \in Workers |-> Len(pkts'[w]) + Len(encrypted_pkts'[w])
                              + Len(rx_to_crypto'[w]) + Len(crypto_to_tx'[w])]
            \in [Workers -> Nat]
      BY <1>2, CryptoTypes
    <2> QED BY <2>1 DEF HeldCrypto
  <1> QED BY <1>3, <1>4

\* When one I/O lcore moves, the sum over all changes by its share.
LEMMA IoChange ==
    ASSUME TypeOK, TypeOK', NEW l \in IoLcores,
           \A k \in IoLcores : k # l => /\ burst'[k] = burst[k] /\ tx_pkts'[k] = tx_pkts[k]
                                        /\ unsent'[k] = unsent[k]
    PROVE  SumFunction(HeldIo') = SumFunction(HeldIo) + (HeldIo'[l] - HeldIo[l])
  <1>1. HeldIo \in [IoLcores -> Int] /\ HeldIo' \in [IoLcores -> Int]
    <2>1. HeldIo \in [IoLcores -> Nat] /\ HeldIo' \in [IoLcores -> Nat]
      BY HeldTypes, HeldNext
    <2> QED BY <2>1
  <1>2. \A k \in IoLcores : k # l => HeldIo'[k] = HeldIo[k]
    BY DEF HeldIo
  <1> QED BY <1>1, <1>2, SumChange, LcoreAssumption

\* When one worker or its rings change, the sum over all changes by its share.
LEMMA CryptoChange ==
    ASSUME TypeOK, TypeOK', NEW w \in Workers,
           \A k \in Workers : k # w =>
              /\ pkts'[k] = pkts[k] /\ encrypted_pkts'[k] = encrypted_pkts[k]
              /\ rx_to_crypto'[k] = rx_to_crypto[k] /\ crypto_to_tx'[k] = crypto_to_tx[k]
    PROVE  SumFunction(HeldCrypto') =
             SumFunction(HeldCrypto) + (HeldCrypto'[w] - HeldCrypto[w])
  <1>1. HeldCrypto \in [Workers -> Int] /\ HeldCrypto' \in [Workers -> Int]
    <2>1. HeldCrypto \in [Workers -> Nat] /\ HeldCrypto' \in [Workers -> Nat]
      BY HeldTypes, HeldNext
    <2> QED BY <2>1
  <1>2. \A k \in Workers : k # w => HeldCrypto'[k] = HeldCrypto[k]
    BY DEF HeldCrypto
  <1> QED BY <1>1, <1>2, SumChange, LcoreAssumption

\* What one lcore and the rings it uses gain, the pool loses.
LEMMA IoConserves ==
    ASSUME TypeOK, TypeOK', MbufConservation, NEW l \in IoLcores,
           \A k \in IoLcores : k # l => /\ burst'[k] = burst[k] /\ tx_pkts'[k] = tx_pkts[k]
                                        /\ unsent'[k] = unsent[k],
           UNCHANGED <<pkts, encrypted_pkts, rx_to_crypto, crypto_to_tx>>,
           pool' + HeldIo'[l] = pool + HeldIo[l]
    PROVE  MbufConservation'
  <1>1. SumFunction(HeldIo') = SumFunction(HeldIo) + (HeldIo'[l] - HeldIo[l])
    BY IoChange
  <1>2. HeldCrypto' = HeldCrypto
    BY DEF HeldCrypto
  <1>3. NbMbufs = pool + SumFunction(HeldIo) + SumFunction(HeldCrypto)
    BY DEF MbufConservation, HeldIo, HeldCrypto
  <1>4. /\ pool \in Nat /\ pool' \in Nat /\ HeldIo[l] \in Nat /\ HeldIo'[l] \in Nat
        /\ SumFunction(HeldIo) \in Nat /\ SumFunction(HeldCrypto) \in Nat
    <2>1. HeldIo' \in [IoLcores -> Nat] /\ HeldCrypto' \in [Workers -> Nat]
      BY HeldNext
    <2> QED BY <2>1, HeldTypes DEF TypeOK
  <1>5. NbMbufs = pool' + SumFunction(HeldIo') + SumFunction(HeldCrypto')
    BY <1>1, <1>2, <1>3, <1>4
  <1> QED BY <1>5 DEF MbufConservation, HeldIo, HeldCrypto

\* What one worker gains, the pool loses.
LEMMA WorkerConserves ==
    ASSUME TypeOK, TypeOK', MbufConservation, NEW w \in Workers,
           \A k \in Workers : k # w =>
              /\ pkts'[k] = pkts[k] /\ encrypted_pkts'[k] = encrypted_pkts[k]
              /\ rx_to_crypto'[k] = rx_to_crypto[k] /\ crypto_to_tx'[k] = crypto_to_tx[k],
           UNCHANGED <<burst, tx_pkts, unsent>>,
           pool' + HeldCrypto'[w] = pool + HeldCrypto[w]
    PROVE  MbufConservation'
  <1>1. SumFunction(HeldCrypto') = SumFunction(HeldCrypto) + (HeldCrypto'[w] - HeldCrypto[w])
    BY CryptoChange
  <1>2. HeldIo' = HeldIo
    BY DEF HeldIo
  <1>3. NbMbufs = pool + SumFunction(HeldIo) + SumFunction(HeldCrypto)
    BY DEF MbufConservation, HeldIo, HeldCrypto
  <1>4. /\ pool \in Nat /\ pool' \in Nat /\ HeldCrypto[w] \in Nat /\ HeldCrypto'[w] \in Nat
        /\ SumFunction(HeldIo) \in Nat /\ SumFunction(HeldCrypto) \in Nat
    <2>1. HeldIo' \in [IoLcores -> Nat] /\ HeldCrypto' \in [Workers -> Nat]
      BY HeldNext
    <2> QED BY <2>1, HeldTypes DEF TypeOK
  <1>5. NbMbufs = pool' + SumFunction(HeldIo') + SumFunction(HeldCrypto')
    BY <1>1, <1>2, <1>3, <1>4
  <1> QED BY <1>5 DEF MbufConservation, HeldIo, HeldCrypto

\* What one I/O lcore gives to a ring or takes from it leaves the pool alone.
LEMMA RingConserves ==
    ASSUME TypeOK, TypeOK', MbufConservation, NEW l \in IoLcores,
           \A k \in IoLcores : k # l => /\ burst'[k] = burst[k] /\ tx_pkts'[k] = tx_pkts[k]
                                        /\ unsent'[k] = unsent[k],
           \A k \in Workers : k # IoPair => /\ rx_to_crypto'[k] = rx_to_crypto[k]
                                            /\ crypto_to_tx'[k] = crypto_to_tx[k],
           UNCHANGED <<pkts, encrypted_pkts, pool>>,
           HeldIo'[l] + HeldCrypto'[IoPair] = HeldIo[l] + HeldCrypto[IoPair]
    PROVE  MbufConservation'
  <1>1. SumFunction(HeldIo') = SumFunction(HeldIo) + (HeldIo'[l] - HeldIo[l])
    BY IoChange
  <1>2. SumFunction(HeldCrypto') =
          SumFunction(HeldCrypto) + (HeldCrypto'[IoPair] - HeldCrypto[IoPair])
    BY CryptoChange, IoPairWorks
  <1>3. NbMbufs = pool + SumFunction(HeldIo) + SumFunction(HeldCrypto)
    BY DEF MbufConservation, HeldIo, HeldCrypto
  <1>4. /\ pool \in Nat /\ HeldCrypto[IoPair] \in Nat /\ HeldCrypto'[IoPair] \in Nat
        /\ HeldIo[l] \in Nat /\ HeldIo'[l] \in Nat
        /\ SumFunction(HeldIo) \in Nat /\ SumFunction(HeldCrypto) \in Nat
    <2>1. HeldIo' \in [IoLcores -> Nat] /\ HeldCrypto' \in [Workers -> Nat]
      BY HeldNext
    <2> QED BY <2>1, HeldTypes, IoPairWorks DEF TypeOK
  <1>5. NbMbufs = pool' + SumFunction(HeldIo') + SumFunction(HeldCrypto')
    <2>1. PICK a \in Nat : a = HeldIo[l]
      BY <1>4, Zenon
    <2>2. PICK b \in Nat : b = HeldIo'[l]
      BY <1>4, Zenon
    <2>3. PICK c \in Nat : c = HeldCrypto[IoPair]
      BY <1>4, Zenon
    <2>4. PICK d \in Nat : d = HeldCrypto'[IoPair]
      BY <1>4, Zenon
    <2>5. PICK s \in Nat : s = SumFunction(HeldIo)
      BY <1>4, Zenon
    <2>6. PICK t \in Nat : t = SumFunction(HeldCrypto)
      BY <1>4, Zenon
    <2>7. b + d = a + c
      BY <2>1, <2>2, <2>3, <2>4, Zenon
    <2>8. PICK p \in Nat : p = pool
      BY <1>4, Zenon
    <2>9. p + (s + (b - a)) + (t + (d - c)) = p + s + t
      BY <2>7
    <2>10. /\ SumFunction(HeldIo') = s + (b - a)
           /\ SumFunction(HeldCrypto') = t + (d - c)
           /\ NbMbufs = p + s + t
           /\ pool' = p
      BY <1>1, <1>2, <1>3, <2>1, <2>2, <2>3, <2>4, <2>5, <2>6, <2>8, Zenon
    <2> QED BY <2>9, <2>10, Zenon
  <1> QED BY <1>5 DEF MbufConservation, HeldIo, HeldCrypto

\* A step that moves no mbuf conserves them.
LEMMA StillConserved ==
    ASSUME MbufConservation,
           UNCHANGED <<burst, tx_pkts, unsent, pkts, encrypted_pkts, rx_to_crypto, crypto_to_tx,
                       pool>>
    PROVE  MbufConservation'
  BY DEF MbufConservation

\* Two counts in different sums add up to no more than the pool.
LEMMA AtMost ==
    ASSUME NEW a \in Nat, NEW b \in Nat, NEW g \in Nat, NEW h \in Nat,
           NEW p \in Nat, NEW s \in Nat, NEW t \in Nat, NEW n,
           a <= g, b <= h, g <= s, h <= t, n = p + s + t
    PROVE  a + b <= n
  OBVIOUS

\* Two counts in one sum add up to no more than the pool.
LEMMA AtMost2 ==
    ASSUME NEW a \in Nat, NEW b \in Nat, NEW h \in Nat,
           NEW p \in Nat, NEW s \in Nat, NEW t \in Nat, NEW n,
           a + b <= h, h <= t, n = p + s + t
    PROVE  a + b <= n
  OBVIOUS

\* A batch of a lcore and a ring together hold no more than there are mbufs.
LEMMA HeldAtMost ==
    ASSUME TypeOK, MbufConservation
    PROVE  /\ \A l \in IoLcores, w \in Workers :
                 Len(burst[l]) + Len(rx_to_crypto[w]) <= NbMbufs
           /\ \A w \in Workers : Len(encrypted_pkts[w]) + Len(crypto_to_tx[w]) <= NbMbufs
  <1>1. NbMbufs = pool + SumFunction(HeldIo) + SumFunction(HeldCrypto)
    BY DEF MbufConservation, HeldIo, HeldCrypto
  <1>2. /\ pool \in Nat /\ SumFunction(HeldIo) \in Nat /\ SumFunction(HeldCrypto) \in Nat
    BY HeldTypes DEF TypeOK
  <1>3. ASSUME NEW l \in IoLcores PROVE HeldIo[l] <= SumFunction(HeldIo)
    BY HeldTypes, SumAtLeast, LcoreAssumption DEF SumFunction
  <1>4. ASSUME NEW w \in Workers PROVE HeldCrypto[w] <= SumFunction(HeldCrypto)
    BY HeldTypes, SumAtLeast, LcoreAssumption DEF SumFunction
  <1>5. ASSUME NEW l \in IoLcores, NEW w \in Workers
        PROVE  Len(burst[l]) + Len(rx_to_crypto[w]) <= NbMbufs
    <2>1. /\ Len(burst[l]) \in Nat /\ Len(burst[l]) <= HeldIo[l] /\ HeldIo[l] \in Nat
          /\ Len(rx_to_crypto[w]) \in Nat /\ Len(rx_to_crypto[w]) <= HeldCrypto[w]
          /\ HeldCrypto[w] \in Nat
      BY HeldTypes
    <2>2. HeldIo[l] <= SumFunction(HeldIo) /\ HeldCrypto[w] <= SumFunction(HeldCrypto)
      BY <1>3, <1>4
    <2> QED BY <1>1, <1>2, <2>1, <2>2, AtMost, Zenon
  <1>6. ASSUME NEW w \in Workers
        PROVE  Len(encrypted_pkts[w]) + Len(crypto_to_tx[w]) <= NbMbufs
    <2>1. /\ Len(encrypted_pkts[w]) \in Nat /\ Len(crypto_to_tx[w]) \in Nat
          /\ HeldCrypto[w] \in Nat
          /\ Len(encrypted_pkts[w]) + Len(crypto_to_tx[w]) <= HeldCrypto[w]
      BY HeldTypes
    <2>2. HeldCrypto[w] <= SumFunction(HeldCrypto)
      BY <1>4
    <2> DEFINE a == Len(encrypted_pkts[w])
               b == Len(crypto_to_tx[w])
               h == HeldCrypto[w]
    <2>3. \A s, t, p \in Nat : h <= t /\ NbMbufs = p + s + t => a + b <= NbMbufs
      <3> HIDE DEF a, b, h
      <3> SUFFICES ASSUME NEW s \in Nat, NEW t \in Nat, NEW p \in Nat,
                          h <= t, NbMbufs = p + s + t
                   PROVE  a + b <= NbMbufs
        OBVIOUS
      <3> QED BY <2>1, AtMost2 DEF a, b, h
    <2> QED BY <1>1, <1>2, <2>2, <2>3, Zenon
  <1> QED BY <1>5, <1>6

-----------------------------------------------------------------------------
(* The steps of an I/O lcore.                                              *)

\* The head of the I/O loop keeps the invariant.
LEMMA TopStep == ASSUME IInv, NEW l \in IoLcores, Top(l) PROVE IInv'
  <1> USE DEF Top, workers, rings, counters, wires
  <1>1. TypeOK'
    BY DEF IInv, TypeOK
  <1>2. WireInv' /\ WorkerInv' /\ RingInv'
    BY DEF IInv, WireInv, WorkerInv, RingInv
  <1>3. IoInv'
    <2>1. RxPortList[l] \in Seq(Ports) /\ RxPortList[l] # <<>>
      BY ConfigAssumption
    <2>2. 1 \in 1 .. Len(RxPortList[l])
      BY <2>1, EmptySeq
    <2> QED BY <2>2 DEF IInv, IoInv, TypeOK
  <1>4. DropInv'
    BY DEF IInv, DropInv, TypeOK
  <1>5. NothingRunsAfterExit'
    BY DEF IInv, NothingRunsAfterExit, TypeOK
  <1>6. MbufConservation'
    BY StillConserved DEF IInv
  <1> QED BY <1>1, <1>2, <1>3, <1>4, <1>5, <1>6 DEF IInv

\* What NextPort() leaves behind.
LEMMA NextPortFacts ==
    ASSUME IInv, NEW l \in IoLcores, pc[l] \in {"rx", "enqueue", "drop"}, NextPort(l)
    PROVE  /\ pc' = [pc EXCEPT ![l] = pc'[l]] /\ pc'[l] \in {"rx", "tx"}
           /\ cur' = [cur EXCEPT ![l] = cur'[l]]
           /\ cur'[l] \in Nat /\ cur'[l] \in 1 .. Len(RxPortList[l])
           /\ pc'[l] = "tx" => cur'[l] = 1
  <1>1. /\ cur[l] \in 1 .. Len(RxPortList[l]) /\ Len(RxPortList[l]) \in Nat \ {0}
        /\ cur[l] \in Nat
    BY PolledType DEF IInv, TypeOK
  <1>2. CASE cur[l] < Len(RxPortList[l])
    <2>1. cur' = [cur EXCEPT ![l] = cur[l] + 1] /\ pc' = [pc EXCEPT ![l] = "rx"]
      BY <1>2 DEF NextPort
    <2>2. cur[l] + 1 \in 1 .. Len(RxPortList[l])
      BY <1>1, <1>2
    <2> QED BY <1>1, <2>1, <2>2 DEF IInv, TypeOK
  <1>3. CASE ~(cur[l] < Len(RxPortList[l]))
    <2>1. cur' = [cur EXCEPT ![l] = 1] /\ pc' = [pc EXCEPT ![l] = "tx"]
      BY <1>3 DEF NextPort
    <2>2. 1 \in 1 .. Len(RxPortList[l])
      BY <1>1
    <2> QED BY <1>1, <2>1, <2>2 DEF IInv, TypeOK
  <1> QED BY <1>2, <1>3

\* A frame taken from the kernel of port p, with the port written to its mbuf.
LEMMA PortWritten ==
    ASSUME NEW p \in Ports, NEW f \in Waiting(p)
    PROVE  [f EXCEPT !.port = p] \in Received
  <1> DEFINE g == [f EXCEPT !.port = p]
  <1>1. f \in Frame
    BY DEF Waiting
  <1>2. g \in Frame /\ g.enc = f.enc /\ g.at = f.at /\ g.marked = f.marked /\ g.port = p
    BY <1>1 DEF Frame
  <1>3. (f.marked /\ f.enc = 1) \/ (~f.marked /\ f.enc = 0 /\ f.at = p)
    BY DEF Waiting
  <1> HIDE DEF g
  <1>4. g \in Received
    BY <1>2, <1>3 DEF Received
  <1> QED BY <1>4 DEF g

\* What a receive burst takes from the kernel and hands to the lcore.
LEMMA RxBurstFacts ==
    ASSUME IInv, NEW l \in IoLcores, RxBurst(l)
    PROVE  LET p == Polled(l)
               n == RxCount(Len(rxq[p]), BurstSize, pool)
               b == [i \in 1 .. n |-> [rxq[p][i] EXCEPT !.port = p]]
           IN  /\ pc[l] = "rx" /\ p \in Ports /\ n \in Nat /\ n <= pool
               /\ rxq' \in [Ports -> Seq(Frame)]
               /\ \A r \in Ports : rxq'[r] \in Seq(Waiting(r))
               /\ b \in Seq(Received) /\ Len(b) = n
  <1> DEFINE p == Polled(l)
             len == Len(rxq[p])
             n == RxCount(len, BurstSize, pool)
             t == RxTaken(len, BurstSize, pool)
             b == [i \in 1 .. n |-> [rxq[p][i] EXCEPT !.port = p]]
  <1>1. pc[l] = "rx" /\ p \in Ports
    BY PolledType DEF RxBurst, IInv
  <1>2. rxq[p] \in Seq(Waiting(p)) /\ len \in Nat
    BY <1>1, LenProperties DEF IInv, WireInv
  <1>3. n \in 0 .. len /\ n <= pool /\ t \in n .. len
    <2> HIDE DEF len
    <2> QED BY <1>2, RxCountFacts, SizeAssumption DEF IInv, TypeOK
  <1>4. rxq' = [rxq EXCEPT ![p] = Rest(rxq[p], t)]
    BY DEF RxBurst, Polled
  <1> HIDE DEF p, n, t
  <1>5. Rest(rxq[p], t) \in Seq(Waiting(p))
    <2>1. t \in 0 .. Len(rxq[p])
      BY <1>2, <1>3
    <2> QED BY <1>2, <2>1, TakenFacts
  <1>6. b \in Seq(Received) /\ Len(b) = n
    <2>1. \A i \in 1 .. n : [rxq[p][i] EXCEPT !.port = p] \in Received
      <3> TAKE i \in 1 .. n
      <3>1. i \in 1 .. Len(rxq[p])
        BY <1>2, <1>3
      <3>2. rxq[p][i] \in Waiting(p)
        BY <1>2, <3>1, ElementOfSeq
      <3> QED BY <1>1, <3>2, PortWritten
    <2>2. b \in [1 .. n -> Received] /\ n \in Nat
      BY <1>3, <2>1
    <2> HIDE DEF b
    <2> QED BY <2>2
  <1>7. \A r \in Ports : rxq'[r] \in Seq(Waiting(r))
    BY <1>1, <1>4, <1>5 DEF IInv, TypeOK, WireInv
  <1>8. rxq' \in [Ports -> Seq(Frame)]
    <2>1. Rest(rxq[p], t) \in Seq(Frame)
      BY <1>5, FrameSets, SeqMonotonic
    <2> QED BY <1>1, <1>4, <2>1 DEF IInv, TypeOK
  <1> QED
    BY <1>1, <1>3, <1>6, <1>7, <1>8 DEF p, n

\* Receiving a burst keeps the invariant.
LEMMA RxBurstStep == ASSUME IInv, NEW l \in IoLcores, RxBurst(l) PROVE IInv'
  <1> DEFINE p == Polled(l)
             n == RxCount(Len(rxq[p]), BurstSize, pool)
             b == [i \in 1 .. n |-> [rxq[p][i] EXCEPT !.port = p]]
  <1>1. /\ pc[l] = "rx" /\ p \in Ports /\ n \in Nat /\ n <= pool
        /\ rxq' \in [Ports -> Seq(Frame)]
        /\ \A r \in Ports : rxq'[r] \in Seq(Waiting(r))
        /\ b \in Seq(Received) /\ Len(b) = n
    BY RxBurstFacts
  <1>2. UNCHANGED <<tx_pkts, unsent, reg, wpc, pkts, encrypted_pkts, encrypt_ctx, decrypt_ctx,
                    ring_size, rx_to_crypto, crypto_to_tx, rx_dropped, tx_dropped, encrypted,
                    decrypted, tx_marked, tx, sent, nframes, force_quit, main>>
    BY DEF RxBurst, workers, rings
  <1>3. WireInv' /\ WorkerInv' /\ RingInv'
    BY <1>1, <1>2 DEF IInv, WireInv, WorkerInv, RingInv
  <1>4. CASE n = 0
    <2>1. NextPort(l) /\ UNCHANGED <<burst, pool, rx>>
      BY <1>4 DEF RxBurst, Polled
    <2>2. /\ pc' = [pc EXCEPT ![l] = pc'[l]] /\ pc'[l] \in {"rx", "tx"}
          /\ cur' = [cur EXCEPT ![l] = cur'[l]]
          /\ cur'[l] \in Nat /\ cur'[l] \in 1 .. Len(RxPortList[l])
          /\ pc'[l] = "tx" => cur'[l] = 1
      BY <1>1, <2>1, NextPortFacts
    <2> HIDE DEF p, n, b
    <2>3. TypeOK'
      <3>1. pc' \in [IoLcores -> {"top", "rx", "enqueue", "drop", "tx", "group", "send",
                                  "sent", "done"}]
        BY <2>2 DEF IInv, TypeOK
      <3>2. cur' \in [IoLcores -> Nat]
        BY <2>2 DEF IInv, TypeOK
      <3> QED BY <1>1, <1>2, <2>1, <3>1, <3>2 DEF IInv, TypeOK
    <2>4. IoInv'
      <3>1. \A k \in IoLcores : k # l => pc'[k] = pc[k] /\ cur'[k] = cur[k]
        BY <2>2 DEF IInv, TypeOK
      <3> QED BY <1>1, <1>2, <2>1, <2>2, <3>1 DEF IInv, IoInv
    <2>5. DropInv'
      BY <1>2, <2>2 DEF IInv, DropInv, TypeOK
    <2>6. NothingRunsAfterExit'
      BY <1>1, <1>2 DEF IInv, NothingRunsAfterExit
    <2>7. MbufConservation'
      BY <1>2, <2>1, StillConserved DEF IInv
    <2> QED BY <1>3, <2>3, <2>4, <2>5, <2>6, <2>7 DEF IInv
  <1>5. CASE n # 0
    <2>1. /\ burst' = [burst EXCEPT ![l] = b]
          /\ pool' = pool - n
          /\ rx' = [rx EXCEPT ![p] = rx[p] + n]
          /\ pc' = [pc EXCEPT ![l] = "enqueue"]
          /\ UNCHANGED cur
      BY <1>5 DEF RxBurst, Polled
    <2>2. burst[l] = <<>> /\ Len(burst[l]) = 0
      BY <1>1, EmptySeq DEF IInv, IoInv
    <2>3. b # <<>>
      BY <1>1, <1>5, EmptySeq
    <2> HIDE DEF p, n, b
    <2>4. TypeOK'
      <3>1. rx[p] + n \in Nat /\ pool' \in Nat
        BY <1>1, <2>1 DEF IInv, TypeOK
      <3> QED BY <1>1, <1>2, <2>1, <3>1 DEF IInv, TypeOK
    <2>5. IoInv'
      BY <1>1, <1>2, <2>1, <2>3 DEF IInv, IoInv, TypeOK
    <2>6. DropInv'
      BY <1>2, <2>1 DEF IInv, DropInv, TypeOK
    <2>7. NothingRunsAfterExit'
      BY <1>1, <1>2 DEF IInv, NothingRunsAfterExit
    <2>8. MbufConservation'
      <3>1. Len(burst'[l]) = n /\ tx_pkts'[l] = tx_pkts[l] /\ unsent'[l] = unsent[l]
        BY <1>1, <1>2, <2>1 DEF IInv, TypeOK
      <3>2. /\ HeldIo'[l] = n + Len(tx_pkts[l]) + unsent[l]
            /\ HeldIo[l] = 0 + Len(tx_pkts[l]) + unsent[l]
        BY <2>2, <3>1, Zenon DEF HeldIo
      <3>3. Len(tx_pkts[l]) \in Nat /\ unsent[l] \in Nat /\ pool \in Nat
        BY HeldTypes DEF IInv, TypeOK
      <3>4. (pool - n) + (n + Len(tx_pkts[l]) + unsent[l])
              = pool + (0 + Len(tx_pkts[l]) + unsent[l])
        <4>1. n \in Nat /\ n <= pool
          BY <1>1
        <4>2. pool \in Nat /\ Len(tx_pkts[l]) \in Nat /\ unsent[l] \in Nat
          BY <3>3
        <4> HIDE <1>1, <3>3
        <4> QED BY <4>1, <4>2
      <3>5. pool' + HeldIo'[l] = pool + HeldIo[l]
        BY <2>1, <3>2, <3>4, Zenon
      <3>6. \A k \in IoLcores : k # l => /\ burst'[k] = burst[k] /\ tx_pkts'[k] = tx_pkts[k]
                                         /\ unsent'[k] = unsent[k]
        BY <1>2, <2>1 DEF IInv, TypeOK
      <3> QED BY <1>2, <2>4, <3>5, <3>6, IoConserves DEF IInv
    <2> QED BY <1>3, <2>4, <2>5, <2>6, <2>7, <2>8 DEF IInv
  <1> QED BY <1>4, <1>5

\* What rte_ring_enqueue_burst() moves, and what it leaves.
LEMMA EnqueuedFacts ==
    ASSUME NEW F, NEW ring \in Seq(F), NEW fs \in Seq(F), ring_size \in Nat,
           Len(ring) <= ring_size
    PROVE  LET n == Enqueued(ring, fs) IN
           /\ n \in 0 .. Len(fs)
           /\ Len(ring) + Len(fs) <= ring_size => n = Len(fs)
           /\ ring \o SubSeq(fs, 1, n) \in Seq(F)
           /\ Len(ring \o SubSeq(fs, 1, n)) = Len(ring) + n
           /\ Len(ring) + n <= ring_size
           /\ Rest(fs, n) \in Seq(F) /\ Len(Rest(fs, n)) = Len(fs) - n
  <1>1. Len(ring) \in Nat /\ Len(fs) \in Nat
    BY LenProperties
  <1>2. Room(ring) \in Nat /\ Room(ring) = ring_size - Len(ring)
    BY <1>1 DEF Room
  <1> DEFINE n == Enqueued(ring, fs)
  <1>3. n \in {Len(fs), Room(ring)} /\ n <= Len(fs) /\ n <= Room(ring)
    <2>1. \A a, b \in Nat : Min({a, b}) \in {a, b} /\ Min({a, b}) <= a /\ Min({a, b}) <= b
      BY MinOfTwo
    <2> QED BY <1>1, <1>2, <2>1, Zenon DEF Enqueued
  <1> HIDE DEF n
  <1>4. /\ n \in 0 .. Len(fs) /\ Len(ring) + n <= ring_size
        /\ Len(ring) + Len(fs) <= ring_size => n = Len(fs)
    BY <1>1, <1>2, <1>3
  <1>5. /\ Taken(fs, n) \in Seq(F) /\ Len(Taken(fs, n)) = n
        /\ Rest(fs, n) \in Seq(F) /\ Len(Rest(fs, n)) = Len(fs) - n
    BY <1>4, TakenFacts
  <1>6. ring \o Taken(fs, n) \in Seq(F) /\ Len(ring \o Taken(fs, n)) = Len(ring) + n
    BY <1>5, ConcatProperties
  <1> QED BY <1>4, <1>5, <1>6 DEF n, Taken

\* What rte_ring_dequeue_burst() takes, and what it leaves.
LEMMA DequeuedFacts ==
    ASSUME NEW F, NEW ring \in Seq(F)
    PROVE  LET n == Dequeued(ring) IN
           /\ n \in 0 .. Len(ring) /\ n \in Nat
           /\ SubSeq(ring, 1, n) \in Seq(F) /\ Len(SubSeq(ring, 1, n)) = n
           /\ Rest(ring, n) \in Seq(F) /\ Len(Rest(ring, n)) = Len(ring) - n
           /\ SubSeq(ring, 1, n) # <<>> <=> n > 0
  <1>1. Len(ring) \in Nat /\ BurstSize \in Nat
    BY LenProperties, SizeAssumption
  <1> DEFINE n == Dequeued(ring)
  <1>2. n \in {BurstSize, Len(ring)} /\ n <= Len(ring)
    <2>1. \A a, b \in Nat : Min({a, b}) \in {a, b} /\ Min({a, b}) <= a /\ Min({a, b}) <= b
      BY MinOfTwo
    <2> QED BY <1>1, <2>1, Zenon DEF Dequeued
  <1> HIDE DEF n
  <1>3. n \in 0 .. Len(ring) /\ n \in Nat
    BY <1>1, <1>2
  <1>4. /\ Taken(ring, n) \in Seq(F) /\ Len(Taken(ring, n)) = n
        /\ Rest(ring, n) \in Seq(F) /\ Len(Rest(ring, n)) = Len(ring) - n
    BY <1>3, TakenFacts
  <1>5. Taken(ring, n) # <<>> <=> n > 0
    <2>1. Taken(ring, n) = <<>> => n = 0
      BY <1>4, EmptySeq
    <2>2. Taken(ring, n) # <<>> => n # 0
      BY <1>4, EmptySeq
    <2> QED BY <1>3, <2>1, <2>2
  <1> QED BY <1>3, <1>4, <1>5 DEF n, Taken

\* Handing a burst to the workers keeps the invariant; with rings as large as
\* the pool nothing is left over.
LEMMA EnqueueRxStep == ASSUME IInv, NEW l \in IoLcores, EnqueueRx(l) PROVE IInv'
  <1> DEFINE ring == rx_to_crypto[IoPair]
             n == Enqueued(ring, burst[l])
  <1>1. /\ pc[l] = "enqueue" /\ burst[l] \in Seq(Received) /\ ring \in Seq(Received)
        /\ ring_size \in Nat /\ Len(ring) <= ring_size /\ burst[l] # <<>>
    BY IoPairWorks DEF EnqueueRx, IInv, TypeOK, RingInv, IoInv
  <1>2. /\ n \in 0 .. Len(burst[l])
        /\ Len(ring) + Len(burst[l]) <= ring_size => n = Len(burst[l])
        /\ ring \o SubSeq(burst[l], 1, n) \in Seq(Received)
        /\ Len(ring \o SubSeq(burst[l], 1, n)) = Len(ring) + n
        /\ Len(ring) + n <= ring_size
        /\ Rest(burst[l], n) \in Seq(Received)
        /\ Len(Rest(burst[l], n)) = Len(burst[l]) - n
    BY <1>1, EnqueuedFacts
  <1>3. /\ rx_to_crypto' = [rx_to_crypto EXCEPT ![IoPair] = ring \o SubSeq(burst[l], 1, n)]
        /\ burst' = [burst EXCEPT ![l] = Rest(burst[l], n)]
        /\ \/ n = Len(burst[l]) /\ NextPort(l) /\ UNCHANGED reg
           \/ /\ n < Len(burst[l])
              /\ reg' = [reg EXCEPT ![l] = rx_dropped[IoPair] + (Len(burst[l]) - n)]
              /\ pc' = [pc EXCEPT ![l] = "drop"]
              /\ UNCHANGED cur
    BY DEF EnqueueRx
  <1>4. UNCHANGED <<tx_pkts, unsent, wpc, pkts, encrypted_pkts, encrypt_ctx, decrypt_ctx,
                    ring_size, crypto_to_tx, rx_dropped, tx_dropped, encrypted, decrypted,
                    tx_marked, rx, tx, pool, rxq, sent, nframes, force_quit, main>>
    BY DEF EnqueueRx, workers, counters, wires
  <1>5. Len(burst[l]) \in Nat /\ Len(ring) \in Nat /\ n \in Nat /\ rx_dropped[IoPair] \in Nat
    BY <1>1, <1>2, LenProperties, IoPairWorks DEF IInv, TypeOK
  <1>6. Rest(burst[l], n) = <<>> <=> n = Len(burst[l])
    <2> HIDE DEF n
    <2>1. Len(Rest(burst[l], n)) = 0 <=> n = Len(burst[l])
      BY <1>2, <1>5
    <2>2. Rest(burst[l], n) = <<>> <=> Len(Rest(burst[l], n)) = 0
      BY <1>2, EmptySeq
    <2> QED BY <2>1, <2>2
  <1> HIDE DEF n, ring
  \* Either branch leaves the lcore at a next port or with frames to drop.
  <1>7. /\ pc' = [pc EXCEPT ![l] = pc'[l]] /\ pc'[l] \in {"rx", "tx", "drop"}
        /\ cur' = [cur EXCEPT ![l] = cur'[l]]
        /\ cur'[l] \in Nat /\ cur'[l] \in 1 .. Len(RxPortList[l])
        /\ pc'[l] = "tx" => cur'[l] = 1
        /\ reg' \in [IoLcores -> Nat]
        /\ pc'[l] = "drop" <=> n # Len(burst[l])
    <2>1. CASE n = Len(burst[l])
      <3>1. NextPort(l) /\ UNCHANGED reg
        BY <1>3, <1>5, <2>1
      <3>2. /\ pc' = [pc EXCEPT ![l] = pc'[l]] /\ pc'[l] \in {"rx", "tx"}
            /\ cur' = [cur EXCEPT ![l] = cur'[l]]
            /\ cur'[l] \in Nat /\ cur'[l] \in 1 .. Len(RxPortList[l])
            /\ pc'[l] = "tx" => cur'[l] = 1
        BY <1>1, <3>1, NextPortFacts
      <3> QED BY <2>1, <3>1, <3>2 DEF IInv, TypeOK
    <2>2. CASE n # Len(burst[l])
      <3>1. /\ reg' = [reg EXCEPT ![l] = rx_dropped[IoPair] + (Len(burst[l]) - n)]
            /\ pc' = [pc EXCEPT ![l] = "drop"]
            /\ UNCHANGED cur
        BY <1>3, <2>2
      <3>2. rx_dropped[IoPair] + (Len(burst[l]) - n) \in Nat
        BY <1>2, <1>5
      <3>3. cur[l] \in 1 .. Len(RxPortList[l])
        BY <1>1 DEF IInv, IoInv
      <3>4. reg' \in [IoLcores -> Nat]
        BY <3>1, <3>2 DEF IInv, TypeOK
      <3> QED BY <2>2, <3>1, <3>3, <3>4 DEF IInv, TypeOK
    <2> QED BY <2>1, <2>2
  <1>8. TypeOK'
    BY <1>2, <1>3, <1>4, <1>7 DEF IInv, TypeOK
  <1>9. WireInv' /\ WorkerInv'
    BY <1>4 DEF IInv, WireInv, WorkerInv
  <1>10. burst'[l] = Rest(burst[l], n) /\ rx_to_crypto'[IoPair] = ring \o SubSeq(burst[l], 1, n)
    BY <1>3, IoPairWorks DEF IInv, TypeOK
  <1>11. IoInv'
    <2>1. burst'[l] # <<>> <=> pc'[l] = "drop"
      BY <1>6, <1>7, <1>10
    <2>2. tx_pkts'[l] = <<>> /\ unsent'[l] = 0
      BY <1>1, <1>4 DEF IInv, IoInv
    <2>3. \A k \in IoLcores : k # l => /\ pc'[k] = pc[k] /\ cur'[k] = cur[k]
                                      /\ burst'[k] = burst[k] /\ tx_pkts'[k] = tx_pkts[k]
                                      /\ unsent'[k] = unsent[k]
      BY <1>3, <1>4, <1>7 DEF IInv, TypeOK
    <2>4. pc'[l] \in {"rx", "tx", "drop"} /\ cur'[l] \in 1 .. Len(RxPortList[l])
          /\ (pc'[l] = "tx" => cur'[l] = 1)
      BY <1>7
    <2> QED BY <2>1, <2>2, <2>3, <2>4 DEF IInv, IoInv
  <1>12. RingInv'
    <2>1. Len(rx_to_crypto'[IoPair]) <= ring_size
      BY <1>2, <1>10
    <2> QED BY <1>3, <1>4, <2>1 DEF IInv, RingInv, TypeOK
  <1>13. DropInv'
    <2>1. NbMbufs <= ring_size => n = Len(burst[l])
      <3>1. Len(burst[l]) + Len(ring) <= NbMbufs
        BY HeldAtMost, IoPairWorks DEF IInv, ring
      <3>2. NbMbufs \in Nat /\ ring_size \in Nat
        BY SizeAssumption DEF IInv, TypeOK
      <3>3. NbMbufs <= ring_size => Len(ring) + Len(burst[l]) <= ring_size
        BY <1>5, <3>1, <3>2
      <3> QED BY <1>2, <3>3
    <2> QED BY <1>4, <1>7, <2>1 DEF IInv, DropInv, TypeOK
  <1>14. NothingRunsAfterExit'
    BY <1>1, <1>4 DEF IInv, NothingRunsAfterExit
  <1>15. MbufConservation'
    <2>1. /\ HeldIo'[l] = Len(burst'[l]) + Len(tx_pkts[l]) + unsent[l]
          /\ HeldIo[l] = Len(burst[l]) + Len(tx_pkts[l]) + unsent[l]
      BY <1>4, Zenon DEF HeldIo
    <2>2. /\ HeldCrypto'[IoPair] = Len(pkts[IoPair]) + Len(encrypted_pkts[IoPair])
                                     + Len(rx_to_crypto'[IoPair]) + Len(crypto_to_tx[IoPair])
          /\ HeldCrypto[IoPair] = Len(pkts[IoPair]) + Len(encrypted_pkts[IoPair])
                                     + Len(ring) + Len(crypto_to_tx[IoPair])
      BY <1>4, IoPairWorks, Zenon DEF HeldCrypto, ring
    <2>3. Len(burst'[l]) = Len(burst[l]) - n /\ Len(rx_to_crypto'[IoPair]) = Len(ring) + n
      BY <1>2, <1>10
    <2>4. /\ Len(tx_pkts[l]) \in Nat /\ unsent[l] \in Nat /\ Len(pkts[IoPair]) \in Nat
          /\ Len(encrypted_pkts[IoPair]) \in Nat /\ Len(crypto_to_tx[IoPair]) \in Nat
      BY HeldTypes, IoPairWorks DEF IInv
    <2>5. HeldIo'[l] + HeldCrypto'[IoPair] = HeldIo[l] + HeldCrypto[IoPair]
      <3>1. HeldIo'[l] = HeldIo[l] - n
        <4>1. (Len(burst[l]) - n) + Len(tx_pkts[l]) + unsent[l]
                = (Len(burst[l]) + Len(tx_pkts[l]) + unsent[l]) - n
          <5>1. /\ Len(burst[l]) \in Nat /\ n \in Nat /\ Len(tx_pkts[l]) \in Nat
                /\ unsent[l] \in Nat
            BY <1>5, <2>4
          <5>2. Len(burst[l]) + Len(tx_pkts[l]) \in Nat
            BY <5>1, NatSum, Zenon
          <5>3. (Len(burst[l]) - n) + Len(tx_pkts[l]) = (Len(burst[l]) + Len(tx_pkts[l])) - n
            BY <5>1, LessFirst, Zenon
          <5>4. ((Len(burst[l]) + Len(tx_pkts[l])) - n) + unsent[l]
                  = (Len(burst[l]) + Len(tx_pkts[l]) + unsent[l]) - n
            BY <5>1, <5>2, LessFirst, Zenon
          <5> QED BY <5>3, <5>4, Zenon
        <4> QED BY <2>1, <2>3, <4>1, Zenon
      <3>2. HeldCrypto'[IoPair] = HeldCrypto[IoPair] + n
        <4>1. Len(pkts[IoPair]) + Len(encrypted_pkts[IoPair]) \in Nat
          BY <2>4, NatSum, Zenon
        <4>2. (Len(pkts[IoPair]) + Len(encrypted_pkts[IoPair]))
                + (Len(ring) + n) + Len(crypto_to_tx[IoPair])
                = ((Len(pkts[IoPair]) + Len(encrypted_pkts[IoPair]))
                    + Len(ring) + Len(crypto_to_tx[IoPair])) + n
          <5>1. /\ Len(pkts[IoPair]) + Len(encrypted_pkts[IoPair]) \in Nat
                /\ Len(ring) \in Nat /\ n \in Nat /\ Len(crypto_to_tx[IoPair]) \in Nat
            BY <1>5, <2>4, <4>1
          <5> DEFINE a == Len(pkts[IoPair]) + Len(encrypted_pkts[IoPair])
          <5>2. a + Len(ring) \in Nat
            BY <5>1, NatSum, Zenon
          <5>3. a + (Len(ring) + n) = (a + Len(ring)) + n
            BY <5>1, MoreLast, Zenon
          <5>4. ((a + Len(ring)) + n) + Len(crypto_to_tx[IoPair])
                  = (a + Len(ring) + Len(crypto_to_tx[IoPair])) + n
            BY <5>1, <5>2, MoreFirst, Zenon
          <5> QED BY <5>3, <5>4, Zenon
        <4> QED BY <2>2, <2>3, <4>2, Zenon
      <3>3. HeldIo[l] \in Nat /\ HeldCrypto[IoPair] \in Nat
        BY HeldTypes, IoPairWorks DEF IInv
      <3>4. HeldIo[l] \in Nat /\ HeldCrypto[IoPair] \in Nat /\ n \in Nat
        BY <1>5, <3>3
      <3>5. (HeldIo[l] - n) + (HeldCrypto[IoPair] + n) = HeldIo[l] + HeldCrypto[IoPair]
        BY <3>4, Given, Zenon
      <3> QED BY <3>1, <3>2, <3>5, Zenon
    <2>6. \A k \in IoLcores : k # l => /\ burst'[k] = burst[k] /\ tx_pkts'[k] = tx_pkts[k]
                                       /\ unsent'[k] = unsent[k]
      BY <1>3, <1>4 DEF IInv, TypeOK
    <2>7. \A k \in Workers : k # IoPair => /\ rx_to_crypto'[k] = rx_to_crypto[k]
                                           /\ crypto_to_tx'[k] = crypto_to_tx[k]
      BY <1>3, <1>4 DEF IInv, TypeOK
    <2> QED BY <1>4, <1>8, <2>5, <2>6, <2>7, RingConserves DEF IInv
  <1> QED BY <1>8, <1>9, <1>11, <1>12, <1>13, <1>14, <1>15 DEF IInv

\* Freeing what the ring did not take keeps the invariant.
LEMMA DropRxStep == ASSUME IInv, NEW l \in IoLcores, DropRx(l) PROVE IInv'
  <1>1. /\ pc[l] = "drop" /\ NextPort(l)
        /\ rx_dropped' = [rx_dropped EXCEPT ![IoPair] = reg[l]]
        /\ pool' = pool + Len(burst[l])
        /\ burst' = [burst EXCEPT ![l] = <<>>]
    BY DEF DropRx
  <1>2. UNCHANGED <<tx_pkts, unsent, reg, wpc, pkts, encrypted_pkts, encrypt_ctx, decrypt_ctx,
                    ring_size, rx_to_crypto, crypto_to_tx, tx_dropped, encrypted, decrypted,
                    tx_marked, rx, tx, rxq, sent, nframes, force_quit, main>>
    BY DEF DropRx, workers, rings, wires
  <1>3. /\ pc' = [pc EXCEPT ![l] = pc'[l]] /\ pc'[l] \in {"rx", "tx"}
        /\ cur' = [cur EXCEPT ![l] = cur'[l]]
        /\ cur'[l] \in Nat /\ cur'[l] \in 1 .. Len(RxPortList[l])
        /\ pc'[l] = "tx" => cur'[l] = 1
    BY <1>1, NextPortFacts
  <1>4. Len(burst[l]) \in Nat /\ pool \in Nat /\ Len(tx_pkts[l]) \in Nat /\ unsent[l] \in Nat
    BY HeldTypes DEF IInv, TypeOK
  <1>5. TypeOK'
    <2>1. pool' \in Nat /\ <<>> \in Seq(Received) /\ reg[l] \in Nat
      BY <1>1, <1>4, EmptySeq DEF IInv, TypeOK
    <2> QED BY <1>1, <1>2, <1>3, <2>1 DEF IInv, TypeOK
  <1>6. WireInv' /\ WorkerInv' /\ RingInv'
    BY <1>2 DEF IInv, WireInv, WorkerInv, RingInv
  <1>7. IoInv'
    <2>1. \A k \in IoLcores : k # l => /\ pc'[k] = pc[k] /\ cur'[k] = cur[k]
                                       /\ burst'[k] = burst[k]
      BY <1>1, <1>3 DEF IInv, TypeOK
    <2>2. burst'[l] = <<>>
      BY <1>1 DEF IInv, TypeOK
    <2> QED BY <1>1, <1>2, <1>3, <2>1, <2>2 DEF IInv, IoInv
  <1>8. DropInv'
    BY <1>1, <1>2 DEF IInv, DropInv
  <1>9. NothingRunsAfterExit'
    BY <1>1, <1>2 DEF IInv, NothingRunsAfterExit
  <1>10. MbufConservation'
    <2>1. Len(burst'[l]) = 0
      BY <1>1, EmptySeq DEF IInv, TypeOK
    <2>2. /\ HeldIo'[l] = Len(burst'[l]) + Len(tx_pkts[l]) + unsent[l]
          /\ HeldIo[l] = Len(burst[l]) + Len(tx_pkts[l]) + unsent[l]
      BY <1>2, Zenon DEF HeldIo
    <2>3. pool' = pool + Len(burst[l])
      BY <1>1
    <2>4. pool' + HeldIo'[l] = pool + HeldIo[l]
      <3>1. HeldIo[l] \in Nat
        BY HeldTypes DEF IInv
      <3>2. HeldIo'[l] = HeldIo[l] - Len(burst[l])
        <4>1. (Len(burst[l]) - Len(burst[l])) + Len(tx_pkts[l]) + unsent[l]
                = (Len(burst[l]) + Len(tx_pkts[l]) + unsent[l]) - Len(burst[l])
          <5>1. /\ Len(burst[l]) \in Nat /\ Len(tx_pkts[l]) \in Nat /\ unsent[l] \in Nat
            BY <1>4
          <5>2. (Len(burst[l]) - Len(burst[l])) + Len(tx_pkts[l])
                  = (Len(burst[l]) + Len(tx_pkts[l])) - Len(burst[l])
            BY <5>1, LessFirst, Zenon
          <5>3. Len(burst[l]) + Len(tx_pkts[l]) \in Nat
            BY <5>1, NatSum, Zenon
          <5>4. ((Len(burst[l]) + Len(tx_pkts[l])) - Len(burst[l])) + unsent[l]
                  = (Len(burst[l]) + Len(tx_pkts[l]) + unsent[l]) - Len(burst[l])
            BY <5>1, <5>3, LessFirst, Zenon
          <5> QED BY <5>2, <5>4, Zenon
        <4>2. Len(burst[l]) - Len(burst[l]) = 0
          BY <1>4
        <4> QED BY <2>1, <2>2, <4>1, <4>2, Zenon
      <3>3. (pool + Len(burst[l])) + (HeldIo[l] - Len(burst[l])) = pool + HeldIo[l]
        <4>1. pool \in Nat /\ HeldIo[l] \in Nat /\ Len(burst[l]) \in Nat
          BY <1>4, <3>1
        <4> QED BY <4>1, Given, Zenon
      <3> QED BY <2>3, <3>2, <3>3, Zenon
    <2>5. \A k \in IoLcores : k # l => /\ burst'[k] = burst[k] /\ tx_pkts'[k] = tx_pkts[k]
                                       /\ unsent'[k] = unsent[k]
      BY <1>1, <1>2 DEF IInv, TypeOK
    <2> QED BY <1>2, <1>5, <2>4, <2>5, IoConserves DEF IInv
  <1> QED BY <1>5, <1>6, <1>7, <1>8, <1>9, <1>10 DEF IInv

\* Collecting what the workers return keeps the invariant.
LEMMA DequeueTxStep == ASSUME IInv, NEW l \in IoLcores, DequeueTx(l) PROVE IInv'
  <1> DEFINE ring == crypto_to_tx[IoPair]
             n == Dequeued(ring)
  <1>1. pc[l] = "tx" /\ ring \in Seq(Returned) /\ tx_pkts[l] = <<>> /\ cur[l] = 1
    BY IoPairWorks DEF DequeueTx, IInv, TypeOK, IoInv
  <1>2. /\ n \in 0 .. Len(ring) /\ n \in Nat
        /\ SubSeq(ring, 1, n) \in Seq(Returned) /\ Len(SubSeq(ring, 1, n)) = n
        /\ Rest(ring, n) \in Seq(Returned) /\ Len(Rest(ring, n)) = Len(ring) - n
        /\ SubSeq(ring, 1, n) # <<>> <=> n > 0
    BY <1>1, DequeuedFacts
  <1>3. /\ tx_pkts' = [tx_pkts EXCEPT ![l] = SubSeq(ring, 1, n)]
        /\ crypto_to_tx' = [crypto_to_tx EXCEPT ![IoPair] = Rest(ring, n)]
        /\ pc' = [pc EXCEPT ![l] = IF n > 0 THEN "group" ELSE "top"]
    BY DEF DequeueTx
  <1>4. UNCHANGED <<cur, burst, unsent, reg, wpc, pkts, encrypted_pkts, encrypt_ctx, decrypt_ctx,
                    ring_size, rx_to_crypto, rx_dropped, tx_dropped, encrypted, decrypted,
                    tx_marked, rx, tx, pool, rxq, sent, nframes, force_quit, main>>
    BY DEF DequeueTx, workers, counters, wires
  <1> HIDE DEF n, ring
  <1>5. TypeOK'
    BY <1>2, <1>3, <1>4 DEF IInv, TypeOK
  <1>6. WireInv' /\ WorkerInv'
    BY <1>4 DEF IInv, WireInv, WorkerInv
  <1>7. tx_pkts'[l] = SubSeq(ring, 1, n) /\ crypto_to_tx'[IoPair] = Rest(ring, n)
    BY <1>3, IoPairWorks DEF IInv, TypeOK
  <1>8. IoInv'
    BY <1>1, <1>2, <1>3, <1>4, <1>7 DEF IInv, IoInv, TypeOK
  <1>9. Len(ring) \in Nat /\ ring_size \in Nat /\ Len(ring) <= ring_size
    BY <1>1, LenProperties, IoPairWorks DEF IInv, TypeOK, RingInv, ring
  <1>10. RingInv'
    <2>1. Len(crypto_to_tx'[IoPair]) = Len(ring) - n
      BY <1>2, <1>7
    <2>2. n \in Nat
      BY <1>2
    <2>3. Len(crypto_to_tx'[IoPair]) <= ring_size
      BY <1>9, <2>1, <2>2
    <2> QED BY <1>3, <1>4, <2>3 DEF IInv, RingInv, TypeOK
  <1>11. DropInv'
    BY <1>3, <1>4 DEF IInv, DropInv, TypeOK
  <1>12. NothingRunsAfterExit'
    BY <1>1, <1>4 DEF IInv, NothingRunsAfterExit
  <1>13. MbufConservation'
    <2>1. /\ HeldIo'[l] = Len(burst[l]) + Len(tx_pkts'[l]) + unsent[l]
          /\ HeldIo[l] = Len(burst[l]) + Len(tx_pkts[l]) + unsent[l]
      BY <1>4, Zenon DEF HeldIo
    <2>2. /\ HeldCrypto'[IoPair] = Len(pkts[IoPair]) + Len(encrypted_pkts[IoPair])
                                     + Len(rx_to_crypto[IoPair]) + Len(crypto_to_tx'[IoPair])
          /\ HeldCrypto[IoPair] = Len(pkts[IoPair]) + Len(encrypted_pkts[IoPair])
                                     + Len(rx_to_crypto[IoPair]) + Len(ring)
      BY <1>4, IoPairWorks, Zenon DEF HeldCrypto, ring
    <2>3. /\ Len(tx_pkts'[l]) = n /\ Len(tx_pkts[l]) = 0
          /\ Len(crypto_to_tx'[IoPair]) = Len(ring) - n /\ n \in Nat
      BY <1>1, <1>2, <1>7, EmptySeq
    <2>4. /\ Len(burst[l]) \in Nat /\ unsent[l] \in Nat /\ Len(pkts[IoPair]) \in Nat
          /\ Len(encrypted_pkts[IoPair]) \in Nat /\ Len(rx_to_crypto[IoPair]) \in Nat
      BY HeldTypes, IoPairWorks DEF IInv
    <2>5. HeldIo'[l] + HeldCrypto'[IoPair] = HeldIo[l] + HeldCrypto[IoPair]
      <3>0. n \in Nat /\ 0 \in Nat /\ Len(ring) \in Nat /\ 0 + n = n
        BY <1>9, <2>3
      <3>1. HeldIo'[l] = HeldIo[l] + n
        <4>1. Len(burst[l]) + (0 + n) + unsent[l] = (Len(burst[l]) + 0 + unsent[l]) + n
          <5>1. /\ Len(burst[l]) \in Nat /\ n \in Nat /\ unsent[l] \in Nat
                /\ Len(burst[l]) + 0 = Len(burst[l])
            BY <2>4, <3>0
          <5>2. (Len(burst[l]) + n) + unsent[l] = (Len(burst[l]) + unsent[l]) + n
            BY <5>1, MoreFirst, Zenon
          <5> QED BY <3>0, <5>1, <5>2, Zenon
        <4> QED BY <2>1, <2>3, <3>0, <4>1, Zenon
      <3>2. HeldCrypto'[IoPair] = HeldCrypto[IoPair] - n
        <4>1. Len(pkts[IoPair]) + Len(encrypted_pkts[IoPair]) + Len(rx_to_crypto[IoPair]) \in Nat
          BY <2>4, NatSum, Zenon
        <4>2. (Len(pkts[IoPair]) + Len(encrypted_pkts[IoPair]) + Len(rx_to_crypto[IoPair]))
                + (Len(ring) - n)
                = ((Len(pkts[IoPair]) + Len(encrypted_pkts[IoPair])
                     + Len(rx_to_crypto[IoPair])) + Len(ring)) - n
          <5>1. /\ Len(pkts[IoPair]) + Len(encrypted_pkts[IoPair])
                     + Len(rx_to_crypto[IoPair]) \in Nat
                /\ Len(ring) \in Nat /\ n \in Nat
            BY <3>0, <4>1
          <5> QED BY <5>1, LessLast, Zenon
        <4> QED BY <2>2, <2>3, <4>2, Zenon
      <3>3. HeldIo[l] \in Nat /\ HeldCrypto[IoPair] \in Nat
        BY HeldTypes, IoPairWorks DEF IInv
      <3>4. HeldIo[l] \in Nat /\ HeldCrypto[IoPair] \in Nat /\ n \in Nat
        BY <3>0, <3>3
      <3>5. (HeldIo[l] + n) + (HeldCrypto[IoPair] - n) = HeldIo[l] + HeldCrypto[IoPair]
        BY <3>4, Given, Zenon
      <3> QED BY <3>1, <3>2, <3>5, Zenon
    <2>6. \A k \in IoLcores : k # l => /\ burst'[k] = burst[k] /\ tx_pkts'[k] = tx_pkts[k]
                                       /\ unsent'[k] = unsent[k]
      BY <1>3, <1>4 DEF IInv, TypeOK
    <2>7. \A k \in Workers : k # IoPair => /\ rx_to_crypto'[k] = rx_to_crypto[k]
                                           /\ crypto_to_tx'[k] = crypto_to_tx[k]
      BY <1>3, <1>4 DEF IInv, TypeOK
    <2> QED BY <1>4, <1>5, <2>5, <2>6, <2>7, RingConserves DEF IInv
  <1> QED BY <1>5, <1>6, <1>8, <1>10, <1>11, <1>12, <1>13 DEF IInv

\* Sums may be regrouped.
LEMMA SumSwap == \A a, b, c \in Nat : a + (b + c) = (a + b) + c
  OBVIOUS

\* The frames of a batch are grouped by destination: a group and the rest make up the batch.
LEMMA GroupFacts ==
    ASSUME IInv, NEW l \in IoLcores, pc[l] \in {"group", "send"}
    PROVE  /\ GroupPort(l) \in Ports /\ Group(l) \in Seq(Leaving(GroupPort(l)))
           /\ Len(Group(l)) \in Nat /\ Marked(l) \in Nat
           /\ LET rest == Select(tx_pkts[l], InSeq(tx_pkts[l])
                                               \ ForPort(tx_pkts[l], GroupPort(l)))
              IN  /\ rest \in Seq(Returned) /\ Len(rest) \in Nat
                  /\ Len(Group(l)) + Len(rest) = Len(tx_pkts[l])
  <1> DEFINE T == tx_pkts[l]
             S == {f.port : f \in InSeq(T)}
             q == GroupPort(l)
             rest == Select(T, InSeq(T) \ ForPort(T, q))
  <1>1. T \in Seq(Returned) /\ T # <<>> /\ Len(T) \in Nat
    BY LenProperties DEF IInv, TypeOK, IoInv
  <1>2. \A i \in 1 .. Len(T) : T[i] \in Returned /\ T[i] \in InSeq(T) /\ T[i].port \in Ports
    <2>1. \A i \in 1 .. Len(T) : T[i] \in Returned
      BY <1>1, ElementOfSeq
    <2> QED BY <2>1 DEF InSeq, Returned, Frame
  <1>3. InSeq(T) \subseteq Returned
    BY <1>2 DEF InSeq
  <1>4. S \subseteq Ports
    BY <1>3 DEF Returned, Frame
  <1>5. q \in Ports
    <2>1. S # {}
      <3>1. 1 \in 1 .. Len(T)
        BY <1>1, EmptySeq
      <3> QED BY <1>2, <3>1
    <2>2. S \in SUBSET Nat
      BY <1>4, LcoreAssumption
    <2>3. Min(S) \in S
      BY <2>1, <2>2, MinOfNats
    <2> QED BY <1>4, <2>3 DEF GroupPort
  <1>6. Group(l) \in Seq(Leaving(q))
    <2>1. Group(l) \in Seq(Returned \cap ForPort(T, q))
      BY <1>1, SelectFacts DEF Group
    <2>2. Returned \cap ForPort(T, q) \subseteq Leaving(q)
      BY DEF ForPort, Leaving
    <2> QED BY <2>1, <2>2, SeqMonotonic
  <1>7. Len(Group(l)) \in Nat
    BY <1>6, LenProperties
  <1>8. Marked(l) \in Nat
    <2>1. Select(Group(l), {f \in InSeq(Group(l)) : IsMarked(f)})
            \in Seq(Leaving(q) \cap {f \in InSeq(Group(l)) : IsMarked(f)})
      BY <1>6, SelectFacts
    <2> QED BY <2>1, LenProperties DEF Marked
  <1>9. rest \in Seq(Returned) /\ Len(rest) \in Nat
    <2>1. rest \in Seq(Returned \cap (InSeq(T) \ ForPort(T, q)))
      BY <1>1, SelectFacts
    <2>2. Returned \cap (InSeq(T) \ ForPort(T, q)) \subseteq Returned
      OBVIOUS
    <2>3. rest \in Seq(Returned)
      BY <2>1, <2>2, SeqMonotonic
    <2> QED BY <2>3, LenProperties
  <1>10. Len(Group(l)) + Len(rest) = Len(T)
    <2>1. \A i \in 1 .. Len(T) :
             T[i] \in ForPort(T, q) <=> T[i] \notin InSeq(T) \ ForPort(T, q)
      BY <1>2
    <2>2. Len(Select(T, ForPort(T, q))) + Len(rest) = Len(T)
      BY <1>1, <2>1, SelectSplit
    <2> QED BY <2>2 DEF Group
  <1> QED BY <1>5, <1>6, <1>7, <1>8, <1>9, <1>10

\* Reading the shared counter keeps the invariant.
LEMMA CountMarkedStep == ASSUME IInv, NEW l \in IoLcores, CountMarked(l) PROVE IInv'
  <1>1. /\ pc[l] = "group" /\ reg' = [reg EXCEPT ![l] = tx_marked + Marked(l)]
        /\ pc' = [pc EXCEPT ![l] = "send"]
    BY DEF CountMarked
  <1>2. UNCHANGED <<cur, burst, tx_pkts, unsent, wpc, pkts, encrypted_pkts, encrypt_ctx,
                    decrypt_ctx, ring_size, rx_to_crypto, crypto_to_tx, rx_dropped, tx_dropped,
                    encrypted, decrypted, tx_marked, rx, tx, pool, rxq, sent, nframes,
                    force_quit, main>>
    BY DEF CountMarked, workers, rings, counters, wires
  <1>3. TypeOK'
    <2>1. tx_marked \in Nat /\ Marked(l) \in Nat
      BY <1>1, GroupFacts DEF IInv, TypeOK
    <2>2. tx_marked + Marked(l) \in Nat
      BY <2>1
    <2> QED BY <1>1, <1>2, <2>2 DEF IInv, TypeOK
  <1>4. WireInv' /\ WorkerInv' /\ RingInv'
    BY <1>2 DEF IInv, WireInv, WorkerInv, RingInv
  <1>5. IoInv'
    BY <1>1, <1>2 DEF IInv, IoInv, TypeOK
  <1>6. DropInv'
    BY <1>1, <1>2 DEF IInv, DropInv, TypeOK
  <1>7. NothingRunsAfterExit'
    BY <1>1, <1>2 DEF IInv, NothingRunsAfterExit
  <1>8. MbufConservation'
    BY <1>2, StillConserved DEF IInv
  <1> QED BY <1>3, <1>4, <1>5, <1>6, <1>7, <1>8 DEF IInv

\* n frames of a group go onto the wire of q and arrive at the other end of the veth pair.
LEMMA WireFacts ==
    ASSUME IInv, NEW q \in Ports, NEW fs \in Seq(Leaving(q)), NEW n \in 0 .. Len(fs),
           sent' = [sent EXCEPT ![q] = sent[q] \o Taken(fs, n)],
           rxq' = IF Peer[q] \in Ports
                  THEN [rxq EXCEPT ![Peer[q]] =
                            Arrive(rxq[Peer[q]], Taken(fs, n), RxQueueSize)]
                  ELSE rxq
    PROVE  /\ sent' \in [Ports -> Seq(Frame)] /\ rxq' \in [Ports -> Seq(Frame)]
           /\ \A p \in Ports : rxq'[p] \in Seq(Waiting(p)) /\ sent'[p] \in Seq(Leaving(p))
  <1> DEFINE out == Taken(fs, n)
  <1>1. out \in Seq(Leaving(q))
    BY TakenFacts
  <1>2. \A p \in Ports : sent'[p] \in Seq(Leaving(p))
    <2>1. sent[q] \o out \in Seq(Leaving(q))
      BY <1>1, ConcatProperties DEF IInv, WireInv
    <2>2. sent' = [sent EXCEPT ![q] = sent[q] \o out]
      OBVIOUS
    <2> HIDE DEF out
    <2> QED BY <2>1, <2>2 DEF IInv, TypeOK, WireInv
  <1>3. \A p \in Ports : rxq'[p] \in Seq(Waiting(p))
    <2>1. CASE Peer[q] \in Ports
      <3>1. out \in Seq(Waiting(Peer[q]))
        BY <1>1, LeavingIsWaiting
      <3>2. Arrive(rxq[Peer[q]], out, RxQueueSize) \in Seq(Waiting(Peer[q]))
        BY <2>1, <3>1, ArriveFacts, SizeAssumption DEF IInv, WireInv
      <3>3. rxq' = [rxq EXCEPT ![Peer[q]] = Arrive(rxq[Peer[q]], out, RxQueueSize)]
        BY <2>1
      <3> HIDE DEF out
      <3> QED BY <2>1, <3>2, <3>3 DEF IInv, TypeOK, WireInv
    <2>2. CASE Peer[q] \notin Ports
      BY <2>2 DEF IInv, WireInv
    <2> QED BY <2>1, <2>2
  <1>4. /\ sent' = [p \in Ports |-> sent'[p]]
        /\ rxq' = [p \in Ports |-> rxq'[p]]
    BY DEF IInv, TypeOK
  <1>5. \A p \in Ports : sent'[p] \in Seq(Frame) /\ rxq'[p] \in Seq(Frame)
    <2> TAKE p \in Ports
    <2>1. Leaving(p) \subseteq Frame /\ Waiting(p) \subseteq Frame
      BY FrameSets
    <2> QED BY <1>2, <1>3, <2>1, SeqMonotonic
  <1> QED BY <1>2, <1>3, <1>4, <1>5

\* Sending a group keeps the invariant.
LEMMA SendStep == ASSUME IInv, NEW l \in IoLcores, Send(l) PROVE IInv'
  <1> DEFINE q == GroupPort(l)
             G == Group(l)
             rest == Select(tx_pkts[l], InSeq(tx_pkts[l]) \ ForPort(tx_pkts[l], q))
  <1>1. pc[l] = "send"
    BY DEF Send
  <1>2. /\ q \in Ports /\ G \in Seq(Leaving(q)) /\ Len(G) \in Nat
        /\ rest \in Seq(Returned) /\ Len(rest) \in Nat
        /\ Len(G) + Len(rest) = Len(tx_pkts[l])
    BY <1>1, GroupFacts
  <1>3. PICK n \in 0 .. Len(G) :
          /\ sent' = [sent EXCEPT ![q] = sent[q] \o Taken(G, n)]
          /\ rxq' = IF Peer[q] \in Ports
                    THEN [rxq EXCEPT ![Peer[q]] =
                              Arrive(rxq[Peer[q]], Taken(G, n), RxQueueSize)]
                    ELSE rxq
          /\ pool' = pool + n
          /\ unsent' = [unsent EXCEPT ![l] = Len(G) - n]
          /\ reg' = [reg EXCEPT ![l] = tx[q] + n]
          /\ cur' = [cur EXCEPT ![l] = q]
    BY DEF Send
  <1>4. /\ tx_marked' = reg[l] /\ tx_pkts' = [tx_pkts EXCEPT ![l] = rest]
        /\ pc' = [pc EXCEPT ![l] = "sent"]
    BY DEF Send
  <1>5. UNCHANGED <<burst, wpc, pkts, encrypted_pkts, encrypt_ctx, decrypt_ctx, ring_size,
                    rx_to_crypto, crypto_to_tx, rx_dropped, tx_dropped, encrypted, decrypted,
                    rx, tx, nframes, force_quit, main>>
    BY DEF Send, workers, rings
  <1>6. /\ sent' \in [Ports -> Seq(Frame)] /\ rxq' \in [Ports -> Seq(Frame)]
        /\ \A p \in Ports : rxq'[p] \in Seq(Waiting(p)) /\ sent'[p] \in Seq(Leaving(p))
    <2> HIDE DEF q, G
    <2> QED BY <1>2, <1>3, WireFacts
  <1> HIDE DEF q, G, rest
  <1>7. n \in Nat /\ Len(G) - n \in Nat /\ pool + n \in Nat /\ tx[q] + n \in Nat /\ q \in Nat
    <2>1. pool \in Nat /\ tx[q] \in Nat /\ n \in Nat /\ n <= Len(G)
      BY <1>2 DEF IInv, TypeOK
    <2> QED BY <1>2, <2>1, LcoreAssumption
  <1>8. TypeOK'
    <2>1. reg[l] \in Nat
      BY DEF IInv, TypeOK
    <2>2. pool' \in Nat /\ tx_marked' \in Nat /\ tx_pkts' \in [IoLcores -> Seq(Returned)]
      BY <1>2, <1>3, <1>4, <1>7, <2>1 DEF IInv, TypeOK
    <2>3. /\ unsent' \in [IoLcores -> Nat] /\ reg' \in [IoLcores -> Nat]
          /\ cur' \in [IoLcores -> Nat]
      BY <1>3, <1>7 DEF IInv, TypeOK
    <2> QED BY <1>4, <1>5, <1>6, <2>2, <2>3 DEF IInv, TypeOK
  <1>9. WireInv' /\ WorkerInv' /\ RingInv'
    BY <1>5, <1>6 DEF IInv, WireInv, WorkerInv, RingInv
  <1>10. IoInv'
    BY <1>1, <1>2, <1>3, <1>4, <1>5 DEF IInv, IoInv, TypeOK
  <1>11. DropInv'
    BY <1>4, <1>5 DEF IInv, DropInv, TypeOK
  <1>12. NothingRunsAfterExit'
    BY <1>1, <1>5 DEF IInv, NothingRunsAfterExit
  <1>13. MbufConservation'
    <2>1. unsent[l] = 0 /\ Len(burst[l]) \in Nat /\ Len(tx_pkts[l]) \in Nat /\ pool \in Nat
      BY <1>1, HeldTypes DEF IInv, IoInv, TypeOK
    <2>2. tx_pkts'[l] = rest /\ unsent'[l] = Len(G) - n /\ burst'[l] = burst[l]
      BY <1>3, <1>4, <1>5 DEF IInv, TypeOK
    <2>3. /\ HeldIo'[l] = (Len(burst[l]) + Len(rest)) + (Len(G) - n)
          /\ HeldIo[l] = (Len(burst[l]) + Len(tx_pkts[l])) + 0
      BY <2>1, <2>2, Zenon DEF HeldIo
    <2>4. Len(burst[l]) + Len(rest) \in Nat /\ Len(burst[l]) + Len(tx_pkts[l]) \in Nat
      BY <1>2, <2>1, NatSum, Zenon
    <2>5. HeldIo'[l] = (Len(burst[l]) + Len(tx_pkts[l])) - n
      <3>1. (Len(burst[l]) + Len(rest)) + (Len(G) - n)
              = ((Len(burst[l]) + Len(rest)) + Len(G)) - n
        <4>1. Len(burst[l]) + Len(rest) \in Nat /\ Len(G) \in Nat /\ n \in Nat
          BY <1>2, <1>7, <2>4
        <4> HIDE <1>3
        <4> QED BY <4>1, LessLast, Zenon
      <3>2. (Len(burst[l]) + Len(rest)) + Len(G) = Len(burst[l]) + (Len(rest) + Len(G))
        <4>1. Len(burst[l]) \in Nat /\ Len(rest) \in Nat /\ Len(G) \in Nat
          BY <1>2, <2>1
        <4> HIDE <1>2, <1>3
        <4> QED BY <4>1, SumSwap, Zenon
      <3>3. Len(rest) + Len(G) = Len(tx_pkts[l])
        BY <1>2
      <3> QED BY <2>3, <3>1, <3>2, <3>3, Zenon
    <2>6. HeldIo[l] = Len(burst[l]) + Len(tx_pkts[l])
      BY <2>3, <2>4
    <2>7. (pool + n) + ((Len(burst[l]) + Len(tx_pkts[l])) - n)
            = pool + (Len(burst[l]) + Len(tx_pkts[l]))
      <3>1. pool \in Nat /\ Len(burst[l]) + Len(tx_pkts[l]) \in Nat /\ n \in Nat
        BY <1>7, <2>1, <2>4
      <3> QED BY <3>1, Given, Zenon
    <2>8. pool' + HeldIo'[l] = pool + HeldIo[l]
      BY <1>3, <2>5, <2>6, <2>7, Zenon
    <2>9. \A k \in IoLcores : k # l => /\ burst'[k] = burst[k] /\ tx_pkts'[k] = tx_pkts[k]
                                       /\ unsent'[k] = unsent[k]
      BY <1>3, <1>4, <1>5 DEF IInv, TypeOK
    <2> QED BY <1>5, <1>8, <2>8, <2>9, IoConserves DEF IInv
  <1> QED BY <1>8, <1>9, <1>10, <1>11, <1>12, <1>13 DEF IInv

\* Freeing the frames the burst did not take keeps the invariant.
LEMMA SendDoneStep == ASSUME IInv, NEW l \in IoLcores, SendDone(l) PROVE IInv'
  <1>1. /\ pc[l] = "sent" /\ tx' = [tx EXCEPT ![cur[l]] = reg[l]]
        /\ pool' = pool + unsent[l] /\ unsent' = [unsent EXCEPT ![l] = 0]
        /\ cur' = [cur EXCEPT ![l] = 1]
        /\ pc' = [pc EXCEPT ![l] = IF tx_pkts[l] = <<>> THEN "top" ELSE "group"]
    BY DEF SendDone, FreedUnsent
  <1>2. UNCHANGED <<burst, tx_pkts, reg, wpc, pkts, encrypted_pkts, encrypt_ctx, decrypt_ctx,
                    ring_size, rx_to_crypto, crypto_to_tx, rx_dropped, tx_dropped, encrypted,
                    decrypted, tx_marked, rx, rxq, sent, nframes, force_quit, main>>
    BY DEF SendDone, workers, rings, wires
  <1>3. pool \in Nat /\ unsent[l] \in Nat /\ reg[l] \in Nat /\ pool + unsent[l] \in Nat
    <2>1. pool \in Nat /\ unsent[l] \in Nat /\ reg[l] \in Nat
      BY DEF IInv, TypeOK
    <2> QED BY <2>1
  <1>4. TypeOK'
    BY <1>1, <1>2, <1>3 DEF IInv, TypeOK
  <1>5. WireInv' /\ WorkerInv' /\ RingInv'
    BY <1>2 DEF IInv, WireInv, WorkerInv, RingInv
  <1>6. IoInv'
    BY <1>1, <1>2 DEF IInv, IoInv, TypeOK
  <1>7. DropInv'
    BY <1>1, <1>2 DEF IInv, DropInv, TypeOK
  <1>8. NothingRunsAfterExit'
    BY <1>1, <1>2 DEF IInv, NothingRunsAfterExit
  <1>9. MbufConservation'
    <2>1. unsent'[l] = 0 /\ tx_pkts'[l] = tx_pkts[l] /\ burst'[l] = burst[l]
      BY <1>1, <1>2 DEF IInv, TypeOK
    <2>2. /\ HeldIo'[l] = (Len(burst[l]) + Len(tx_pkts[l])) + 0
          /\ HeldIo[l] = (Len(burst[l]) + Len(tx_pkts[l])) + unsent[l]
      BY <2>1, Zenon DEF HeldIo
    <2>3. Len(burst[l]) \in Nat /\ Len(tx_pkts[l]) \in Nat
      BY HeldTypes DEF IInv
    <2>4. Len(burst[l]) + Len(tx_pkts[l]) \in Nat
      BY <2>3, NatSum, Zenon
    <2>5. \A a, b, p \in Nat : (p + b) + (a + 0) = p + (a + b)
      OBVIOUS
    <2>6. (pool + unsent[l]) + ((Len(burst[l]) + Len(tx_pkts[l])) + 0)
            = pool + ((Len(burst[l]) + Len(tx_pkts[l])) + unsent[l])
      BY <1>3, <2>4, <2>5, Zenon
    <2>7. pool' + HeldIo'[l] = pool + HeldIo[l]
      BY <1>1, <2>2, <2>6, Zenon
    <2>8. \A k \in IoLcores : k # l => /\ burst'[k] = burst[k] /\ tx_pkts'[k] = tx_pkts[k]
                                       /\ unsent'[k] = unsent[k]
      BY <1>1, <1>2 DEF IInv, TypeOK
    <2> QED BY <1>2, <1>4, <2>7, <2>8, IoConserves DEF IInv
  <1> QED BY <1>4, <1>5, <1>6, <1>7, <1>8, <1>9 DEF IInv

-----------------------------------------------------------------------------
(* The steps of a crypto worker.                                           *)

\* Starting and stopping a worker touches its contexts only.
LEMMA WorkerPcStep ==
    ASSUME IInv, NEW w \in Workers, wpc[w] \in {"start", "loop"},
           NEW s \in {"loop", "done"}, wpc' = [wpc EXCEPT ![w] = s],
           UNCHANGED <<pc, cur, burst, tx_pkts, unsent, reg, pkts, encrypted_pkts, ring_size,
                       rx_to_crypto, crypto_to_tx, rx_dropped, tx_dropped, encrypted, decrypted,
                       tx_marked, rx, tx, pool, rxq, sent, nframes, force_quit, main>>
    PROVE  IInv'
  <1>1. TypeOK'
    BY DEF IInv, TypeOK
  <1>2. WireInv' /\ IoInv' /\ RingInv'
    BY DEF IInv, WireInv, IoInv, RingInv
  <1>3. WorkerInv'
    BY DEF IInv, WorkerInv, TypeOK
  <1>4. DropInv'
    BY DEF IInv, DropInv, TypeOK
  <1>5. NothingRunsAfterExit'
    BY DEF IInv, NothingRunsAfterExit
  <1>6. MbufConservation'
    BY StillConserved DEF IInv
  <1> QED BY <1>1, <1>2, <1>3, <1>4, <1>5, <1>6 DEF IInv

\* A worker that starts keeps the invariant.
LEMMA StartWorkerStep == ASSUME IInv, NEW w \in Workers, StartWorker(w) PROVE IInv'
  BY WorkerPcStep DEF StartWorker, io, rings, counters, wires

\* A worker that ends keeps the invariant.
LEMMA QuitWorkerStep == ASSUME IInv, NEW w \in Workers, QuitWorker(w) PROVE IInv'
  BY WorkerPcStep DEF QuitWorker, io, rings, counters, wires

\* A worker taking a batch keeps the invariant.
LEMMA DequeueCryptoStep == ASSUME IInv, NEW w \in Workers, DequeueCrypto(w) PROVE IInv'
  <1> DEFINE ring == rx_to_crypto[w]
             n == Dequeued(ring)
  <1>1. wpc[w] = "loop" /\ ring \in Seq(Received) /\ pkts[w] = <<>> /\ n > 0
    BY DEF DequeueCrypto, IInv, TypeOK, WorkerInv
  <1>2. /\ n \in 0 .. Len(ring) /\ n \in Nat
        /\ SubSeq(ring, 1, n) \in Seq(Received) /\ Len(SubSeq(ring, 1, n)) = n
        /\ Rest(ring, n) \in Seq(Received) /\ Len(Rest(ring, n)) = Len(ring) - n
        /\ SubSeq(ring, 1, n) # <<>>
    <2>1. /\ n \in 0 .. Len(ring) /\ n \in Nat
          /\ SubSeq(ring, 1, n) \in Seq(Received) /\ Len(SubSeq(ring, 1, n)) = n
          /\ Rest(ring, n) \in Seq(Received) /\ Len(Rest(ring, n)) = Len(ring) - n
          /\ SubSeq(ring, 1, n) # <<>> <=> n > 0
      BY <1>1, DequeuedFacts
    <2> QED BY <1>1, <2>1
  <1>3. /\ pkts' = [pkts EXCEPT ![w] = SubSeq(ring, 1, n)]
        /\ rx_to_crypto' = [rx_to_crypto EXCEPT ![w] = Rest(ring, n)]
        /\ wpc' = [wpc EXCEPT ![w] = "crypt"]
    BY DEF DequeueCrypto
  <1>4. UNCHANGED <<pc, cur, burst, tx_pkts, unsent, reg, encrypted_pkts, encrypt_ctx,
                    decrypt_ctx, ring_size, crypto_to_tx, rx_dropped, tx_dropped, encrypted,
                    decrypted, tx_marked, rx, tx, pool, rxq, sent, nframes, force_quit, main>>
    BY DEF DequeueCrypto, io, counters, wires
  <1> HIDE DEF n, ring
  <1>5. TypeOK'
    BY <1>2, <1>3, <1>4 DEF IInv, TypeOK
  <1>6. WireInv' /\ IoInv'
    BY <1>4 DEF IInv, WireInv, IoInv
  <1>7. pkts'[w] = SubSeq(ring, 1, n) /\ rx_to_crypto'[w] = Rest(ring, n)
    BY <1>3 DEF IInv, TypeOK
  <1>8. WorkerInv'
    BY <1>1, <1>2, <1>3, <1>4, <1>7 DEF IInv, WorkerInv, TypeOK
  <1>9. Len(ring) \in Nat /\ ring_size \in Nat /\ Len(ring) <= ring_size
    BY <1>1, LenProperties DEF IInv, TypeOK, RingInv, ring
  <1>10. RingInv'
    <2>1. Len(rx_to_crypto'[w]) = Len(ring) - n
      BY <1>2, <1>7
    <2>2. n \in Nat
      BY <1>2
    <2>3. Len(rx_to_crypto'[w]) <= ring_size
      BY <1>9, <2>1, <2>2
    <2> QED BY <1>3, <1>4, <2>3 DEF IInv, RingInv, TypeOK
  <1>11. DropInv'
    BY <1>3, <1>4 DEF IInv, DropInv, TypeOK
  <1>12. NothingRunsAfterExit'
    BY <1>1, <1>4 DEF IInv, NothingRunsAfterExit
  <1>13. MbufConservation'
    <2>1. /\ HeldCrypto'[w] = Len(pkts'[w]) + Len(encrypted_pkts[w])
                                + Len(rx_to_crypto'[w]) + Len(crypto_to_tx[w])
          /\ HeldCrypto[w] = Len(pkts[w]) + Len(encrypted_pkts[w])
                                + Len(ring) + Len(crypto_to_tx[w])
      BY <1>4, Zenon DEF HeldCrypto, ring
    <2>2. /\ Len(pkts'[w]) = n /\ Len(pkts[w]) = 0 /\ Len(rx_to_crypto'[w]) = Len(ring) - n
          /\ n \in Nat
      BY <1>1, <1>2, <1>7, EmptySeq
    <2>3. Len(encrypted_pkts[w]) \in Nat
      BY HeldTypes DEF IInv
    <2>4. \A a, b, m \in Nat : (m + a) + (b - m) = (0 + a) + b
      OBVIOUS
    <2>5. (n + Len(encrypted_pkts[w])) + (Len(ring) - n) = (0 + Len(encrypted_pkts[w])) + Len(ring)
      <3>1. n \in Nat /\ Len(ring) \in Nat /\ Len(encrypted_pkts[w]) \in Nat
        BY <1>9, <2>2, <2>3
      <3> QED BY <2>4, <3>1, Zenon
    <2>6. HeldCrypto'[w] = HeldCrypto[w]
      BY <2>1, <2>2, <2>5, Zenon
    <2>7. pool' + HeldCrypto'[w] = pool + HeldCrypto[w]
      BY <1>4, <2>6, Zenon
    <2>8. \A k \in Workers : k # w =>
              /\ pkts'[k] = pkts[k] /\ encrypted_pkts'[k] = encrypted_pkts[k]
              /\ rx_to_crypto'[k] = rx_to_crypto[k] /\ crypto_to_tx'[k] = crypto_to_tx[k]
      BY <1>3, <1>4 DEF IInv, TypeOK
    <2> QED BY <1>4, <1>5, <2>7, <2>8, WorkerConserves DEF IInv
  <1> QED BY <1>5, <1>6, <1>8, <1>10, <1>11, <1>12, <1>13 DEF IInv

\* The batch of a worker loses its first frame; the worker goes on, or returns what it kept.
LEMMA NextPacketFacts ==
    ASSUME IInv, NEW w \in Workers, wpc[w] = "crypt", NEW kept, NextPacket(w, kept)
    PROVE  /\ Head(pkts[w]) \in Received
           /\ pkts' = [pkts EXCEPT ![w] = pkts'[w]] /\ pkts'[w] \in Seq(Received)
           /\ Len(pkts[w]) \in Nat /\ Len(pkts'[w]) \in Nat
           /\ Len(pkts[w]) = Len(pkts'[w]) + 1
           /\ wpc' = [wpc EXCEPT ![w] = wpc'[w]] /\ wpc'[w] \in {"crypt", "loop", "return"}
           /\ pkts'[w] # <<>> <=> wpc'[w] = "crypt"
           /\ wpc'[w] = "loop" => kept = <<>>
           /\ wpc'[w] = "return" => kept # <<>>
  <1>1. pkts[w] \in Seq(Received) /\ pkts[w] # <<>>
    BY DEF IInv, TypeOK, WorkerInv
  <1>2. /\ Tail(pkts[w]) \in Seq(Received) /\ Len(Tail(pkts[w])) = Len(pkts[w]) - 1
        /\ Head(pkts[w]) \in Received /\ Len(pkts[w]) \in Nat /\ Len(pkts[w]) # 0
    BY <1>1, HeadTailProperties, EmptySeq, LenProperties
  <1>3. /\ pkts' = [pkts EXCEPT ![w] = Tail(pkts[w])]
        /\ wpc' = [wpc EXCEPT ![w] = IF Len(pkts[w]) > 1 THEN "crypt"
                                     ELSE IF kept = <<>> THEN "loop" ELSE "return"]
    BY DEF NextPacket
  <1>4. /\ pkts'[w] = Tail(pkts[w])
        /\ wpc'[w] = IF Len(pkts[w]) > 1 THEN "crypt" ELSE IF kept = <<>> THEN "loop" ELSE "return"
    BY <1>3 DEF IInv, TypeOK
  <1>5. Tail(pkts[w]) # <<>> <=> Len(pkts[w]) > 1
    <2>1. Tail(pkts[w]) = <<>> <=> Len(Tail(pkts[w])) = 0
      BY <1>2, EmptySeq
    <2>2. Len(pkts[w]) - 1 # 0 <=> Len(pkts[w]) > 1
      <3>1. \A x \in Nat : x # 0 => (x - 1 # 0 <=> x > 1)
        OBVIOUS
      <3> QED BY <1>2, <3>1, Zenon
    <2> QED BY <1>2, <2>1, <2>2, Zenon
  <1>6. Len(Tail(pkts[w])) \in Nat /\ Len(pkts[w]) = Len(Tail(pkts[w])) + 1
    <2>1. Len(Tail(pkts[w])) \in Nat
      BY <1>2, LenProperties
    <2>2. \A x, y \in Nat : y = x - 1 => x = y + 1
      OBVIOUS
    <2> QED BY <1>2, <2>1, <2>2, Zenon
  <1>7. /\ wpc'[w] \in {"crypt", "loop", "return"}
        /\ Len(pkts[w]) > 1 <=> wpc'[w] = "crypt"
        /\ wpc'[w] = "loop" => kept = <<>>
        /\ wpc'[w] = "return" => kept # <<>>
    BY <1>4
  <1> QED BY <1>2, <1>3, <1>4, <1>5, <1>6, <1>7

\* A worker freeing a marked frame keeps the invariant.
LEMMA DecryptStep == ASSUME IInv, NEW w \in Workers, DecryptPacket(w) PROVE IInv'
  <1>1. /\ wpc[w] = "crypt" /\ decrypted' = [decrypted EXCEPT ![w] = decrypted[w] + 1]
        /\ pool' = pool + 1 /\ NextPacket(w, encrypted_pkts[w])
    BY DEF DecryptPacket
  <1>2. UNCHANGED <<pc, cur, burst, tx_pkts, unsent, reg, encrypted_pkts, ring_size,
                    rx_to_crypto, crypto_to_tx, rx_dropped, tx_dropped, encrypted, tx_marked,
                    rx, tx, rxq, sent, nframes, force_quit, main>>
    BY DEF DecryptPacket, io, rings, wires
  <1>3. /\ pkts' = [pkts EXCEPT ![w] = pkts'[w]] /\ pkts'[w] \in Seq(Received)
        /\ Len(pkts[w]) \in Nat /\ Len(pkts'[w]) \in Nat
        /\ Len(pkts[w]) = Len(pkts'[w]) + 1
        /\ wpc' = [wpc EXCEPT ![w] = wpc'[w]] /\ wpc'[w] \in {"crypt", "loop", "return"}
        /\ pkts'[w] # <<>> <=> wpc'[w] = "crypt"
        /\ wpc'[w] = "loop" => encrypted_pkts[w] = <<>>
        /\ wpc'[w] = "return" => encrypted_pkts[w] # <<>>
    BY <1>1, NextPacketFacts
  <1>4. pool \in Nat /\ pool + 1 \in Nat /\ decrypted[w] + 1 \in Nat
    BY DEF IInv, TypeOK
  <1>5. TypeOK'
    <2>1. pkts' \in [Workers -> Seq(Received)]
      BY <1>3 DEF IInv, TypeOK
    <2>2. wpc' \in [Workers -> {"start", "loop", "crypt", "return", "free", "done"}]
      BY <1>3 DEF IInv, TypeOK
    <2>3. decrypted' \in [Workers -> Nat] /\ pool' \in Nat
      BY <1>1, <1>4 DEF IInv, TypeOK
    <2> QED BY <1>1, <1>2, <2>1, <2>2, <2>3 DEF IInv, TypeOK
  <1>6. WireInv' /\ IoInv' /\ RingInv'
    BY <1>2 DEF IInv, WireInv, IoInv, RingInv
  <1>7. WorkerInv'
    BY <1>1, <1>2, <1>3 DEF IInv, WorkerInv, TypeOK
  <1>8. DropInv'
    BY <1>2, <1>3 DEF IInv, DropInv, TypeOK
  <1>9. NothingRunsAfterExit'
    BY <1>1, <1>2 DEF IInv, NothingRunsAfterExit
  <1>10. MbufConservation'
    <2>1. /\ HeldCrypto'[w] = Len(pkts'[w]) + Len(encrypted_pkts[w])
                                + Len(rx_to_crypto[w]) + Len(crypto_to_tx[w])
          /\ HeldCrypto[w] = Len(pkts[w]) + Len(encrypted_pkts[w])
                                + Len(rx_to_crypto[w]) + Len(crypto_to_tx[w])
      BY <1>2, Zenon DEF HeldCrypto
    <2>2. /\ Len(encrypted_pkts[w]) \in Nat /\ Len(rx_to_crypto[w]) \in Nat
          /\ Len(crypto_to_tx[w]) \in Nat
      BY HeldTypes DEF IInv
    <2>3. HeldCrypto[w] = HeldCrypto'[w] + 1
      <3>1. 1 \in Nat /\ Len(pkts'[w]) \in Nat
        BY <1>3
      <3>2. (Len(pkts'[w]) + 1) + Len(encrypted_pkts[w])
              = (Len(pkts'[w]) + Len(encrypted_pkts[w])) + 1
        BY <2>2, <3>1, MoreFirst, Zenon
      <3>3. Len(pkts'[w]) + Len(encrypted_pkts[w]) \in Nat
        BY <2>2, <3>1, NatSum, Zenon
      <3>4. ((Len(pkts'[w]) + Len(encrypted_pkts[w])) + 1) + Len(rx_to_crypto[w])
              = (Len(pkts'[w]) + Len(encrypted_pkts[w]) + Len(rx_to_crypto[w])) + 1
        BY <2>2, <3>1, <3>3, MoreFirst, Zenon
      <3>5. Len(pkts'[w]) + Len(encrypted_pkts[w]) + Len(rx_to_crypto[w]) \in Nat
        BY <2>2, <3>3, NatSum, Zenon
      <3>6. ((Len(pkts'[w]) + Len(encrypted_pkts[w]) + Len(rx_to_crypto[w])) + 1)
              + Len(crypto_to_tx[w])
              = (Len(pkts'[w]) + Len(encrypted_pkts[w]) + Len(rx_to_crypto[w])
                   + Len(crypto_to_tx[w])) + 1
        BY <2>2, <3>1, <3>5, MoreFirst, Zenon
      <3>7. Len(pkts[w]) = Len(pkts'[w]) + 1
        BY <1>3
      <3>8. HeldCrypto[w] = (Len(pkts'[w]) + 1) + Len(encrypted_pkts[w])
                               + Len(rx_to_crypto[w]) + Len(crypto_to_tx[w])
        BY <2>1, <3>7, Zenon
      <3>9. HeldCrypto[w] = ((Len(pkts'[w]) + Len(encrypted_pkts[w]) + Len(rx_to_crypto[w])) + 1)
                               + Len(crypto_to_tx[w])
        BY <3>2, <3>4, <3>8, Zenon
      <3> QED BY <2>1, <3>6, <3>9, Zenon
    <2>4. HeldCrypto'[w] \in Nat
      BY <1>5, HeldNext
    <2>5. \A p, h \in Nat : (p + 1) + h = p + (h + 1)
      OBVIOUS
    <2>6. pool' + HeldCrypto'[w] = pool + HeldCrypto[w]
      BY <1>1, <1>4, <2>3, <2>4, <2>5, Zenon
    <2>7. \A k \in Workers : k # w =>
              /\ pkts'[k] = pkts[k] /\ encrypted_pkts'[k] = encrypted_pkts[k]
              /\ rx_to_crypto'[k] = rx_to_crypto[k] /\ crypto_to_tx'[k] = crypto_to_tx[k]
      BY <1>2, <1>3 DEF IInv, TypeOK
    <2> QED BY <1>2, <1>5, <2>6, <2>7, WorkerConserves DEF IInv
  <1> QED BY <1>5, <1>6, <1>7, <1>8, <1>9, <1>10 DEF IInv

\* A worker encrypting a frame keeps the invariant.
LEMMA EncryptStep == ASSUME IInv, NEW w \in Workers, EncryptPacket(w) PROVE IInv'
  <1> DEFINE f == [RealEncrypt(Head(pkts[w]), encrypt_ctx[w]) EXCEPT !.port = Dst[@]]
  <1>1. /\ wpc[w] = "crypt" /\ ~Head(pkts[w]).marked
        /\ encrypted' = [encrypted EXCEPT ![w] = encrypted[w] + 1]
        /\ encrypted_pkts' = [encrypted_pkts EXCEPT ![w] = Append(encrypted_pkts[w], f)]
        /\ NextPacket(w, <<f>>)
    BY DEF EncryptPacket, IsMarked, Collect
  <1>2. UNCHANGED <<pc, cur, burst, tx_pkts, unsent, reg, ring_size, rx_to_crypto, crypto_to_tx,
                    rx_dropped, tx_dropped, decrypted, tx_marked, rx, tx, pool, rxq, sent,
                    nframes, force_quit, main>>
    BY DEF EncryptPacket, io, rings, wires
  <1>3. f \in Returned
    <2>1. Head(pkts[w]) \in Received
      BY <1>1, NextPacketFacts
    <2> QED BY <1>1, <2>1, EncryptFacts
  <1> HIDE DEF f
  <1>4. <<f>> # <<>>
    OBVIOUS
  <1>5. /\ pkts' = [pkts EXCEPT ![w] = pkts'[w]] /\ pkts'[w] \in Seq(Received)
        /\ Len(pkts[w]) \in Nat /\ Len(pkts'[w]) \in Nat
        /\ Len(pkts[w]) = Len(pkts'[w]) + 1
        /\ wpc' = [wpc EXCEPT ![w] = wpc'[w]] /\ wpc'[w] \in {"crypt", "return"}
        /\ pkts'[w] # <<>> <=> wpc'[w] = "crypt"
    <2>1. /\ pkts' = [pkts EXCEPT ![w] = pkts'[w]] /\ pkts'[w] \in Seq(Received)
          /\ Len(pkts[w]) \in Nat /\ Len(pkts'[w]) \in Nat
          /\ Len(pkts[w]) = Len(pkts'[w]) + 1
          /\ wpc' = [wpc EXCEPT ![w] = wpc'[w]] /\ wpc'[w] \in {"crypt", "loop", "return"}
          /\ pkts'[w] # <<>> <=> wpc'[w] = "crypt"
          /\ wpc'[w] = "loop" => <<f>> = <<>>
      BY <1>1, NextPacketFacts
    <2> QED BY <1>4, <2>1
  <1>6. /\ encrypted_pkts'[w] \in Seq(Returned) /\ encrypted_pkts'[w] # <<>>
        /\ Len(encrypted_pkts[w]) \in Nat
        /\ Len(encrypted_pkts'[w]) = Len(encrypted_pkts[w]) + 1
    <2>1. encrypted_pkts[w] \in Seq(Returned)
      BY DEF IInv, TypeOK
    <2>2. encrypted_pkts'[w] = Append(encrypted_pkts[w], f)
      BY <1>1 DEF IInv, TypeOK
    <2>3. /\ Append(encrypted_pkts[w], f) \in Seq(Returned)
          /\ Append(encrypted_pkts[w], f) # <<>>
          /\ Len(Append(encrypted_pkts[w], f)) = Len(encrypted_pkts[w]) + 1
      BY <1>3, <2>1, AppendProperties
    <2> QED BY <2>1, <2>2, <2>3, LenProperties
  <1>7. encrypted_pkts' = [encrypted_pkts EXCEPT ![w] = encrypted_pkts'[w]]
    BY <1>1 DEF IInv, TypeOK
  <1>8. TypeOK'
    <2>1. encrypted[w] + 1 \in Nat
      BY DEF IInv, TypeOK
    <2>2. pkts' \in [Workers -> Seq(Received)]
      BY <1>5 DEF IInv, TypeOK
    <2>3. wpc' \in [Workers -> {"start", "loop", "crypt", "return", "free", "done"}]
      BY <1>5 DEF IInv, TypeOK
    <2>4. encrypted_pkts' \in [Workers -> Seq(Returned)]
      BY <1>6, <1>7 DEF IInv, TypeOK
    <2>5. encrypted' \in [Workers -> Nat]
      BY <1>1, <2>1 DEF IInv, TypeOK
    <2> QED BY <1>1, <1>2, <2>2, <2>3, <2>4, <2>5 DEF IInv, TypeOK
  <1>9. WireInv' /\ IoInv' /\ RingInv'
    BY <1>2 DEF IInv, WireInv, IoInv, RingInv
  <1>10. WorkerInv'
    <2>1. \A k \in Workers : k # w => /\ pkts'[k] = pkts[k] /\ wpc'[k] = wpc[k]
                                      /\ encrypted_pkts'[k] = encrypted_pkts[k]
      BY <1>5, <1>7 DEF IInv, TypeOK
    <2> QED BY <1>2, <1>5, <1>6, <2>1 DEF IInv, WorkerInv
  <1>11. DropInv'
    BY <1>2, <1>5 DEF IInv, DropInv, TypeOK
  <1>12. NothingRunsAfterExit'
    BY <1>1, <1>2 DEF IInv, NothingRunsAfterExit
  <1>13. MbufConservation'
    <2>1. /\ HeldCrypto'[w] = Len(pkts'[w]) + Len(encrypted_pkts'[w])
                                + Len(rx_to_crypto[w]) + Len(crypto_to_tx[w])
          /\ HeldCrypto[w] = Len(pkts[w]) + Len(encrypted_pkts[w])
                                + Len(rx_to_crypto[w]) + Len(crypto_to_tx[w])
      BY <1>2, Zenon DEF HeldCrypto
    <2>2. Len(pkts'[w]) + Len(encrypted_pkts'[w]) = Len(pkts[w]) + Len(encrypted_pkts[w])
      <3>1. \A a, b \in Nat : a + (b + 1) = (a + 1) + b
        OBVIOUS
      <3>2. Len(pkts'[w]) + (Len(encrypted_pkts[w]) + 1)
              = (Len(pkts'[w]) + 1) + Len(encrypted_pkts[w])
        BY <1>5, <1>6, <3>1, Zenon
      <3>3. Len(encrypted_pkts'[w]) = Len(encrypted_pkts[w]) + 1 /\ Len(pkts[w]) = Len(pkts'[w]) + 1
        BY <1>5, <1>6
      <3> QED BY <3>2, <3>3, Zenon
    <2>3. HeldCrypto'[w] = HeldCrypto[w]
      BY <2>1, <2>2, Zenon
    <2>4. pool' + HeldCrypto'[w] = pool + HeldCrypto[w]
      BY <1>2, <2>3, Zenon
    <2>5. \A k \in Workers : k # w =>
              /\ pkts'[k] = pkts[k] /\ encrypted_pkts'[k] = encrypted_pkts[k]
              /\ rx_to_crypto'[k] = rx_to_crypto[k] /\ crypto_to_tx'[k] = crypto_to_tx[k]
      BY <1>2, <1>5, <1>7 DEF IInv, TypeOK
    <2> QED BY <1>2, <1>8, <2>4, <2>5, WorkerConserves DEF IInv
  <1> QED BY <1>8, <1>9, <1>10, <1>11, <1>12, <1>13 DEF IInv

\* Returning a batch keeps the invariant; with rings as large as the pool
\* nothing is left over.
LEMMA EnqueueTxStep == ASSUME IInv, NEW w \in Workers, EnqueueTx(w) PROVE IInv'
  <1> DEFINE ring == crypto_to_tx[w]
             fs == encrypted_pkts[w]
             n == Enqueued(ring, fs)
  <1>1. /\ wpc[w] = "return" /\ fs \in Seq(Returned) /\ ring \in Seq(Returned)
        /\ ring_size \in Nat /\ Len(ring) <= ring_size /\ pkts[w] = <<>> /\ fs # <<>>
    BY DEF EnqueueTx, IInv, TypeOK, RingInv, WorkerInv
  <1>2. /\ n \in 0 .. Len(fs)
        /\ Len(ring) + Len(fs) <= ring_size => n = Len(fs)
        /\ ring \o SubSeq(fs, 1, n) \in Seq(Returned)
        /\ Len(ring \o SubSeq(fs, 1, n)) = Len(ring) + n
        /\ Len(ring) + n <= ring_size
        /\ Rest(fs, n) \in Seq(Returned) /\ Len(Rest(fs, n)) = Len(fs) - n
    BY <1>1, EnqueuedFacts
  <1>3. /\ crypto_to_tx' = [crypto_to_tx EXCEPT ![w] = ring \o SubSeq(fs, 1, n)]
        /\ encrypted_pkts' = [encrypted_pkts EXCEPT ![w] = Rest(fs, n)]
        /\ tx_dropped' = [tx_dropped EXCEPT ![w] = tx_dropped[w] + (Len(fs) - n)]
        /\ wpc' = [wpc EXCEPT ![w] = IF n = Len(fs) THEN "loop" ELSE "free"]
    BY DEF EnqueueTx, LeftOver
  <1>4. UNCHANGED <<pc, cur, burst, tx_pkts, unsent, reg, pkts, ring_size, rx_to_crypto,
                    rx_dropped, encrypted, decrypted, tx_marked, rx, tx, pool, rxq, sent,
                    nframes, force_quit, main>>
    BY DEF EnqueueTx, io, wires
  <1>5. Len(fs) \in Nat /\ Len(ring) \in Nat /\ n \in Nat /\ tx_dropped[w] \in Nat
    BY <1>1, <1>2, LenProperties DEF IInv, TypeOK
  <1> HIDE DEF n, ring, fs
  <1>6. Rest(fs, n) = <<>> <=> n = Len(fs)
    <2>1. Len(Rest(fs, n)) = 0 <=> n = Len(fs)
      BY <1>2, <1>5
    <2>2. Rest(fs, n) = <<>> <=> Len(Rest(fs, n)) = 0
      BY <1>2, EmptySeq
    <2> QED BY <2>1, <2>2
  <1>7. tx_dropped[w] + (Len(fs) - n) \in Nat
    BY <1>2, <1>5
  <1>8. TypeOK'
    BY <1>2, <1>3, <1>4, <1>7 DEF IInv, TypeOK
  <1>9. WireInv' /\ IoInv'
    BY <1>4 DEF IInv, WireInv, IoInv
  <1>10. /\ encrypted_pkts'[w] = Rest(fs, n) /\ crypto_to_tx'[w] = ring \o SubSeq(fs, 1, n)
         /\ wpc'[w] = IF n = Len(fs) THEN "loop" ELSE "free"
    BY <1>3 DEF IInv, TypeOK
  <1>11. WorkerInv'
    <2>1. \A k \in Workers : k # w =>
             wpc'[k] = wpc[k] /\ pkts'[k] = pkts[k] /\ encrypted_pkts'[k] = encrypted_pkts[k]
      BY <1>3, <1>4 DEF IInv, TypeOK
    <2> QED BY <1>1, <1>4, <1>6, <1>10, <2>1 DEF IInv, WorkerInv
  <1>12. RingInv'
    <2>1. Len(crypto_to_tx'[w]) <= ring_size
      BY <1>2, <1>10
    <2> QED BY <1>3, <1>4, <2>1 DEF IInv, RingInv, TypeOK
  <1>13. DropInv'
    <2>1. NbMbufs <= ring_size => n = Len(fs)
      <3>1. Len(fs) + Len(ring) <= NbMbufs
        BY HeldAtMost DEF IInv, ring, fs
      <3>2. NbMbufs \in Nat /\ ring_size \in Nat
        BY SizeAssumption DEF IInv, TypeOK
      <3>3. NbMbufs <= ring_size => Len(ring) + Len(fs) <= ring_size
        BY <1>5, <3>1, <3>2
      <3> QED BY <1>2, <3>3
    <2>2. n = Len(fs) /\ tx_dropped[w] = 0 => tx_dropped[w] + (Len(fs) - n) = 0
      BY <1>5
    <2>3. tx_dropped'[w] = tx_dropped[w] + (Len(fs) - n)
      BY <1>3 DEF IInv, TypeOK
    <2>4. \A k \in Workers : k # w => wpc'[k] = wpc[k] /\ tx_dropped'[k] = tx_dropped[k]
      BY <1>3 DEF IInv, TypeOK
    <2> QED BY <1>4, <1>10, <2>1, <2>2, <2>3, <2>4 DEF IInv, DropInv
  <1>14. NothingRunsAfterExit'
    BY <1>1, <1>4 DEF IInv, NothingRunsAfterExit
  <1>15. MbufConservation'
    <2>1. /\ HeldCrypto'[w] = Len(pkts[w]) + Len(encrypted_pkts'[w])
                                + Len(rx_to_crypto[w]) + Len(crypto_to_tx'[w])
          /\ HeldCrypto[w] = Len(pkts[w]) + Len(fs)
                                + Len(rx_to_crypto[w]) + Len(ring)
      BY <1>4, Zenon DEF HeldCrypto, ring, fs
    <2>2. Len(pkts[w]) = 0 /\ Len(rx_to_crypto[w]) \in Nat
      BY <1>1, HeldTypes, EmptySeq DEF IInv
    <2>4. 0 + (Len(fs) - n) + Len(rx_to_crypto[w]) + (Len(ring) + n)
            = 0 + Len(fs) + Len(rx_to_crypto[w]) + Len(ring)
      <3>0. \A a, b, m \in Nat : 0 + (a - m) + b = (0 + a + b) - m
        OBVIOUS
      <3>1. \A a, b \in Nat : 0 + a + b \in Nat
        OBVIOUS
      <3>2. Len(fs) \in Nat /\ n \in Nat /\ Len(rx_to_crypto[w]) \in Nat /\ Len(ring) \in Nat
        BY <1>5, <2>2
      <3>3. 0 + Len(fs) + Len(rx_to_crypto[w]) \in Nat
        BY <3>1, <3>2, Zenon
      <3>5. 0 + (Len(fs) - n) + Len(rx_to_crypto[w]) = (0 + Len(fs) + Len(rx_to_crypto[w])) - n
        BY <3>0, <3>2, Zenon
      <3>4. ((0 + Len(fs) + Len(rx_to_crypto[w])) - n) + (Len(ring) + n)
              = (0 + Len(fs) + Len(rx_to_crypto[w])) + Len(ring)
        BY <3>2, <3>3, Given, Zenon
      <3> QED BY <3>5, <3>4, Zenon
    <2>5. Len(encrypted_pkts'[w]) = Len(fs) - n /\ Len(crypto_to_tx'[w]) = Len(ring) + n
      BY <1>2, <1>10
    <2>6. HeldCrypto'[w] = HeldCrypto[w]
      BY <2>1, <2>2, <2>4, <2>5, Zenon
    <2>7. pool' + HeldCrypto'[w] = pool + HeldCrypto[w]
      BY <1>4, <2>6, Zenon
    <2>8. \A k \in Workers : k # w =>
              /\ pkts'[k] = pkts[k] /\ encrypted_pkts'[k] = encrypted_pkts[k]
              /\ rx_to_crypto'[k] = rx_to_crypto[k] /\ crypto_to_tx'[k] = crypto_to_tx[k]
      BY <1>3, <1>4 DEF IInv, TypeOK
    <2> QED BY <1>4, <1>8, <2>7, <2>8, WorkerConserves DEF IInv
  <1> QED BY <1>8, <1>9, <1>11, <1>12, <1>13, <1>14, <1>15 DEF IInv

\* Freeing what the ring did not take keeps the invariant.
LEMMA FreeTxStep == ASSUME IInv, NEW w \in Workers, FreeTx(w) PROVE IInv'
  <1> DEFINE fs == encrypted_pkts[w]
  <1>1. /\ wpc[w] = "free" /\ fs \in Seq(Returned) /\ fs # <<>> /\ pkts[w] = <<>>
        /\ pool' = pool + 1
        /\ encrypted_pkts' = [encrypted_pkts EXCEPT ![w] = Tail(fs)]
        /\ wpc' = [wpc EXCEPT ![w] = IF Len(fs) = 1 THEN "loop" ELSE "free"]
    BY DEF FreeTx, IInv, TypeOK, WorkerInv
  <1>2. UNCHANGED <<pc, cur, burst, tx_pkts, unsent, reg, pkts, ring_size, rx_to_crypto,
                    crypto_to_tx, rx_dropped, tx_dropped, encrypted, decrypted, tx_marked, rx, tx,
                    rxq, sent, nframes, force_quit, main>>
    BY DEF FreeTx, io, rings, counters, wires
  <1>3. /\ Tail(fs) \in Seq(Returned) /\ Len(Tail(fs)) = Len(fs) - 1
        /\ Len(fs) \in Nat /\ Len(fs) # 0 /\ Len(Tail(fs)) \in Nat
    <2>1. Tail(fs) \in Seq(Returned) /\ Len(Tail(fs)) = Len(fs) - 1
      BY <1>1, HeadTailProperties
    <2> QED BY <1>1, <2>1, EmptySeq, LenProperties
  <1> HIDE DEF fs
  <1>4. Tail(fs) = <<>> <=> Len(fs) = 1
    <2>1. Tail(fs) = <<>> <=> Len(Tail(fs)) = 0
      BY <1>3, EmptySeq
    <2>2. \A x, y \in Nat : x = y - 1 => (x = 0 <=> y = 1)
      OBVIOUS
    <2> QED BY <1>3, <2>1, <2>2, Zenon
  <1>5. pool \in Nat /\ pool + 1 \in Nat
    BY DEF IInv, TypeOK
  <1>6. TypeOK'
    BY <1>1, <1>2, <1>3, <1>5 DEF IInv, TypeOK
  <1>7. WireInv' /\ IoInv' /\ RingInv'
    BY <1>2 DEF IInv, WireInv, IoInv, RingInv
  <1>8. encrypted_pkts'[w] = Tail(fs) /\ wpc'[w] = IF Len(fs) = 1 THEN "loop" ELSE "free"
    BY <1>1 DEF IInv, TypeOK
  <1>9. WorkerInv'
    <2>1. \A k \in Workers : k # w =>
             wpc'[k] = wpc[k] /\ pkts'[k] = pkts[k] /\ encrypted_pkts'[k] = encrypted_pkts[k]
      BY <1>1, <1>2 DEF IInv, TypeOK
    <2> QED BY <1>1, <1>2, <1>4, <1>8, <2>1 DEF IInv, WorkerInv
  <1>10. DropInv'
    BY <1>1, <1>2 DEF IInv, DropInv, TypeOK
  <1>11. NothingRunsAfterExit'
    BY <1>1, <1>2 DEF IInv, NothingRunsAfterExit
  <1>12. MbufConservation'
    <2>1. /\ HeldCrypto'[w] = Len(pkts[w]) + Len(encrypted_pkts'[w])
                                + Len(rx_to_crypto[w]) + Len(crypto_to_tx[w])
          /\ HeldCrypto[w] = Len(pkts[w]) + Len(fs)
                                + Len(rx_to_crypto[w]) + Len(crypto_to_tx[w])
      BY <1>2, Zenon DEF HeldCrypto, fs
    <2>2. Len(pkts[w]) = 0 /\ Len(rx_to_crypto[w]) \in Nat /\ Len(crypto_to_tx[w]) \in Nat
      BY <1>1, HeldTypes, EmptySeq DEF IInv
    <2>3. \A a, b, c \in Nat : 0 + (a - 1) + b + c = (0 + a + b + c) - 1
      OBVIOUS
    <2>4. 0 + (Len(fs) - 1) + Len(rx_to_crypto[w]) + Len(crypto_to_tx[w])
            = (0 + Len(fs) + Len(rx_to_crypto[w]) + Len(crypto_to_tx[w])) - 1
      BY <1>3, <2>2, <2>3, Zenon
    <2>5. Len(encrypted_pkts'[w]) = Len(fs) - 1
      BY <1>3, <1>8
    <2>6. HeldCrypto'[w] = HeldCrypto[w] - 1
      BY <2>1, <2>2, <2>4, <2>5, Zenon
    <2>7. HeldCrypto[w] \in Nat
      BY HeldTypes DEF IInv
    <2>8. \A p, h \in Nat : (p + 1) + (h - 1) = p + h
      OBVIOUS
    <2>9. pool' + HeldCrypto'[w] = pool + HeldCrypto[w]
      BY <1>1, <1>5, <2>6, <2>7, <2>8, Zenon
    <2>10. \A k \in Workers : k # w =>
              /\ pkts'[k] = pkts[k] /\ encrypted_pkts'[k] = encrypted_pkts[k]
              /\ rx_to_crypto'[k] = rx_to_crypto[k] /\ crypto_to_tx'[k] = crypto_to_tx[k]
      BY <1>1, <1>2 DEF IInv, TypeOK
    <2> QED BY <1>2, <1>6, <2>9, <2>10, WorkerConserves DEF IInv
  <1> QED BY <1>6, <1>7, <1>9, <1>10, <1>11, <1>12 DEF IInv

-----------------------------------------------------------------------------
(* The wire, the signal and the end of main().                             *)

\* A frame from outside keeps the invariant.
LEMMA InjectStep == ASSUME IInv, NEW p \in Ports, Inject(p) PROVE IInv'
  <1> DEFINE f == [id |-> nframes + 1, at |-> p, port |-> p, enc |-> 0, marked |-> FALSE,
                   body |-> "plain"]
  <1>1. UNCHANGED <<pc, cur, burst, tx_pkts, unsent, reg, wpc, pkts, encrypted_pkts,
                    encrypt_ctx, decrypt_ctx, ring_size, rx_to_crypto, crypto_to_tx, rx_dropped,
                    tx_dropped, encrypted, decrypted, tx_marked, rx, tx, pool, sent, force_quit,
                    main>>
    BY DEF Inject, io, workers, rings, counters
  <1>2. nframes + 1 \in Nat /\ nframes' \in Nat
    BY DEF IInv, TypeOK, Inject
  <1>3. f \in Waiting(p)
    BY <1>2 DEF Waiting, Frame
  <1>4. <<f>> \in Seq(Waiting(p))
    <2> HIDE DEF f
    <2> QED BY <1>3
  <1>5. rxq' = [rxq EXCEPT ![p] = Arrive(rxq[p], <<f>>, RxQueueSize)]
    BY DEF Inject
  <1>6. Arrive(rxq[p], <<f>>, RxQueueSize) \in Seq(Waiting(p))
    <2> HIDE DEF f
    <2> QED BY <1>4, ArriveFacts, SizeAssumption DEF IInv, WireInv
  <1> HIDE DEF f
  <1>7. \A r \in Ports : rxq'[r] \in Seq(Waiting(r))
    BY <1>5, <1>6 DEF IInv, TypeOK, WireInv
  <1>8. rxq' \in [Ports -> Seq(Frame)]
    <2>1. Arrive(rxq[p], <<f>>, RxQueueSize) \in Seq(Frame)
      BY <1>6, FrameSets, SeqMonotonic
    <2> QED BY <1>5, <2>1 DEF IInv, TypeOK
  <1>9. TypeOK'
    BY <1>1, <1>2, <1>8 DEF IInv, TypeOK
  <1>10. WireInv'
    BY <1>1, <1>7 DEF IInv, WireInv
  <1>11. IoInv' /\ WorkerInv' /\ RingInv' /\ DropInv' /\ NothingRunsAfterExit'
    BY <1>1 DEF IInv, IoInv, WorkerInv, RingInv, DropInv, NothingRunsAfterExit
  <1>12. MbufConservation'
    BY <1>1, StillConserved DEF IInv
  <1> QED BY <1>9, <1>10, <1>11, <1>12 DEF IInv

\* A step that leaves all lcores, rings and wires alone.
LEMMA ControlStep ==
    ASSUME IInv,
           UNCHANGED <<pc, cur, burst, tx_pkts, unsent, reg, wpc, pkts, encrypted_pkts,
                       ring_size, rx_to_crypto, crypto_to_tx, rx_dropped, tx_dropped, encrypted,
                       decrypted, tx_marked, rx, tx, pool, rxq, sent, nframes>>,
           force_quit' \in BOOLEAN, main' \in {"wait", "exit"},
           main' = "exit" => main = "exit" \/ LcoresDone
    PROVE  IInv'
  <1>1. TypeOK'
    BY DEF IInv, TypeOK
  <1>2. WireInv' /\ IoInv' /\ WorkerInv' /\ RingInv' /\ DropInv'
    BY DEF IInv, WireInv, IoInv, WorkerInv, RingInv, DropInv
  <1>3. NothingRunsAfterExit'
    BY DEF IInv, NothingRunsAfterExit, LcoresDone
  <1>4. MbufConservation'
    BY StillConserved DEF IInv
  <1> QED BY <1>1, <1>2, <1>3, <1>4 DEF IInv

\* The invariant holds initially.
LEMMA InitInv == ASSUME Init PROVE IInv
  <1> USE DEF Init
  <1>1. TypeOK
    <2>1. /\ <<>> \in Seq(Received) /\ <<>> \in Seq(Returned) /\ <<>> \in Seq(Frame)
          /\ ring_size \in Nat /\ NbMbufs \in Nat
      BY EmptySeq, SizeAssumption
    <2> QED BY <2>1 DEF TypeOK
  <1>2. WireInv
    BY EmptySeq DEF WireInv
  <1>3. IoInv /\ WorkerInv /\ DropInv /\ NothingRunsAfterExit
    BY DEF IoInv, WorkerInv, DropInv, NothingRunsAfterExit
  <1>4. RingInv
    BY <1>1, EmptySeq DEF RingInv, TypeOK
  <1>5. MbufConservation
    <2>1. Len(<<>>) = 0
      BY EmptySeq
    <2>2. HeldIo \in [IoLcores -> Int] /\ \A l \in IoLcores : HeldIo[l] = 0
      BY <2>1 DEF HeldIo
    <2>3. HeldCrypto \in [Workers -> Int] /\ \A w \in Workers : HeldCrypto[w] = 0
      BY <2>1 DEF HeldCrypto
    <2>4. SumFunction(HeldIo) = 0 /\ SumFunction(HeldCrypto) = 0
      BY <2>2, <2>3, SumZero, LcoreAssumption
    <2> QED BY <2>4, SizeAssumption DEF MbufConservation, HeldIo, HeldCrypto
  <1> QED BY <1>1, <1>2, <1>3, <1>4, <1>5 DEF IInv

\* Every step keeps the invariant.
LEMMA StepInv == ASSUME IInv, [Step]_program PROVE IInv'
  <1>1. ASSUME NEW l \in IoLcores, IoStep(l) PROVE IInv'
    BY <1>1, TopStep, RxBurstStep, EnqueueRxStep, DropRxStep, DequeueTxStep, CountMarkedStep,
       SendStep, SendDoneStep DEF IoStep
  <1>2. ASSUME NEW w \in Workers, WorkerStep(w) PROVE IInv'
    BY <1>2, StartWorkerStep, QuitWorkerStep, DequeueCryptoStep, DecryptStep, EncryptStep,
       EnqueueTxStep, FreeTxStep DEF WorkerStep
  <1>3. ASSUME NEW p \in Ports, Inject(p) PROVE IInv'
    BY <1>3, InjectStep
  <1>4. CASE Signal
    <2>1. main \in {"wait", "exit"}
      BY DEF IInv, TypeOK
    <2> QED BY <1>4, <2>1, ControlStep DEF Signal, io, workers, rings, counters, wires
  <1>5. CASE WaitAndClose
    <2>1. force_quit \in BOOLEAN
      BY DEF IInv, TypeOK
    <2> QED BY <1>5, <2>1, ControlStep DEF WaitAndClose, io, workers, rings, counters, wires
  <1>6. CASE UNCHANGED program
    <2>1. main \in {"wait", "exit"} /\ force_quit \in BOOLEAN
      BY DEF IInv, TypeOK
    <2> QED BY <1>6, <2>1, ControlStep DEF program, io, workers, rings, counters, wires
  <1> QED BY <1>1, <1>2, <1>3, <1>4, <1>5, <1>6 DEF Step

\* Every step is one of the running program or leaves all but ended alone.
LEMMA NextIsStep == [Next]_vars => [Step]_program
  BY DEF Next, Alive, CryptoFails, Exited, vars

\* IInv is an invariant of the pipeline.
THEOREM Invariance == Spec => []IInv
  <1>1. IInv /\ [Next]_vars => IInv'
    BY NextIsStep, StepInv
  <1> QED BY <1>1, InitInv, PTL DEF Spec

\* Type correctness.
THEOREM Typing == Spec => [](TypeOK /\ ended \in BOOLEAN)
  <1>1. IInv => TypeOK
    BY DEF IInv
  <1>2. Init => ended \in BOOLEAN
    BY DEF Init
  <1>3. ended \in BOOLEAN /\ [Next]_vars => (ended \in BOOLEAN)'
    BY DEF Next, Alive, CryptoFails, Exited, vars
  <1> QED BY <1>1, <1>2, <1>3, Invariance, PTL DEF Spec

\* Every mbuf of the pool is free, with a lcore or in a ring, whatever the
\* interleaving: no partial enqueue, dequeue or transmit burst leaks one or
\* frees one twice.
THEOREM MbufsConserved == Spec => []MbufConservation
  <1>1. IInv => MbufConservation
    BY DEF IInv
  <1> QED BY <1>1, Invariance, PTL

\* main() closes the ports after every loop has ended.
THEOREM ClosesAfterLoops == Spec => []NothingRunsAfterExit
  <1>1. IInv => NothingRunsAfterExit
    BY DEF IInv
  <1> QED BY <1>1, Invariance, PTL

\* With rings no smaller than the pool no packet is ever dropped at a ring.
THEOREM RingsHoldThePool == Spec => []RingsNeverDrop
  <1>1. IInv => RingsNeverDrop
    <2> SUFFICES ASSUME IInv, NbMbufs <= ring_size
                 PROVE  SumFunction(rx_dropped) = 0 /\ SumFunction(tx_dropped) = 0
      BY DEF RingsNeverDrop
    <2>1. \A w \in Workers : rx_dropped[w] = 0 /\ tx_dropped[w] = 0
      BY DEF IInv, DropInv
    <2>2. rx_dropped \in [Workers -> Int] /\ tx_dropped \in [Workers -> Int]
      BY DEF IInv, TypeOK
    <2> QED BY <2>1, <2>2, SumZero, LcoreAssumption
  <1> QED BY <1>1, Invariance, PTL

\* The members of a sequence are of the sequence's kind.
LEMMA InSeqOf == ASSUME NEW F, NEW s \in Seq(F) PROVE InSeq(s) \subseteq F
  BY ElementOfSeq DEF InSeq

\* A frame that was sent was encrypted exactly once, for the port it left by,
\* and a worker tells an encrypted frame from another by its mark.
THEOREM EncryptsOnce == Spec => []EncryptedOnce
  <1>1. IInv => EncryptedOnce
    <2> SUFFICES ASSUME IInv PROVE EncryptedOnce
      OBVIOUS
    <2>1. ASSUME NEW q \in Ports, NEW f \in InSeq(sent[q])
          PROVE  f.enc = 1 /\ f.marked /\ f.at = Dst[q]
      <3>1. f \in Leaving(q)
        BY InSeqOf DEF IInv, WireInv
      <3> QED BY <3>1 DEF Leaving, Returned
    <2>2. ASSUME NEW w \in Workers, NEW f \in InSeq(rx_to_crypto[w]) \cup InSeq(pkts[w])
          PROVE  f.marked <=> f.enc = 1
      <3>1. f \in Received
        BY InSeqOf DEF IInv, TypeOK
      <3> QED BY <3>1 DEF Received, Frame
    <2> QED BY <2>1, <2>2 DEF EncryptedOnce
  <1> QED BY <1>1, Invariance, PTL

\* Every frame sent has its mark and an empty payload: what encrypt_packet()
\* leaves of it.
NothingButEmpty ==
    \A q \in Ports : \A f \in InSeq(sent[q]) : f.marked /\ f.body = "empty"

\* No payload comes out of the pipeline, under any schedule.
THEOREM SendsNoPayload == Spec => []NothingButEmpty
  <1>1. IInv => NothingButEmpty
    <2> SUFFICES ASSUME IInv, NEW q \in Ports, NEW f \in InSeq(sent[q])
                 PROVE  f.marked /\ f.body = "empty"
      BY DEF NothingButEmpty
    <2>1. f \in Leaving(q)
      BY InSeqOf DEF IInv, WireInv
    <2> QED BY <2>1 DEF Leaving, Returned
  <1> QED BY <1>1, Invariance, PTL

-----------------------------------------------------------------------------
(* The marks, when one lcore does the sending.                             *)

\* One lcore does all the receiving and sending: no one else writes the counter
\* of marked packets.
OneIo == \A k, l \in IoLcores : k = l

\* The frames each worker has encrypted and not handed over.
UnderWay == [w \in Workers |-> Returning(w)]

\* The frames each I/O lcore has collected and not sent.
Collected == [l \in IoLcores |-> Len(tx_pkts[l])]

\* The value a lcore will store in the counter is the counter with its group
\* added.
MarkInv == \A l \in IoLcores : pc[l] = "send" => reg[l] = tx_marked + Len(Group(l))

\* These are counts in a state that is type correct.
LEMMA MarkTypes ==
    ASSUME TypeOK
    PROVE  UnderWay \in [Workers -> Int] /\ Collected \in [IoLcores -> Int]
  <1>1. /\ \A w \in Workers : Len(encrypted_pkts[w]) \in Nat /\ Len(crypto_to_tx[w]) \in Nat
        /\ \A l \in IoLcores : Len(tx_pkts[l]) \in Int
    BY HeldTypes
  <1>2. ASSUME NEW w \in Workers PROVE Returning(w) \in Int
    <2>1. (IF wpc[w] = "free" THEN 0 ELSE Len(encrypted_pkts[w])) \in Nat
      BY <1>1
    <2>2. Returning(w) \in Nat
      BY <1>1, <2>1, NatSum, Zenon DEF Returning
    <2> QED BY <2>2
  <1> QED BY <1>1, <1>2 DEF UnderWay, Collected

\* The same after a step.
LEMMA MarkTypesNext ==
    ASSUME TypeOK'
    PROVE  UnderWay' \in [Workers -> Int] /\ Collected' \in [IoLcores -> Int]
  <1>1. /\ \A w \in Workers : Len(encrypted_pkts'[w]) \in Nat /\ Len(crypto_to_tx'[w]) \in Nat
        /\ \A l \in IoLcores : Len(tx_pkts'[l]) \in Int
    BY LenProperties DEF TypeOK
  <1>2. ASSUME NEW w \in Workers PROVE Returning(w)' \in Int
    <2>1. (IF wpc'[w] = "free" THEN 0 ELSE Len(encrypted_pkts'[w])) \in Nat
      BY <1>1
    <2>2. Returning(w)' \in Nat
      BY <1>1, <2>1, NatSum, Zenon DEF Returning
    <2> QED BY <2>2
  <1> QED BY <1>1, <1>2 DEF UnderWay, Collected

\* MarksBalance in terms of them.
LEMMA MarkSums ==
    /\ MarksBalance <=> SumFunction(encrypted) = tx_marked + SumFunction(tx_dropped)
                                                   + SumFunction(UnderWay) + SumFunction(Collected)
    /\ MarksBalance' <=> SumFunction(encrypted') = tx_marked' + SumFunction(tx_dropped')
                                                     + SumFunction(UnderWay')
                                                     + SumFunction(Collected')
  BY DEF MarksBalance, UnderWay, Collected

\* Their sums are integers.
LEMMA MarkSumsInt ==
    ASSUME TypeOK
    PROVE  /\ SumFunction(encrypted) \in Int /\ SumFunction(tx_dropped) \in Int
           /\ SumFunction(UnderWay) \in Int /\ SumFunction(Collected) \in Int
  <1>1. encrypted \in [Workers -> Int] /\ tx_dropped \in [Workers -> Int]
    BY DEF TypeOK
  <1> QED BY <1>1, MarkTypes, SumInt, LcoreAssumption

\* A step that marks, drops and moves no encrypted frame keeps the balance.
LEMMA MarksSame ==
    ASSUME MarksBalance, UNCHANGED <<encrypted, tx_dropped, tx_marked, tx_pkts>>,
           \A w \in Workers : Returning(w)' = Returning(w)
    PROVE  MarksBalance'
  <1>1. UnderWay' = UnderWay /\ Collected' = Collected
    BY DEF UnderWay, Collected
  <1> QED BY <1>1, MarkSums

\* What a worker encrypts it also returns, holds or drops.
LEMMA WorkerMarks ==
    ASSUME TypeOK, TypeOK', MarksBalance, NEW w \in Workers,
           \A k \in Workers : k # w =>
              encrypted'[k] = encrypted[k] /\ tx_dropped'[k] = tx_dropped[k]
              /\ Returning(k)' = Returning(k),
           UNCHANGED <<tx_marked, tx_pkts>>,
           encrypted'[w] - encrypted[w] =
             (tx_dropped'[w] - tx_dropped[w]) + (Returning(w)' - Returning(w))
    PROVE  MarksBalance'
  <1>1. /\ encrypted \in [Workers -> Int] /\ encrypted' \in [Workers -> Int]
        /\ tx_dropped \in [Workers -> Int] /\ tx_dropped' \in [Workers -> Int]
    <2>1. /\ encrypted \in [Workers -> Nat] /\ encrypted' \in [Workers -> Nat]
          /\ tx_dropped \in [Workers -> Nat] /\ tx_dropped' \in [Workers -> Nat]
      BY DEF TypeOK
    <2>2. [Workers -> Nat] \subseteq [Workers -> Int]
      OBVIOUS
    <2> QED BY <2>1, <2>2
  <1>2. UnderWay \in [Workers -> Int] /\ UnderWay' \in [Workers -> Int]
    BY MarkTypes, MarkTypesNext
  <1>3. \A k \in Workers : UnderWay[k] = Returning(k) /\ UnderWay'[k] = Returning(k)'
    BY DEF UnderWay
  <1>4. SumFunction(encrypted') = SumFunction(encrypted) + (encrypted'[w] - encrypted[w])
    BY <1>1, SumChange, LcoreAssumption
  <1>5. SumFunction(tx_dropped') = SumFunction(tx_dropped) + (tx_dropped'[w] - tx_dropped[w])
    BY <1>1, SumChange, LcoreAssumption
  <1>6. SumFunction(UnderWay') = SumFunction(UnderWay) + (Returning(w)' - Returning(w))
    <2>1. SumFunction(UnderWay') = SumFunction(UnderWay) + (UnderWay'[w] - UnderWay[w])
      BY <1>2, <1>3, SumChange, LcoreAssumption
    <2> QED BY <1>3, <2>1
  <1>7. Collected' = Collected
    BY DEF Collected
  <1>8. /\ SumFunction(encrypted) \in Int /\ SumFunction(tx_dropped) \in Int
        /\ SumFunction(UnderWay) \in Int /\ SumFunction(Collected) \in Int
    BY MarkSumsInt
  <1>9. /\ tx_marked \in Int /\ encrypted'[w] - encrypted[w] \in Int
        /\ tx_dropped'[w] - tx_dropped[w] \in Int /\ Returning(w)' - Returning(w) \in Int
    <2>1. encrypted[w] \in Int /\ encrypted'[w] \in Int
      BY <1>1
    <2>2. tx_dropped[w] \in Int /\ tx_dropped'[w] \in Int
      BY <1>1
    <2>3. Returning(w) \in Int /\ Returning(w)' \in Int
      BY <1>2, <1>3
    <2>4. tx_marked \in Int
      BY DEF TypeOK
    <2> HIDE <1>1, <1>2, <1>3
    <2>5. \A x, y \in Int : x - y \in Int
      OBVIOUS
    <2> QED BY <2>1, <2>2, <2>3, <2>4, <2>5, Zenon
  <1> DEFINE e == encrypted'[w] - encrypted[w]
             d == tx_dropped'[w] - tx_dropped[w]
             r == Returning(w)' - Returning(w)
  <1>10. SumFunction(encrypted) = tx_marked + SumFunction(tx_dropped) + SumFunction(UnderWay)
                                    + SumFunction(Collected)
    BY MarkSums
  <1>11. SumFunction(encrypted) + e = tx_marked + (SumFunction(tx_dropped) + d)
                                        + (SumFunction(UnderWay) + r) + SumFunction(Collected)
    <2>1. e = d + r /\ e \in Int /\ d \in Int /\ r \in Int /\ tx_marked \in Int
      BY <1>9
    <2> HIDE DEF e, d, r
    <2> QED BY <1>8, <1>10, <2>1
  <1> QED BY <1>4, <1>5, <1>6, <1>7, <1>11, MarkSums

\* A group depends on what its lcore has collected only.
LEMMA SameGroup == ASSUME UNCHANGED tx_pkts PROVE \A l : Group(l)' = Group(l)
  BY DEF Group, GroupPort, ForPort

\* Everything a group holds bears the mark.
LEMMA AllMarked ==
    ASSUME IInv, NEW l \in IoLcores, pc[l] \in {"group", "send"}
    PROVE  Marked(l) = Len(Group(l))
  <1>1. Group(l) \in Seq(Leaving(GroupPort(l)))
    BY GroupFacts
  <1>2. \A i \in 1 .. Len(Group(l)) : Group(l)[i] \in {f \in InSeq(Group(l)) : IsMarked(f)}
    <2> TAKE i \in 1 .. Len(Group(l))
    <2>1. Group(l)[i] \in Leaving(GroupPort(l))
      BY <1>1, ElementOfSeq
    <2> QED BY <2>1 DEF InSeq, IsMarked, Leaving, Returned
  <1> QED BY <1>1, <1>2, SelectAll DEF Marked

\* A worker's step keeps the balance: what it encrypts it holds, returns or
\* drops.
LEMMA MarkWorkerStep ==
    ASSUME IInv, IInv', MarkInv, MarksBalance, NEW w \in Workers, WorkerStep(w)
    PROVE  MarkInv' /\ MarksBalance'
  <1>1. UNCHANGED <<pc, reg, tx_pkts, tx_marked>>
    BY DEF WorkerStep, StartWorker, QuitWorker, DequeueCrypto, DecryptPacket, EncryptPacket,
           EnqueueTx, FreeTx, io, counters
  <1>2. MarkInv'
    BY <1>1, SameGroup DEF MarkInv
  <1>3. ASSUME UNCHANGED <<encrypted, tx_dropped, encrypted_pkts, crypto_to_tx>>,
               wpc[w] # "free", wpc'[w] # "free", wpc' = [wpc EXCEPT ![w] = wpc'[w]]
        PROVE  MarksBalance'
    <2>1. \A k \in Workers : Returning(k)' = Returning(k)
      BY <1>3 DEF Returning, IInv, TypeOK
    <2> QED BY <1>1, <1>3, <2>1, MarksSame
  <1>4. CASE StartWorker(w) \/ QuitWorker(w) \/ DequeueCrypto(w)
    <2>1. /\ UNCHANGED <<encrypted, tx_dropped, encrypted_pkts, crypto_to_tx>>
          /\ wpc[w] # "free" /\ wpc'[w] # "free" /\ wpc' = [wpc EXCEPT ![w] = wpc'[w]]
      BY <1>4 DEF StartWorker, QuitWorker, DequeueCrypto, rings, counters, IInv, TypeOK
    <2> QED BY <1>2, <1>3, <2>1
  <1>5. CASE DecryptPacket(w)
    <2>1. /\ wpc[w] = "crypt" /\ NextPacket(w, encrypted_pkts[w])
          /\ UNCHANGED <<encrypted, tx_dropped, encrypted_pkts, crypto_to_tx>>
      BY <1>5 DEF DecryptPacket, rings
    <2>2. wpc'[w] \in {"crypt", "loop", "return"} /\ wpc' = [wpc EXCEPT ![w] = wpc'[w]]
      BY <2>1, NextPacketFacts
    <2> QED BY <1>2, <1>3, <2>1, <2>2
  <1>6. CASE EncryptPacket(w)
    <2> DEFINE f == [RealEncrypt(Head(pkts[w]), encrypt_ctx[w]) EXCEPT !.port = Dst[@]]
    <2>1. /\ wpc[w] = "crypt" /\ NextPacket(w, <<f>>)
          /\ encrypted' = [encrypted EXCEPT ![w] = encrypted[w] + 1]
          /\ encrypted_pkts' = [encrypted_pkts EXCEPT ![w] = Append(encrypted_pkts[w], f)]
          /\ UNCHANGED <<tx_dropped, crypto_to_tx>>
      BY <1>6 DEF EncryptPacket, Collect, rings
    <2> HIDE DEF f
    <2>2. wpc'[w] \in {"crypt", "loop", "return"} /\ wpc' = [wpc EXCEPT ![w] = wpc'[w]]
      BY <2>1, NextPacketFacts
    <2>3. \A k \in Workers : k # w =>
              encrypted'[k] = encrypted[k] /\ tx_dropped'[k] = tx_dropped[k]
              /\ Returning(k)' = Returning(k)
      BY <2>1, <2>2 DEF Returning, IInv, TypeOK
    <2>4. /\ encrypted_pkts'[w] = Append(encrypted_pkts[w], f)
          /\ Len(encrypted_pkts[w]) \in Nat /\ Len(crypto_to_tx[w]) \in Nat
          /\ encrypted[w] \in Nat /\ tx_dropped[w] \in Nat
          /\ encrypted'[w] = encrypted[w] + 1 /\ tx_dropped'[w] = tx_dropped[w]
      BY <2>1, HeldTypes DEF IInv, TypeOK
    <2>5. Len(encrypted_pkts'[w]) = Len(encrypted_pkts[w]) + 1
      <3>1. encrypted_pkts'[w] \in Seq(Returned) /\ encrypted_pkts[w] \in Seq(Returned)
        BY DEF IInv, TypeOK
      <3>2. Len(encrypted_pkts'[w]) \in Nat
        BY <3>1, LenProperties
      <3> QED BY <2>4, <3>1, <3>2
    <2>6. /\ Returning(w) = Len(encrypted_pkts[w]) + Len(crypto_to_tx[w])
          /\ Returning(w)' = (Len(encrypted_pkts[w]) + 1) + Len(crypto_to_tx[w])
      BY <2>1, <2>2, <2>5, Zenon DEF Returning
    <2>7. /\ \A x, d \in Nat : (x + 1) - x = (d - d) + 1
          /\ \A a, b \in Nat : ((a + 1) + b) - (a + b) = 1
      OBVIOUS
    <2>8. (encrypted[w] + 1) - encrypted[w] =
            (tx_dropped[w] - tx_dropped[w])
            + (((Len(encrypted_pkts[w]) + 1) + Len(crypto_to_tx[w]))
                 - (Len(encrypted_pkts[w]) + Len(crypto_to_tx[w])))
      <3>1. (encrypted[w] + 1) - encrypted[w] = (tx_dropped[w] - tx_dropped[w]) + 1
        BY <2>4, <2>7, Zenon
      <3>2. ((Len(encrypted_pkts[w]) + 1) + Len(crypto_to_tx[w]))
              - (Len(encrypted_pkts[w]) + Len(crypto_to_tx[w])) = 1
        BY <2>4, <2>7, Zenon
      <3> QED BY <3>1, <3>2, Zenon
    <2>9. encrypted'[w] - encrypted[w] =
             (tx_dropped'[w] - tx_dropped[w]) + (Returning(w)' - Returning(w))
      BY <2>4, <2>6, <2>8, Zenon
    <2> QED BY <1>1, <1>2, <2>3, <2>9, WorkerMarks DEF IInv
  <1>7. CASE EnqueueTx(w)
    <2> DEFINE fs == encrypted_pkts[w]
               ring == crypto_to_tx[w]
               n == Enqueued(ring, fs)
    <2>1. /\ wpc[w] = "return" /\ UNCHANGED encrypted
          /\ crypto_to_tx' = [crypto_to_tx EXCEPT ![w] = ring \o SubSeq(fs, 1, n)]
          /\ encrypted_pkts' = [encrypted_pkts EXCEPT ![w] = Rest(fs, n)]
          /\ tx_dropped' = [tx_dropped EXCEPT ![w] = tx_dropped[w] + (Len(fs) - n)]
          /\ wpc' = [wpc EXCEPT ![w] = IF n = Len(fs) THEN "loop" ELSE "free"]
      BY <1>7 DEF EnqueueTx, LeftOver
    <2>2. /\ n \in 0 .. Len(fs) /\ Len(ring \o SubSeq(fs, 1, n)) = Len(ring) + n
          /\ Len(Rest(fs, n)) = Len(fs) - n
      BY EnqueuedFacts DEF IInv, TypeOK, RingInv
    <2>0. /\ Len(fs) \in Nat /\ Len(ring) \in Nat /\ tx_dropped[w] \in Nat
          /\ encrypted[w] \in Nat
      BY HeldTypes DEF IInv, TypeOK
    <2> HIDE DEF n, fs, ring
    <2>3. /\ Len(fs) \in Nat /\ Len(ring) \in Nat /\ n \in Nat /\ tx_dropped[w] \in Nat
          /\ encrypted[w] \in Nat
      BY <2>0, <2>2
    <2>4. \A k \in Workers : k # w =>
              encrypted'[k] = encrypted[k] /\ tx_dropped'[k] = tx_dropped[k]
              /\ Returning(k)' = Returning(k)
      BY <2>1 DEF Returning, IInv, TypeOK
    <2>5. /\ crypto_to_tx'[w] = ring \o SubSeq(fs, 1, n) /\ encrypted_pkts'[w] = Rest(fs, n)
          /\ wpc'[w] = IF n = Len(fs) THEN "loop" ELSE "free"
          /\ tx_dropped'[w] = tx_dropped[w] + (Len(fs) - n) /\ encrypted'[w] = encrypted[w]
      BY <2>1 DEF IInv, TypeOK
    <2>6. (IF wpc'[w] = "free" THEN 0 ELSE Len(encrypted_pkts'[w])) = 0
      <3>1. CASE n = Len(fs)
        <4>1. Len(Rest(fs, n)) = 0
          BY <2>2, <2>3, <3>1
        <4> QED BY <2>5, <4>1
      <3>2. CASE n # Len(fs)
        BY <2>5, <3>2
      <3> QED BY <3>1, <3>2
    <2>7. Len(crypto_to_tx'[w]) = Len(ring) + n
      BY <2>2, <2>5
    <2>8. /\ Returning(w) = Len(fs) + Len(ring)
          /\ Returning(w)' = 0 + (Len(ring) + n)
      BY <2>1, <2>6, <2>7, Zenon DEF Returning, fs, ring
    <2>9. encrypted[w] - encrypted[w] =
            ((tx_dropped[w] + (Len(fs) - n)) - tx_dropped[w])
            + ((0 + (Len(ring) + n)) - (Len(fs) + Len(ring)))
      <3>1. \A x \in Nat : x - x = 0
        OBVIOUS
      <3>2. \A d, a, m \in Nat : (d + (a - m)) - d = a - m
        OBVIOUS
      <3>3. \A a, b, m \in Nat : 0 = (a - m) + ((0 + (b + m)) - (a + b))
        OBVIOUS
      <3>4. 0 = (Len(fs) - n) + ((0 + (Len(ring) + n)) - (Len(fs) + Len(ring)))
        BY <2>3, <3>3, Zenon
      <3>5. (tx_dropped[w] + (Len(fs) - n)) - tx_dropped[w] = Len(fs) - n
        BY <2>3, <3>2, Zenon
      <3> QED BY <2>3, <3>1, <3>4, <3>5, Zenon
    <2>10. encrypted'[w] - encrypted[w] =
             (tx_dropped'[w] - tx_dropped[w]) + (Returning(w)' - Returning(w))
      BY <2>5, <2>8, <2>9, Zenon
    <2> QED BY <1>1, <1>2, <2>4, <2>10, WorkerMarks DEF IInv
  <1>8. CASE FreeTx(w)
    <2>1. /\ wpc[w] = "free" /\ UNCHANGED <<encrypted, tx_dropped, crypto_to_tx>>
          /\ encrypted_pkts' = [encrypted_pkts EXCEPT ![w] = Tail(encrypted_pkts[w])]
          /\ wpc' = [wpc EXCEPT ![w] =
                         IF Len(encrypted_pkts[w]) = 1 THEN "loop" ELSE "free"]
      BY <1>8 DEF FreeTx, counters, rings
    <2>2. encrypted_pkts[w] \in Seq(Returned) /\ encrypted_pkts[w] # <<>>
      BY <2>1 DEF IInv, TypeOK, WorkerInv
    <2>3. Len(Tail(encrypted_pkts[w])) = Len(encrypted_pkts[w]) - 1
      BY <2>2, HeadTailProperties
    <2>4. (IF wpc'[w] = "free" THEN 0 ELSE Len(encrypted_pkts'[w])) = 0
      <3>1. CASE Len(encrypted_pkts[w]) = 1
        <4>1. Len(Tail(encrypted_pkts[w])) = 0
          BY <2>3, <3>1
        <4> QED BY <2>1, <4>1 DEF IInv, TypeOK
      <3>2. CASE Len(encrypted_pkts[w]) # 1
        BY <2>1, <3>2 DEF IInv, TypeOK
      <3> QED BY <3>1, <3>2
    <2>5. Returning(w)' = Returning(w)
      BY <2>1, <2>4, Zenon DEF Returning
    <2>6. \A k \in Workers : k # w => Returning(k)' = Returning(k)
      BY <2>1 DEF Returning, IInv, TypeOK
    <2> QED BY <1>1, <1>2, <2>1, <2>5, <2>6, MarksSame
  <1> QED BY <1>2, <1>4, <1>5, <1>6, <1>7, <1>8 DEF WorkerStep

\* A step of the only I/O lcore keeps the balance: what it counts it takes out
\* of its batch.
LEMMA MarkIoStep ==
    ASSUME IInv, IInv', MarkInv, MarksBalance, OneIo, NEW l \in IoLcores, IoStep(l)
    PROVE  MarkInv' /\ MarksBalance'
  <1>1. IoLcores = {l}
    BY DEF OneIo
  <1>2. ASSUME pc' = [pc EXCEPT ![l] = pc'[l]], pc'[l] # "send" PROVE MarkInv'
    BY <1>1, <1>2 DEF MarkInv
  <1>3. ASSUME UNCHANGED <<encrypted, tx_dropped, tx_marked, tx_pkts, wpc, encrypted_pkts,
                           crypto_to_tx>>
        PROVE  MarksBalance'
    <2>1. \A w \in Workers : Returning(w)' = Returning(w)
      BY <1>3 DEF Returning
    <2> QED BY <1>3, <2>1, MarksSame
  <1>4. CASE Top(l) \/ SendDone(l)
    <2>1. /\ UNCHANGED <<encrypted, tx_dropped, tx_marked, tx_pkts, wpc, encrypted_pkts,
                         crypto_to_tx>>
          /\ pc' = [pc EXCEPT ![l] = pc'[l]] /\ pc'[l] # "send"
      BY <1>4 DEF Top, SendDone, workers, rings, counters, IInv, TypeOK
    <2> QED BY <1>2, <1>3, <2>1
  <1>5. CASE RxBurst(l)
    <2>1. /\ UNCHANGED <<encrypted, tx_dropped, tx_marked, tx_pkts, wpc, encrypted_pkts,
                         crypto_to_tx>>
          /\ pc[l] = "rx" /\ (NextPort(l) \/ pc' = [pc EXCEPT ![l] = "enqueue"])
      BY <1>5 DEF RxBurst, workers, rings
    <2>2. pc' = [pc EXCEPT ![l] = pc'[l]] /\ pc'[l] # "send"
      BY <2>1, NextPortFacts DEF IInv, TypeOK
    <2> QED BY <1>2, <1>3, <2>1, <2>2
  <1>6. CASE EnqueueRx(l)
    <2>1. /\ UNCHANGED <<encrypted, tx_dropped, tx_marked, tx_pkts, wpc, encrypted_pkts,
                         crypto_to_tx>>
          /\ pc[l] = "enqueue" /\ (NextPort(l) \/ pc' = [pc EXCEPT ![l] = "drop"])
      BY <1>6 DEF EnqueueRx, workers, counters
    <2>2. pc' = [pc EXCEPT ![l] = pc'[l]] /\ pc'[l] # "send"
      BY <2>1, NextPortFacts DEF IInv, TypeOK
    <2> QED BY <1>2, <1>3, <2>1, <2>2
  <1>7. CASE DropRx(l)
    <2>1. /\ UNCHANGED <<encrypted, tx_dropped, tx_marked, tx_pkts, wpc, encrypted_pkts,
                         crypto_to_tx>>
          /\ pc[l] = "drop" /\ NextPort(l)
      BY <1>7 DEF DropRx, workers, rings
    <2>2. pc' = [pc EXCEPT ![l] = pc'[l]] /\ pc'[l] # "send"
      BY <2>1, NextPortFacts
    <2> QED BY <1>2, <1>3, <2>1, <2>2
  <1>8. CASE CountMarked(l)
    <2>1. /\ UNCHANGED <<encrypted, tx_dropped, tx_marked, tx_pkts, wpc, encrypted_pkts,
                         crypto_to_tx>>
          /\ pc[l] = "group" /\ reg' = [reg EXCEPT ![l] = tx_marked + Marked(l)]
      BY <1>8 DEF CountMarked, workers, rings, counters
    <2>2. Marked(l) = Len(Group(l)) /\ Group(l)' = Group(l)
      BY <2>1, AllMarked, SameGroup
    <2>3. reg'[l] = tx_marked' + Len(Group(l)')
      BY <2>1, <2>2 DEF IInv, TypeOK
    <2>4. MarkInv'
      BY <1>1, <2>3 DEF MarkInv
    <2> QED BY <1>3, <2>1, <2>4
  <1>9. CASE DequeueTx(l)
    <2> DEFINE ring == crypto_to_tx[IoPair]
               n == Dequeued(ring)
    <2>1. /\ pc[l] = "tx" /\ tx_pkts' = [tx_pkts EXCEPT ![l] = SubSeq(ring, 1, n)]
          /\ crypto_to_tx' = [crypto_to_tx EXCEPT ![IoPair] = Rest(ring, n)]
          /\ pc' = [pc EXCEPT ![l] = IF n > 0 THEN "group" ELSE "top"]
          /\ UNCHANGED <<encrypted, tx_dropped, tx_marked, wpc, encrypted_pkts>>
      BY <1>9 DEF DequeueTx, workers, counters
    <2>2. /\ n \in Nat /\ Len(SubSeq(ring, 1, n)) = n /\ Len(Rest(ring, n)) = Len(ring) - n
          /\ Len(ring) \in Nat
      BY IoPairWorks, DequeuedFacts, LenProperties DEF IInv, TypeOK
    <2> HIDE DEF n, ring
    <2>3. MarkInv'
      BY <1>2, <2>1 DEF IInv, TypeOK
    <2>4. /\ tx_pkts[l] = <<>> /\ tx_pkts'[l] = SubSeq(ring, 1, n)
          /\ crypto_to_tx'[IoPair] = Rest(ring, n)
      <3>1. tx_pkts[l] = <<>>
        BY <2>1 DEF IInv, IoInv
      <3>2. tx_pkts'[l] = SubSeq(ring, 1, n)
        BY <2>1 DEF IInv, TypeOK
      <3>3. crypto_to_tx'[IoPair] = Rest(ring, n)
        BY <2>1, IoPairWorks DEF IInv, TypeOK
      <3> QED BY <3>1, <3>2, <3>3
    <2>5. Collected[l] = 0 /\ Collected'[l] = n
      BY <2>2, <2>4, EmptySeq DEF Collected
    <2>6. SumFunction(Collected') = SumFunction(Collected) + n
      <3>1. Collected \in [IoLcores -> Int] /\ Collected' \in [IoLcores -> Int]
        BY MarkTypes, MarkTypesNext DEF IInv
      <3>2. \A k \in IoLcores : k # l => Collected'[k] = Collected[k]
        BY <1>1
      <3>3. SumFunction(Collected') = SumFunction(Collected) + (Collected'[l] - Collected[l])
        BY <3>1, <3>2, SumChange, LcoreAssumption
      <3> QED BY <2>2, <2>5, <3>3
    <2>7. UnderWay'[IoPair] - UnderWay[IoPair] = 0 - n
      <3>1. (IF wpc[IoPair] = "free" THEN 0 ELSE Len(encrypted_pkts[IoPair])) \in Nat
        BY HeldTypes, IoPairWorks DEF IInv
      <3> DEFINE e == IF wpc[IoPair] = "free" THEN 0 ELSE Len(encrypted_pkts[IoPair])
      <3>2. UnderWay[IoPair] = e + Len(ring) /\ UnderWay'[IoPair] = e + Len(crypto_to_tx'[IoPair])
        BY <2>1, IoPairWorks, Zenon DEF UnderWay, Returning, ring
      <3>3. Len(crypto_to_tx'[IoPair]) = Len(ring) - n
        BY <2>2, <2>4
      <3>4. \A x, y, m \in Nat : (x + (y - m)) - (x + y) = 0 - m
        OBVIOUS
      <3> HIDE DEF e
      <3>5. e \in Nat
        BY <3>1 DEF e
      <3>6. (e + (Len(ring) - n)) - (e + Len(ring)) = 0 - n
        BY <2>2, <3>4, <3>5, Zenon
      <3> QED BY <3>2, <3>3, <3>6, Zenon
    <2>8. SumFunction(UnderWay') = SumFunction(UnderWay) - n
      <3>1. UnderWay \in [Workers -> Int] /\ UnderWay' \in [Workers -> Int]
        BY MarkTypes, MarkTypesNext DEF IInv
      <3>2. \A k \in Workers : k # IoPair => UnderWay'[k] = UnderWay[k]
        BY <2>1 DEF UnderWay, Returning, IInv, TypeOK
      <3>3. SumFunction(UnderWay')
              = SumFunction(UnderWay) + (UnderWay'[IoPair] - UnderWay[IoPair])
        BY <3>1, <3>2, SumChange, LcoreAssumption, IoPairWorks
      <3>4. SumFunction(UnderWay) \in Int
        BY MarkSumsInt DEF IInv
      <3> QED BY <2>2, <2>7, <3>3, <3>4
    <2>9. MarksBalance'
      <3>1. /\ SumFunction(tx_dropped) \in Int /\ tx_marked \in Int /\ n \in Int
            /\ SumFunction(UnderWay) \in Int /\ SumFunction(Collected) \in Int
        <4>1. TypeOK
          BY DEF IInv
        <4>2. tx_marked \in Nat
          BY <4>1 DEF TypeOK
        <4>3. tx_marked \in Int /\ n \in Int
          BY <2>2, <4>2
        <4> QED BY <4>1, <4>3, MarkSumsInt
      <3>2. SumFunction(encrypted) = tx_marked + SumFunction(tx_dropped) + SumFunction(UnderWay)
                                       + SumFunction(Collected)
        BY MarkSums
      <3>3. tx_marked + SumFunction(tx_dropped) + SumFunction(UnderWay) + SumFunction(Collected)
              = tx_marked + SumFunction(tx_dropped) + (SumFunction(UnderWay) - n)
                  + (SumFunction(Collected) + n)
        BY <3>1
      <3>4. SumFunction(encrypted') = SumFunction(encrypted)
              /\ SumFunction(tx_dropped') = SumFunction(tx_dropped) /\ tx_marked' = tx_marked
        BY <2>1
      <3> QED BY <2>6, <2>8, <3>2, <3>3, <3>4, MarkSums
    <2> QED BY <2>3, <2>9
  <1>10. CASE Send(l)
    <2> DEFINE G == Group(l)
               rest == Select(tx_pkts[l], InSeq(tx_pkts[l]) \ ForPort(tx_pkts[l], GroupPort(l)))
    <2>1. /\ pc[l] = "send" /\ tx_marked' = reg[l] /\ tx_pkts' = [tx_pkts EXCEPT ![l] = rest]
          /\ pc' = [pc EXCEPT ![l] = "sent"]
          /\ UNCHANGED <<encrypted, tx_dropped, wpc, encrypted_pkts, crypto_to_tx>>
      BY <1>10 DEF Send, workers, rings
    <2>2. Len(G) \in Nat /\ Len(rest) \in Nat /\ Len(G) + Len(rest) = Len(tx_pkts[l])
      BY <2>1, GroupFacts
    <2>3. tx_marked' = tx_marked + Len(G)
      BY <2>1 DEF MarkInv
    <2> HIDE DEF G, rest
    <2>4. MarkInv'
      BY <1>2, <2>1 DEF IInv, TypeOK
    <2>5. SumFunction(Collected') = SumFunction(Collected) - Len(G)
      <3>1. Collected \in [IoLcores -> Int] /\ Collected' \in [IoLcores -> Int]
        BY MarkTypes, MarkTypesNext DEF IInv
      <3>2. \A k \in IoLcores : k # l => Collected'[k] = Collected[k]
        BY <1>1
      <3>3. SumFunction(Collected') = SumFunction(Collected) + (Collected'[l] - Collected[l])
        BY <3>1, <3>2, SumChange, LcoreAssumption
      <3>4. Collected'[l] = Len(rest) /\ Collected[l] = Len(tx_pkts[l])
        BY <2>1 DEF Collected, IInv, TypeOK
      <3>5. \A g, r, t \in Nat : g + r = t => r - t = 0 - g
        OBVIOUS
      <3>6. Len(tx_pkts[l]) \in Nat
        BY HeldTypes DEF IInv
      <3>7. Collected'[l] - Collected[l] = 0 - Len(G)
        <4>1. Len(rest) - Len(tx_pkts[l]) = 0 - Len(G)
          BY <2>2, <3>5, <3>6, Zenon
        <4> QED BY <3>4, <4>1, Zenon
      <3>8. SumFunction(Collected) \in Int
        BY MarkSumsInt DEF IInv
      <3> QED BY <2>2, <3>3, <3>7, <3>8
    <2>6. UnderWay' = UnderWay
      BY <2>1 DEF UnderWay, Returning
    <2>7. MarksBalance'
      <3>1. /\ SumFunction(tx_dropped) \in Int /\ tx_marked \in Int /\ Len(G) \in Int
            /\ SumFunction(UnderWay) \in Int /\ SumFunction(Collected) \in Int
        <4>1. TypeOK
          BY DEF IInv
        <4>2. tx_marked \in Nat
          BY <4>1 DEF TypeOK
        <4>3. tx_marked \in Int /\ Len(G) \in Int
          BY <2>2, <4>2
        <4> QED BY <4>1, <4>3, MarkSumsInt
      <3>2. SumFunction(encrypted) = tx_marked + SumFunction(tx_dropped) + SumFunction(UnderWay)
                                       + SumFunction(Collected)
        BY MarkSums
      <3>3. \A m, d, u, c, g \in Int : m + d + u + c = (m + g) + d + u + (c - g)
        OBVIOUS
      <3>4. tx_marked + SumFunction(tx_dropped) + SumFunction(UnderWay) + SumFunction(Collected)
              = (tx_marked + Len(G)) + SumFunction(tx_dropped) + SumFunction(UnderWay)
                  + (SumFunction(Collected) - Len(G))
        BY <3>1, <3>3
      <3>5. SumFunction(encrypted') = SumFunction(encrypted)
              /\ SumFunction(tx_dropped') = SumFunction(tx_dropped)
              /\ SumFunction(UnderWay') = SumFunction(UnderWay)
        BY <2>1, <2>6
      <3> QED BY <2>3, <2>5, <3>2, <3>4, <3>5, MarkSums
    <2> QED BY <2>4, <2>7
  <1> QED BY <1>4, <1>5, <1>6, <1>7, <1>8, <1>9, <1>10 DEF IoStep

\* The balance holds initially.
LEMMA MarkInit == ASSUME Init PROVE MarkInv /\ MarksBalance
  <1> USE DEF Init
  <1>1. TypeOK
    BY InitInv DEF IInv
  <1>2. Len(<<>>) = 0
    BY EmptySeq
  <1>3. UnderWay \in [Workers -> Int] /\ \A w \in Workers : UnderWay[w] = 0
    BY <1>2 DEF UnderWay, Returning
  <1>4. Collected \in [IoLcores -> Int] /\ \A l \in IoLcores : Collected[l] = 0
    BY <1>2 DEF Collected
  <1>5. /\ encrypted \in [Workers -> Int] /\ \A w \in Workers : encrypted[w] = 0
        /\ tx_dropped \in [Workers -> Int] /\ \A w \in Workers : tx_dropped[w] = 0
    OBVIOUS
  <1>6. /\ SumFunction(encrypted) = 0 /\ SumFunction(tx_dropped) = 0
        /\ SumFunction(UnderWay) = 0 /\ SumFunction(Collected) = 0
    BY <1>3, <1>4, <1>5, SumZero, LcoreAssumption
  <1>7. MarksBalance
    BY <1>6, MarkSums
  <1> QED BY <1>7 DEF MarkInv

\* Every step keeps the balance.
LEMMA MarkNext ==
    ASSUME OneIo, IInv, IInv', MarkInv, MarksBalance, [Step]_program
    PROVE  MarkInv' /\ MarksBalance'
  <1>1. ASSUME UNCHANGED <<pc, reg, tx_pkts, tx_marked, encrypted, tx_dropped, wpc,
                           encrypted_pkts, crypto_to_tx>>
        PROVE  MarkInv' /\ MarksBalance'
    <2>1. \A w \in Workers : Returning(w)' = Returning(w)
      BY <1>1 DEF Returning
    <2>2. MarkInv'
      BY <1>1, SameGroup DEF MarkInv
    <2> QED BY <1>1, <2>1, <2>2, MarksSame
  <1>2. CASE (\E p \in Ports : Inject(p)) \/ Signal \/ WaitAndClose \/ UNCHANGED program
    BY <1>1, <1>2 DEF Inject, Signal, WaitAndClose, program, io, workers, rings, counters
  <1> QED BY <1>2, MarkIoStep, MarkWorkerStep DEF Step

\* With one I/O lcore the marked packets that were counted, those dropped and
\* those under way are the packets encrypted. The run pipeline_two_io shows that
\* two lcores break it.
THEOREM MarksAddUp ==
    ASSUME OneIo
    PROVE  Spec => []MarksBalance
  <1>1. Init => IInv /\ MarkInv /\ MarksBalance
    BY InitInv, MarkInit
  <1>2. IInv /\ MarkInv /\ MarksBalance /\ [Next]_vars
          => (IInv /\ MarkInv /\ MarksBalance)'
    BY NextIsStep, StepInv, MarkNext
  <1> QED BY <1>1, <1>2, PTL DEF Spec

-----------------------------------------------------------------------------
(* The frames on their way, as numbers.                                    *)

\* The frames that came from p, with and without the mark.
DoneOf(p) == {f \in Frame : f.at = p /\ f.marked}
FreshOf(p) == {f \in Frame : f.at = p /\ ~f.marked}

\* Their numbers in s.
DoneIds(s, p) == IdsIn(s, DoneOf(p))
FreshIds(s, p) == IdsIn(s, FreshOf(p))

\* What comes back from the only lcore's worker, and what is on its way there.
Back == (tx_pkts[TheIo] \o crypto_to_tx[IoPair]) \o encrypted_pkts[IoPair]
Held == (pkts[IoPair] \o rx_to_crypto[IoPair]) \o burst[TheIo]

\* The frames bear numbers.
LEMMA FramesNumbered == Numbered(Frame)
  BY DEF Numbered, Frame

\* What the numbers of a direction are made of.
LEMMA DirectionIds ==
    ASSUME NEW p
    PROVE  /\ DoneIds(<<>>, p) = <<>> /\ FreshIds(<<>>, p) = <<>>
           /\ \A s \in Seq(Frame) : DoneIds(s, p) \in Seq(Nat) /\ FreshIds(s, p) \in Seq(Nat)
           /\ \A s, t \in Seq(Frame) : /\ DoneIds(s \o t, p) = DoneIds(s, p) \o DoneIds(t, p)
                                       /\ FreshIds(s \o t, p) = FreshIds(s, p) \o FreshIds(t, p)
           /\ \A f \in Frame : /\ DoneIds(<<f>>, p) = IF f \in DoneOf(p) THEN <<f.id>> ELSE <<>>
                               /\ FreshIds(<<f>>, p) = IF f \in FreshOf(p) THEN <<f.id>> ELSE <<>>
  <1>1. DoneIds(<<>>, p) = <<>> /\ FreshIds(<<>>, p) = <<>>
    BY SelectEmpty, NumbersNone DEF DoneIds, FreshIds, IdsIn
  <1>2. ASSUME NEW s \in Seq(Frame) PROVE DoneIds(s, p) \in Seq(Nat) /\ FreshIds(s, p) \in Seq(Nat)
    BY FramesNumbered, IdsInType DEF DoneIds, FreshIds
  <1>3. ASSUME NEW s \in Seq(Frame), NEW t \in Seq(Frame)
        PROVE  /\ DoneIds(s \o t, p) = DoneIds(s, p) \o DoneIds(t, p)
               /\ FreshIds(s \o t, p) = FreshIds(s, p) \o FreshIds(t, p)
    BY FramesNumbered, IdsInConcat DEF DoneIds, FreshIds
  <1>4. ASSUME NEW f \in Frame
        PROVE  /\ DoneIds(<<f>>, p) = IF f \in DoneOf(p) THEN <<f.id>> ELSE <<>>
               /\ FreshIds(<<f>>, p) = IF f \in FreshOf(p) THEN <<f.id>> ELSE <<>>
    BY FramesNumbered, IdsInOne DEF DoneIds, FreshIds
  <1> QED BY <1>1, <1>2, <1>3, <1>4

\* Frames outside a direction have no numbers in it.
LEMMA OtherIds ==
    ASSUME NEW p, NEW s \in Seq(Frame)
    PROVE  /\ (\A i \in 1 .. Len(s) : s[i] \notin DoneOf(p)) => DoneIds(s, p) = <<>>
           /\ (\A i \in 1 .. Len(s) : s[i] \notin FreshOf(p)) => FreshIds(s, p) = <<>>
  BY FramesNumbered, IdsInNone DEF DoneIds, FreshIds

\* The numbers under way, when h is held, q queued and b comes back.
LEMMA WayParts ==
    ASSUME NEW p, NEW b \in Seq(Frame), NEW h \in Seq(Frame), NEW q \in Seq(Frame)
    PROVE  Ids(Done(b, p) \o Fresh(h \o q, p))
              = DoneIds(b, p) \o (FreshIds(h, p) \o FreshIds(q, p))
  <1>1. PICK u \in Seq(Frame) : u = h \o q
    BY ConcatProperties
  <1>2. Done(b, p) = Select(b, DoneOf(p)) /\ Select(b, DoneOf(p)) \in Seq(Frame)
    <2>1. \A i \in 1 .. Len(b) : b[i] \in {f \in InSeq(b) : f.at = p /\ f.marked}
                                   <=> b[i] \in DoneOf(p)
      <3> TAKE i \in 1 .. Len(b)
      <3>1. b[i] \in Frame /\ b[i] \in InSeq(b)
        BY ElementOfSeq DEF InSeq
      <3> QED BY <3>1 DEF DoneOf
    <2>2. Done(b, p) = Select(b, DoneOf(p))
      BY <2>1, SelectSame DEF Done
    <2> QED BY <2>2, FramesNumbered, IdsInType
  <1>3. Fresh(u, p) = Select(u, FreshOf(p)) /\ Select(u, FreshOf(p)) \in Seq(Frame)
    <2>1. \A i \in 1 .. Len(u) : u[i] \in {f \in InSeq(u) : f.at = p /\ ~f.marked}
                                   <=> u[i] \in FreshOf(p)
      <3> TAKE i \in 1 .. Len(u)
      <3>1. u[i] \in Frame /\ u[i] \in InSeq(u)
        BY ElementOfSeq DEF InSeq
      <3> QED BY <3>1 DEF FreshOf
    <2>2. Fresh(u, p) = Select(u, FreshOf(p))
      BY <2>1, SelectSame DEF Fresh
    <2> QED BY <2>2, FramesNumbered, IdsInType
  <1>4. PICK x \in Seq(Frame) : x = Done(b, p)
    BY <1>2
  <1>5. PICK y \in Seq(Frame) : y = Fresh(u, p)
    BY <1>3
  <1>6. Ids(x \o y) = Ids(x) \o Ids(y)
    BY FramesNumbered, NumbersConcat
  <1>7. Ids(x) = DoneIds(b, p)
    BY <1>2, <1>4 DEF DoneIds, IdsIn
  <1>8. Ids(y) = FreshIds(u, p)
    BY <1>3, <1>5 DEF FreshIds, IdsIn
  <1>9. FreshIds(u, p) = FreshIds(h, p) \o FreshIds(q, p)
    BY <1>1, DirectionIds, Zenon
  <1> QED BY <1>1, <1>4, <1>5, <1>6, <1>7, <1>8, <1>9, Zenon

\* Sequences of the frames a worker receives or returns are sequences of frames.
LEMMA KindsAreFrames ==
    /\ \A s : s \in Seq(Received) => s \in Seq(Frame)
    /\ \A s : s \in Seq(Returned) => s \in Seq(Frame)
    /\ \A s, p : s \in Seq(Waiting(p)) => s \in Seq(Frame)
    /\ \A s, p : s \in Seq(Leaving(p)) => s \in Seq(Returned)
  <1>1. /\ Received \subseteq Frame /\ Returned \subseteq Frame
        /\ \A p : Waiting(p) \subseteq Frame /\ Leaving(p) \subseteq Returned
    BY FrameSets
  <1>2. /\ \A s : s \in Seq(Received) => s \in Seq(Frame)
        /\ \A s : s \in Seq(Returned) => s \in Seq(Frame)
    BY <1>1, SeqMonotonic
  <1>3. ASSUME NEW s, NEW p, s \in Seq(Waiting(p)) PROVE s \in Seq(Frame)
    BY <1>1, <1>3, SeqMonotonic
  <1>4. ASSUME NEW s, NEW p, s \in Seq(Leaving(p)) PROVE s \in Seq(Returned)
    BY <1>1, <1>4, SeqMonotonic
  <1> QED BY <1>2, <1>3, <1>4

\* The parts of the way, in a state that is type correct.
LEMMA WayTypes ==
    ASSUME TypeOK, TheIo \in IoLcores
    PROVE  /\ tx_pkts[TheIo] \in Seq(Frame) /\ crypto_to_tx[IoPair] \in Seq(Frame)
           /\ encrypted_pkts[IoPair] \in Seq(Frame)
           /\ pkts[IoPair] \in Seq(Frame) /\ rx_to_crypto[IoPair] \in Seq(Frame)
           /\ burst[TheIo] \in Seq(Frame)
           /\ Back \in Seq(Frame) /\ Held \in Seq(Frame)
  <1>1. /\ tx_pkts[TheIo] \in Seq(Frame) /\ crypto_to_tx[IoPair] \in Seq(Frame)
        /\ encrypted_pkts[IoPair] \in Seq(Frame)
        /\ pkts[IoPair] \in Seq(Frame) /\ rx_to_crypto[IoPair] \in Seq(Frame)
        /\ burst[TheIo] \in Seq(Frame)
    <2>1. /\ tx_pkts[TheIo] \in Seq(Returned) /\ crypto_to_tx[IoPair] \in Seq(Returned)
          /\ encrypted_pkts[IoPair] \in Seq(Returned)
          /\ pkts[IoPair] \in Seq(Received) /\ rx_to_crypto[IoPair] \in Seq(Received)
          /\ burst[TheIo] \in Seq(Received)
      BY IoPairWorks DEF TypeOK
    <2> QED BY <2>1, KindsAreFrames, Zenon
  <1>2. Back \in Seq(Frame) /\ Held \in Seq(Frame)
    BY <1>1, ConcatProperties DEF Back, Held
  <1> QED BY <1>1, <1>2

\* The same after a step.
LEMMA WayTypesNext ==
    ASSUME TypeOK', TheIo \in IoLcores
    PROVE  Back' \in Seq(Frame) /\ Held' \in Seq(Frame)
  <1>1. /\ tx_pkts'[TheIo] \in Seq(Frame) /\ crypto_to_tx'[IoPair] \in Seq(Frame)
        /\ encrypted_pkts'[IoPair] \in Seq(Frame)
        /\ pkts'[IoPair] \in Seq(Frame) /\ rx_to_crypto'[IoPair] \in Seq(Frame)
        /\ burst'[TheIo] \in Seq(Frame)
    <2>1. /\ tx_pkts'[TheIo] \in Seq(Returned) /\ crypto_to_tx'[IoPair] \in Seq(Returned)
          /\ encrypted_pkts'[IoPair] \in Seq(Returned)
          /\ pkts'[IoPair] \in Seq(Received) /\ rx_to_crypto'[IoPair] \in Seq(Received)
          /\ burst'[TheIo] \in Seq(Received)
      BY IoPairWorks DEF TypeOK
    <2> QED BY <2>1, KindsAreFrames, Zenon
  <1> QED BY <1>1, ConcatProperties DEF Back, Held

\* What is under way from p and what was sent, in a state that is type correct.
LEMMA FlightIs ==
    ASSUME TypeOK, TheIo \in IoLcores, NEW p \in Ports
    PROVE  /\ InFlight[p] = DoneIds(Back, p) \o (FreshIds(Held, p) \o FreshIds(rxq[p], p))
           /\ DoneIds(Back, p) \in Seq(Nat) /\ FreshIds(Held, p) \in Seq(Nat)
           /\ rxq[p] \in Seq(Frame) /\ FreshIds(rxq[p], p) \in Seq(Nat)
           /\ SentIds[p] = Ids(sent[Dst[p]]) /\ SentIds[p] \in Seq(Nat)
  <1>1. Dst[p] \in Ports
    BY ConfigAssumption
  <1>2. Back \in Seq(Frame) /\ Held \in Seq(Frame) /\ rxq[p] \in Seq(Frame)
    BY WayTypes DEF TypeOK
  <1>3. InFlight[p] = Ids(Done(Back, p) \o Fresh(Held \o rxq[p], p))
    BY DEF InFlight, OnTheWay, Back, Held
  <1>4. InFlight[p] = DoneIds(Back, p) \o (FreshIds(Held, p) \o FreshIds(rxq[p], p))
    BY <1>2, <1>3, WayParts, Zenon
  <1>5. SentIds[p] = Ids(sent[Dst[p]])
    BY DEF SentIds
  <1>6. SentIds[p] \in Seq(Nat)
    <2>1. sent[Dst[p]] \in Seq(Frame)
      BY <1>1 DEF TypeOK
    <2> QED BY <1>5, <2>1, FramesNumbered, NumbersFacts
  <1> QED BY <1>2, <1>4, <1>5, <1>6, DirectionIds

\* The same after a step.
LEMMA FlightNext ==
    ASSUME TypeOK', TheIo \in IoLcores, NEW p \in Ports
    PROVE  /\ InFlight'[p] = DoneIds(Back', p) \o (FreshIds(Held', p) \o FreshIds(rxq'[p], p))
           /\ SentIds'[p] = Ids(sent'[Dst[p]])
  <1>1. Back' \in Seq(Frame) /\ Held' \in Seq(Frame) /\ rxq'[p] \in Seq(Frame)
    BY WayTypesNext DEF TypeOK
  <1>2. InFlight'[p] = Ids(Done(Back', p) \o Fresh(Held' \o rxq'[p], p))
    BY DEF InFlight, OnTheWay, Back, Held
  <1>3. InFlight'[p] = DoneIds(Back', p) \o (FreshIds(Held', p) \o FreshIds(rxq'[p], p))
    BY <1>1, <1>2, WayParts, Zenon
  <1> QED BY <1>3 DEF SentIds

\* A direction whose frames stay, whatever happens to those of the others.
LEMMA PortStays ==
    ASSUME TypeOK, TypeOK', TheIo \in IoLcores, NEW p \in Ports,
           DoneIds(Back', p) = DoneIds(Back, p), FreshIds(Held', p) = FreshIds(Held, p),
           FreshIds(rxq'[p], p) = FreshIds(rxq[p], p), sent'[Dst[p]] = sent[Dst[p]]
    PROVE  InFlight'[p] = InFlight[p] /\ SentIds'[p] = SentIds[p]
  BY FlightIs, FlightNext, Zenon

-----------------------------------------------------------------------------
(* Steps of the channel.                                                   *)

\* What is under way and what was sent are functions of the port.
LEMMA FlightFunctions ==
    /\ InFlight = [p \in Ports |-> InFlight[p]]
    /\ InFlight' = [p \in Ports |-> InFlight'[p]]
    /\ SentIds = [p \in Ports |-> SentIds[p]]
    /\ SentIds' = [p \in Ports |-> SentIds'[p]]
  BY DEF InFlight, SentIds

\* A step that changes neither is a stutter.
LEMMA FlightSame ==
    ASSUME \A p \in Ports : InFlight'[p] = InFlight[p] /\ SentIds'[p] = SentIds[p],
           nframes' = nframes
    PROVE  UNCHANGED Channel!vars
  <1>1. InFlight' = InFlight /\ SentIds' = SentIds
    BY FlightFunctions
  <1> QED BY <1>1 DEF Channel!vars

\* The k oldest numbers of one port are sent, and t is what stays of the others.
LEMMA KeptStep ==
    ASSUME NEW p \in Ports, NEW s, NEW t, NEW k \in 0 .. Len(s), KeptAfter(s, t, k),
           InFlight[p] = s, InFlight'[p] = t, SentIds'[p] = SentIds[p] \o SubSeq(s, 1, k),
           \A o \in Ports : o # p => InFlight'[o] = InFlight[o] /\ SentIds'[o] = SentIds[o],
           nframes' = nframes
    PROVE  Channel!Next
  <1>0. PICK m \in 0 .. Len(s) - k : \E g \in [1 .. m -> k + 1 .. Len(s)] : KeptAt(s, t, g, m)
    BY DEF KeptAfter
  <1>1. PICK g \in [1 .. m -> k + 1 .. Len(s)] : KeptAt(s, t, g, m)
    BY <1>0
  <1>2. Channel!Increasing(g, m)
    BY <1>1 DEF KeptAt, Channel!Increasing
  <1>3. InFlight' = [InFlight EXCEPT ![p] = t]
    BY FlightFunctions, OneChange
  <1>4. t = [i \in 1 .. m |-> InFlight[p][g[i]]]
    BY <1>1 DEF KeptAt
  <1>5. SentIds' = [SentIds EXCEPT ![p] = SentIds[p] \o SubSeq(InFlight[p], 1, k)]
    <2>1. PICK v : v = SentIds[p] \o SubSeq(s, 1, k)
      OBVIOUS
    <2>2. SentIds' = [SentIds EXCEPT ![p] = v]
      BY <2>1, FlightFunctions, OneChange
    <2> QED BY <2>1, <2>2
  <1>6. Channel!Release(p, k, m, g)
    BY <1>2, <1>3, <1>4, <1>5, Zenon DEF Channel!Release
  <1>7. k \in 0 .. Len(InFlight[p]) /\ m \in 0 .. Len(InFlight[p]) - k
        /\ g \in [1 .. m -> k + 1 .. Len(InFlight[p])]
    BY Zenon
  <1> QED BY <1>6, <1>7, Zenon DEF Channel!Next

\* x is sent and y lost.
LEMMA SentStep ==
    ASSUME NEW p \in Ports, NEW x \in Seq(Nat), NEW y \in Seq(Nat), NEW r \in Seq(Nat),
           InFlight[p] = x \o (y \o r), InFlight'[p] = r, SentIds'[p] = SentIds[p] \o x,
           \A o \in Ports : o # p => InFlight'[o] = InFlight[o] /\ SentIds'[o] = SentIds[o],
           nframes' = nframes
    PROVE  Channel!Next
  <1>1. PICK s : s = x \o (y \o r)
    OBVIOUS
  <1>2. \E k \in 0 .. Len(s) : SubSeq(s, 1, k) = x /\ KeptAfter(s, r, k)
    BY <1>1, KeepLast
  <1>3. PICK k \in 0 .. Len(s) : SubSeq(s, 1, k) = x /\ KeptAfter(s, r, k)
    BY <1>2
  <1>4. SentIds'[p] = SentIds[p] \o SubSeq(s, 1, k) /\ InFlight[p] = s
    BY <1>1, <1>3
  <1> QED BY <1>3, <1>4, KeptStep

\* y is lost and what is ahead of it stays.
LEMMA LostStep ==
    ASSUME NEW p \in Ports, NEW x \in Seq(Nat), NEW y \in Seq(Nat), NEW r \in Seq(Nat),
           InFlight[p] = x \o (y \o r), InFlight'[p] = x \o r,
           SentIds[p] \in Seq(Nat), SentIds'[p] = SentIds[p],
           \A o \in Ports : o # p => InFlight'[o] = InFlight[o] /\ SentIds'[o] = SentIds[o],
           nframes' = nframes
    PROVE  Channel!Next
  <1>1. PICK s : s = x \o (y \o r)
    OBVIOUS
  <1>2. s \in Seq(Nat)
    BY <1>1, ConcatProperties
  <1>3. PICK t : t = x \o r
    OBVIOUS
  <1>4. KeptAfter(s, t, 0)
    BY <1>1, <1>3, KeepAround
  <1>5. SubSeq(s, 1, 0) = <<>> /\ 0 \in 0 .. Len(s)
    BY <1>2, LenProperties
  <1>6. SentIds'[p] = SentIds[p] \o SubSeq(s, 1, 0)
    BY <1>5, ConcatEmptySeq
  <1>7. InFlight[p] = s /\ InFlight'[p] = t
    BY <1>1, <1>3
  <1> QED BY <1>4, <1>5, <1>6, <1>7, KeptStep

\* A number arrives and is the last on its way.
LEMMA AcceptStep ==
    ASSUME NEW p \in Ports, nframes < MaxFrames, nframes' = nframes + 1,
           InFlight'[p] = Append(InFlight[p], nframes + 1),
           \A o \in Ports : o # p => InFlight'[o] = InFlight[o],
           \A o \in Ports : SentIds'[o] = SentIds[o]
    PROVE  Channel!Next
  <1>1. PICK v : v = Append(InFlight[p], nframes + 1)
    OBVIOUS
  <1>2. InFlight' = [InFlight EXCEPT ![p] = v]
    BY <1>1, FlightFunctions, OneChange
  <1>3. SentIds' = SentIds
    BY FlightFunctions
  <1>4. Channel!Accept(p)
    BY <1>1, <1>2, <1>3, Zenon DEF Channel!Accept
  <1> QED BY <1>4, Zenon DEF Channel!Next

\* A number arrives at a full queue and is lost.
LEMMA RefuseStep ==
    ASSUME nframes < MaxFrames, nframes' = nframes + 1,
           \A o \in Ports : InFlight'[o] = InFlight[o] /\ SentIds'[o] = SentIds[o]
    PROVE  Channel!Next
  <1>1. InFlight' = InFlight /\ SentIds' = SentIds
    BY FlightFunctions
  <1>2. Channel!Refuse
    BY <1>1 DEF Channel!Refuse
  <1> QED BY <1>2, Zenon DEF Channel!Next

-----------------------------------------------------------------------------
(* What the order of the frames rests on.                                  *)

\* The kernel holds no more frames for a port than fit.
QueueInv == \A p \in Ports : Len(rxq[p]) <= RxQueueSize

\* The untouched frames of a burst came in on the port the lcore is at.
BurstInv ==
    \A l \in IoLcores : pc[l] \in {"enqueue", "drop"} => burst[l] \in Seq(Waiting(Polled(l)))

\* What leaves bears the mark.
LEMMA LeavingIds ==
    ASSUME NEW p, NEW q, NEW s \in Seq(Leaving(q))
    PROVE  s \in Seq(Frame) /\ FreshIds(s, p) = <<>>
  <1>1. s \in Seq(Frame)
    BY KindsAreFrames
  <1>2. \A i \in 1 .. Len(s) : s[i] \notin FreshOf(p)
    <2> TAKE i \in 1 .. Len(s)
    <2>1. s[i] \in Leaving(q)
      BY ElementOfSeq
    <2> QED BY <2>1 DEF Leaving, Returned, FreshOf
  <1> QED BY <1>1, <1>2, OtherIds

\* Marked frames that reach a queue add nothing to what is under way.
LEMMA WireFresh ==
    ASSUME IInv, QueueInv, NEW q \in Ports, NEW fs \in Seq(Leaving(q)), NEW n \in 0 .. Len(fs),
           rxq' = IF Peer[q] \in Ports
                  THEN [rxq EXCEPT ![Peer[q]] =
                            Arrive(rxq[Peer[q]], Taken(fs, n), RxQueueSize)]
                  ELSE rxq
    PROVE  /\ \A p \in Ports : FreshIds(rxq'[p], p) = FreshIds(rxq[p], p)
           /\ \A p \in Ports : Len(rxq'[p]) <= RxQueueSize
  <1>1. PICK out \in Seq(Leaving(q)) : out = Taken(fs, n)
    BY TakenFacts
  <1>2. CASE Peer[q] \notin Ports
    BY <1>2 DEF QueueInv
  <1>3. CASE Peer[q] \in Ports
    <2>1. PICK o \in Ports : o = Peer[q]
      BY <1>3
    <2>2. rxq[o] \in Seq(Frame) /\ out \in Seq(Frame) /\ RxQueueSize \in Nat
      BY LeavingIds, SizeAssumption DEF IInv, TypeOK
    <2>3. PICK v : v = Arrive(rxq[o], out, RxQueueSize)
      OBVIOUS
    <2>4. rxq' = [rxq EXCEPT ![o] = v]
      BY <1>1, <1>3, <2>1, <2>3
    <2>5. Len(v) <= RxQueueSize
      BY <2>2, <2>3, ArriveFacts
    <2>6. FreshIds(v, o) = FreshIds(rxq[o], o)
      <3>1. Len(rxq[o]) <= RxQueueSize
        BY DEF QueueInv
      <3>2. PICK k \in 0 .. Len(out) : v = rxq[o] \o SubSeq(out, 1, k)
        BY <2>2, <2>3, <3>1, ArrivePrefix
      <3>3. PICK w : w = SubSeq(out, 1, k)
        OBVIOUS
      <3>4. w \in Seq(Leaving(q))
        BY <3>3, TakenFacts DEF Taken
      <3>5. w \in Seq(Frame) /\ FreshIds(w, o) = <<>>
        BY <3>4, LeavingIds
      <3>6. PICK u \in Seq(Frame) : u = rxq[o]
        BY <2>2
      <3>7. FreshIds(u \o w, o) = FreshIds(u, o) \o FreshIds(w, o) /\ FreshIds(u, o) \in Seq(Nat)
        BY <3>5, DirectionIds
      <3>8. FreshIds(u, o) \o <<>> = FreshIds(u, o)
        BY <3>7, ConcatEmptySeq
      <3> QED BY <3>2, <3>3, <3>5, <3>6, <3>7, <3>8, Zenon
    <2>7. \A p \in Ports : rxq'[p] = IF p = o THEN v ELSE rxq[p]
      BY <2>4 DEF IInv, TypeOK
    <2> QED BY <2>5, <2>6, <2>7 DEF QueueInv
  <1> QED BY <1>2, <1>3

\* What a receive burst returns and what it takes.
LEMMA RxCounts ==
    ASSUME IInv, NEW p \in Ports, NEW len \in Nat
    PROVE  /\ RxCount(len, BurstSize, pool) \in 0 .. len
           /\ RxTaken(len, BurstSize, pool) \in RxCount(len, BurstSize, pool) .. len
  BY RxCountFacts, SizeAssumption DEF IInv, TypeOK

\* The queues stay within their size.
LEMMA QueueInit == Init => QueueInv
  <1>1. Len(<<>>) = 0 /\ 0 <= RxQueueSize
    BY EmptySeq, SizeAssumption
  <1> QED BY <1>1 DEF Init, QueueInv

\* Every step keeps them there.
LEMMA QueueNext == IInv /\ QueueInv /\ [Step]_program => QueueInv'
  <1> SUFFICES ASSUME IInv, QueueInv, [Step]_program PROVE QueueInv'
    OBVIOUS
  <1>1. ASSUME rxq' = rxq PROVE QueueInv'
    BY <1>1 DEF QueueInv
  <1>2. ASSUME NEW l \in IoLcores, Send(l) PROVE QueueInv'
    <2>1. PICK n \in 0 .. Len(Group(l)) :
             rxq' = IF Peer[GroupPort(l)] \in Ports
                    THEN [rxq EXCEPT ![Peer[GroupPort(l)]] =
                              Arrive(rxq[Peer[GroupPort(l)]], Taken(Group(l), n), RxQueueSize)]
                    ELSE rxq
      BY <1>2 DEF Send
    <2>2. GroupPort(l) \in Ports /\ Group(l) \in Seq(Leaving(GroupPort(l)))
      BY <1>2, GroupFacts DEF Send
    <2> QED BY <2>1, <2>2, WireFresh DEF QueueInv
  <1>3. ASSUME NEW l \in IoLcores, RxBurst(l) PROVE QueueInv'
    <2>1. PICK p \in Ports : p = Polled(l)
      BY <1>3, PolledType DEF RxBurst, IInv
    <2>2. PICK q \in Seq(Frame) : q = rxq[p]
      BY DEF IInv, TypeOK
    <2>3. PICK len \in Nat : len = Len(q)
      BY LenProperties
    <2>4. PICK t \in 0 .. len : t = RxTaken(len, BurstSize, pool)
      <3>1. PICK n \in 0 .. len : RxTaken(len, BurstSize, pool) \in n .. len
        BY RxCounts
      <3> QED BY <3>1
    <2>5. rxq' = [rxq EXCEPT ![p] = Rest(q, t)]
      BY <1>3, <2>1, <2>2, <2>3, <2>4, Zenon DEF RxBurst, Polled
    <2>6. PICK v \in Nat : v = Len(Rest(q, t)) /\ v <= len
      <3>1. Rest(q, t) \in Seq(Frame) /\ Len(Rest(q, t)) = len - t
        BY <2>3, <2>4, TakenFacts
      <3>2. len - t \in Nat /\ len - t <= len
        BY <2>4
      <3> QED BY <3>1, <3>2
    <2>7. v <= RxQueueSize
      <3>1. len <= RxQueueSize /\ RxQueueSize \in Nat
        BY <2>2, <2>3, SizeAssumption DEF QueueInv
      <3> QED BY <2>6, <3>1
    <2>8. \A o \in Ports : rxq'[o] = IF o = p THEN Rest(q, t) ELSE rxq[o]
      BY <2>5 DEF IInv, TypeOK
    <2> QED BY <2>6, <2>7, <2>8 DEF QueueInv
  <1>4. ASSUME NEW p \in Ports, Inject(p) PROVE QueueInv'
    <2> DEFINE f == [id |-> nframes + 1, at |-> p, port |-> p, enc |-> 0, marked |-> FALSE,
                     body |-> "plain"]
    <2>1. rxq' = [rxq EXCEPT ![p] = Arrive(rxq[p], <<f>>, RxQueueSize)]
      BY <1>4 DEF Inject
    <2>2. f \in Frame
      BY <1>4 DEF Inject, IInv, TypeOK, Frame
    <2> HIDE DEF f
    <2>3. <<f>> \in Seq(Frame)
      BY <2>2
    <2>4. Len(Arrive(rxq[p], <<f>>, RxQueueSize)) <= RxQueueSize
      BY <2>3, ArriveFacts, SizeAssumption DEF IInv, TypeOK
    <2>5. \A o \in Ports : rxq'[o] = IF o = p THEN Arrive(rxq[p], <<f>>, RxQueueSize) ELSE rxq[o]
      BY <2>1 DEF IInv, TypeOK
    <2> QED BY <2>4, <2>5 DEF QueueInv
  <1>5. ASSUME NEW l \in IoLcores, IoStep(l) PROVE QueueInv'
    <2>1. CASE Top(l) \/ EnqueueRx(l) \/ DropRx(l) \/ DequeueTx(l) \/ CountMarked(l) \/ SendDone(l)
      BY <1>1, <2>1 DEF Top, EnqueueRx, DropRx, DequeueTx, CountMarked, SendDone, wires
    <2> QED BY <1>2, <1>3, <1>5, <2>1 DEF IoStep
  <1>6. ASSUME NEW w \in Workers, WorkerStep(w) PROVE QueueInv'
    <2>1. UNCHANGED rxq
      BY <1>6 DEF WorkerStep, StartWorker, QuitWorker, DequeueCrypto, DecryptPacket,
                  EncryptPacket, EnqueueTx, FreeTx, wires
    <2> QED BY <1>1, <2>1
  <1>7. CASE Signal \/ WaitAndClose \/ UNCHANGED program
    BY <1>1, <1>7 DEF Signal, WaitAndClose, program, wires
  <1> QED BY <1>4, <1>5, <1>6, <1>7 DEF Step

\* Two sequences with the same untouched frames at the same places.
LEMMA SameFresh ==
    ASSUME NEW b \in Seq(Frame), NEW t \in Seq(Frame), NEW n \in Nat, Len(b) = n, Len(t) = n,
           NEW o, \A i \in 1 .. n : (b[i] \in FreshOf(o) => b[i] = t[i])
                                    /\ (b[i] \in FreshOf(o) <=> t[i] \in FreshOf(o))
    PROVE  FreshIds(b, o) = FreshIds(t, o)
  <1>1. PICK S : S = FreshOf(o)
    OBVIOUS
  <1>2. \A i \in 1 .. n : (b[i] \in S => b[i] = t[i]) /\ (b[i] \in S <=> t[i] \in S)
    BY <1>1
  <1>3. Select(b, S) = Select(t, S)
    BY <1>2, SelectAlike
  <1> QED BY <1>1, <1>3, Zenon DEF FreshIds, IdsIn

\* The frames the driver hands out, the port written to their mbufs.
Rewritten(q, n, p) == [i \in 1 .. n |-> [q[i] EXCEPT !.port = p]]

\* The frames a receive burst hands to the lcore are those it took, untouched
\* ones as they were.
LEMMA BurstFrames ==
    ASSUME NEW p \in Ports, NEW q \in Seq(Waiting(p)), NEW n \in 0 .. Len(q),
           NEW b, b = Rewritten(q, n, p)
    PROVE  /\ b \in Seq(Waiting(p))
           /\ \A o : FreshIds(b, o) = FreshIds(Taken(q, n), o)
  <1>1. PICK m \in Nat : m = Len(q) /\ n \in 0 .. m
    BY LenProperties
  <1>2. \A i \in 1 .. n : q[i] \in Waiting(p)
    <2>1. \A i \in 1 .. n : i \in 1 .. Len(q)
      BY <1>1
    <2> QED BY <2>1, ElementOfSeq
  <1>3. \A i \in 1 .. n : /\ b[i] \in Waiting(p)
                          /\ b[i].marked = q[i].marked
                          /\ ~q[i].marked => b[i] = q[i]
    <2> TAKE i \in 1 .. n
    <2>1. PICK f \in Waiting(p) : f = q[i]
      BY <1>2
    <2>2. b[i] = [f EXCEPT !.port = p]
      BY <2>1 DEF Rewritten
    <2>3. f \in Frame
      BY DEF Waiting
    <2>4. [f EXCEPT !.port = p] \in Frame
      BY <2>3 DEF Frame
    <2>5. [f EXCEPT !.port = p].marked = f.marked /\ [f EXCEPT !.port = p].enc = f.enc
          /\ [f EXCEPT !.port = p].at = f.at /\ [f EXCEPT !.port = p].port = p
      BY <2>3 DEF Frame
    <2>6. ~f.marked => [f EXCEPT !.port = p] = f
      <3>1. ~f.marked => f.port = p
        BY DEF Waiting
      <3> QED BY <2>3, <3>1 DEF Frame
    <2>7. [f EXCEPT !.port = p] \in Waiting(p)
      BY <2>4, <2>5 DEF Waiting
    <2> QED BY <2>1, <2>2, <2>5, <2>6, <2>7
  <1>4. b \in Seq(Waiting(p)) /\ Len(b) = n
    <2>1. b \in [1 .. n -> Waiting(p)] /\ n \in Nat
      BY <1>3 DEF Rewritten
    <2> QED BY <2>1
  <1>5. PICK t : t = Taken(q, n)
    OBVIOUS
  <1>6. t \in Seq(Waiting(p)) /\ Len(t) = n /\ \A i \in 1 .. n : t[i] = q[i]
    BY <1>5, TakenFacts
  <1>7. b \in Seq(Frame) /\ t \in Seq(Frame)
    BY <1>4, <1>6, KindsAreFrames
  <1>8. ASSUME NEW o PROVE FreshIds(b, o) = FreshIds(t, o)
    <2>1. \A i \in 1 .. n : (b[i] \in FreshOf(o) => b[i] = t[i])
                            /\ (b[i] \in FreshOf(o) <=> t[i] \in FreshOf(o))
      BY <1>3, <1>6 DEF FreshOf
    <2>2. n \in Nat /\ Len(b) = n /\ Len(t) = n
      BY <1>1, <1>4, <1>6
    <2> QED BY <1>7, <2>1, <2>2, SameFresh
  <1> QED BY <1>4, <1>5, <1>8

\* A step of one lcore leaves the others where they are.
LEMMA OthersStay ==
    ASSUME IInv, NEW l \in IoLcores, IoStep(l), NEW k \in IoLcores, k # l
    PROVE  pc'[k] = pc[k] /\ cur'[k] = cur[k] /\ burst'[k] = burst[k]
  <1>1. ASSUME pc[l] \in {"rx", "enqueue", "drop"}, NextPort(l)
        PROVE  pc'[k] = pc[k] /\ cur'[k] = cur[k]
    BY <1>1, NextPortFacts DEF IInv, TypeOK
  <1>2. CASE Top(l) \/ DequeueTx(l) \/ CountMarked(l) \/ SendDone(l)
    BY <1>2 DEF Top, DequeueTx, CountMarked, SendDone, IInv, TypeOK
  <1>3. CASE RxBurst(l)
    BY <1>1, <1>3 DEF RxBurst, IInv, TypeOK
  <1>4. CASE EnqueueRx(l)
    BY <1>1, <1>4 DEF EnqueueRx, IInv, TypeOK
  <1>5. CASE DropRx(l)
    BY <1>1, <1>5 DEF DropRx, IInv, TypeOK
  <1>6. CASE Send(l)
    BY <1>6 DEF Send, IInv, TypeOK
  <1> QED BY <1>2, <1>3, <1>4, <1>5, <1>6 DEF IoStep

\* No lcore holds a burst initially.
LEMMA BurstInit == Init => BurstInv
  BY DEF Init, BurstInv

\* Every step keeps the frames of a burst with the lcore that is at their port.
LEMMA BurstNext == IInv /\ BurstInv /\ [Step]_program => BurstInv'
  <1> SUFFICES ASSUME IInv, BurstInv, [Step]_program PROVE BurstInv'
    OBVIOUS
  <1>1. ASSUME UNCHANGED <<pc, cur, burst>> PROVE BurstInv'
    BY <1>1 DEF BurstInv, Polled
  <1>2. ASSUME NEW l \in IoLcores, IoStep(l),
               pc'[l] \in {"enqueue", "drop"} => burst'[l] \in Seq(Waiting(Polled(l)'))
        PROVE  BurstInv'
    <2> SUFFICES ASSUME NEW k \in IoLcores, pc'[k] \in {"enqueue", "drop"}
                 PROVE  burst'[k] \in Seq(Waiting(Polled(k)'))
      BY DEF BurstInv
    <2>1. CASE k = l
      BY <1>2, <2>1
    <2>2. CASE k # l
      <3>1. pc'[k] = pc[k] /\ cur'[k] = cur[k] /\ burst'[k] = burst[k]
        BY <1>2, <2>2, OthersStay
      <3> QED BY <3>1 DEF BurstInv, Polled
    <2> QED BY <2>1, <2>2
  <1>3. ASSUME NEW l \in IoLcores, IoStep(l) PROVE BurstInv'
    <2>1. ASSUME pc[l] \in {"rx", "enqueue", "drop"}, NextPort(l)
          PROVE  pc'[l] \notin {"enqueue", "drop"}
      <3>1. pc'[l] \in {"rx", "tx"}
        BY <2>1, NextPortFacts
      <3> QED BY <3>1
    <2>2. CASE Top(l) \/ DequeueTx(l) \/ CountMarked(l) \/ Send(l) \/ SendDone(l)
      <3>1. pc'[l] \notin {"enqueue", "drop"}
        BY <2>2 DEF Top, DequeueTx, CountMarked, Send, SendDone, IInv, TypeOK
      <3> QED BY <1>2, <1>3, <3>1
    <2>3. CASE DropRx(l)
      <3>1. pc'[l] \notin {"enqueue", "drop"}
        BY <2>1, <2>3 DEF DropRx
      <3> QED BY <1>2, <1>3, <3>1
    <2>4. CASE RxBurst(l)
      <3>1. PICK p \in Ports : p = Polled(l)
        BY <2>4, PolledType DEF RxBurst, IInv
      <3>2. PICK q \in Seq(Waiting(p)) : q = rxq[p]
        BY DEF IInv, WireInv
      <3>3. PICK len \in Nat : len = Len(q)
        BY LenProperties
      <3>4. PICK n \in 0 .. len : n = RxCount(len, BurstSize, pool)
        BY RxCounts
      <3>5. \/ pc[l] = "rx" /\ NextPort(l)
            \/ /\ burst' = [burst EXCEPT ![l] = [i \in 1 .. n |-> [q[i] EXCEPT !.port = p]]]
               /\ pc' = [pc EXCEPT ![l] = "enqueue"] /\ UNCHANGED cur
        BY <2>4, <3>1, <3>2, <3>3, <3>4, Zenon DEF RxBurst, Polled
      <3>6. CASE pc[l] = "rx" /\ NextPort(l)
        BY <1>2, <1>3, <2>1, <3>6
      <3>7. CASE /\ burst' = [burst EXCEPT ![l] = [i \in 1 .. n |-> [q[i] EXCEPT !.port = p]]]
                 /\ pc' = [pc EXCEPT ![l] = "enqueue"] /\ UNCHANGED cur
        <4>1. PICK b : b = Rewritten(q, n, p)
          OBVIOUS
        <4>2. b \in Seq(Waiting(p))
          BY <3>3, <4>1, BurstFrames
        <4>3. burst'[l] = b
          BY <3>7, <4>1 DEF IInv, TypeOK, Rewritten
        <4>4. Polled(l)' = p
          BY <3>1, <3>7 DEF Polled
        <4> QED BY <1>2, <1>3, <4>2, <4>3, <4>4
      <3> QED BY <3>5, <3>6, <3>7
    <2>5. CASE EnqueueRx(l)
      <3>1. PICK b \in Seq(Waiting(Polled(l))) : b = burst[l]
        BY <2>5 DEF EnqueueRx, BurstInv
      <3>2. PICK n \in 0 .. Len(b) : n = Enqueued(rx_to_crypto[IoPair], b)
        <4>1. /\ b \in Seq(Received) /\ rx_to_crypto[IoPair] \in Seq(Received)
              /\ ring_size \in Nat /\ Len(rx_to_crypto[IoPair]) <= ring_size
          BY <3>1, IoPairWorks DEF IInv, TypeOK, RingInv
        <4>2. Enqueued(rx_to_crypto[IoPair], b) \in 0 .. Len(b)
          BY <4>1, EnqueuedFacts
        <4> QED BY <4>2
      <3>3. /\ pc[l] = "enqueue" /\ burst' = [burst EXCEPT ![l] = Rest(b, n)]
            /\ \/ NextPort(l)
               \/ pc' = [pc EXCEPT ![l] = "drop"] /\ UNCHANGED cur
        BY <2>5, <3>1, <3>2, Zenon DEF EnqueueRx
      <3>4. CASE NextPort(l)
        BY <1>2, <1>3, <2>1, <3>3, <3>4
      <3>5. CASE pc' = [pc EXCEPT ![l] = "drop"] /\ UNCHANGED cur
        <4>1. Rest(b, n) \in Seq(Waiting(Polled(l)))
          BY TakenFacts
        <4>2. burst'[l] = Rest(b, n)
          BY <3>3 DEF IInv, TypeOK
        <4>3. Polled(l)' = Polled(l)
          BY <3>5 DEF Polled
        <4> QED BY <1>2, <1>3, <4>1, <4>2, <4>3
      <3> QED BY <3>3, <3>4, <3>5
    <2> QED BY <1>3, <2>2, <2>3, <2>4, <2>5 DEF IoStep
  <1>4. CASE \E w \in Workers : WorkerStep(w)
    <2>1. UNCHANGED <<pc, cur, burst>>
      BY <1>4 DEF WorkerStep, StartWorker, QuitWorker, DequeueCrypto, DecryptPacket,
                  EncryptPacket, EnqueueTx, FreeTx, io
    <2> QED BY <1>1, <2>1
  <1>5. CASE (\E p \in Ports : Inject(p)) \/ Signal \/ WaitAndClose \/ UNCHANGED program
    BY <1>1, <1>5 DEF Inject, Signal, WaitAndClose, program, io
  <1> QED BY <1>3, <1>4, <1>5 DEF Step

-----------------------------------------------------------------------------
(* What the steps do to the channel.                                       *)

\* The channel is empty initially.
LEMMA ChannelInit == TheIo \in IoLcores /\ Init => Channel!Init
  <1> SUFFICES ASSUME TheIo \in IoLcores, Init PROVE Channel!Init
    OBVIOUS
  <1>1. IInv
    BY InitInv
  <1>2. Back = <<>> /\ Held = <<>>
    <2>1. /\ tx_pkts[TheIo] = <<>> /\ crypto_to_tx[IoPair] = <<>>
          /\ encrypted_pkts[IoPair] = <<>> /\ pkts[IoPair] = <<>>
          /\ rx_to_crypto[IoPair] = <<>> /\ burst[TheIo] = <<>>
      BY IoPairWorks DEF Init
    <2>2. <<>> \o <<>> = <<>>
      OBVIOUS
    <2> QED BY <2>1, <2>2, Zenon DEF Back, Held
  <1>3. ASSUME NEW p \in Ports PROVE InFlight[p] = <<>> /\ SentIds[p] = <<>>
    <2>1. Dst[p] \in Ports
      BY ConfigAssumption
    <2>2. rxq[p] = <<>> /\ sent[Dst[p]] = <<>>
      BY <2>1 DEF Init
    <2>3. /\ InFlight[p] = DoneIds(Back, p) \o (FreshIds(Held, p) \o FreshIds(rxq[p], p))
          /\ SentIds[p] = Ids(sent[Dst[p]])
      BY <1>1, FlightIs DEF IInv
    <2>4. Ids(<<>>) = <<>> /\ DoneIds(<<>>, p) = <<>> /\ FreshIds(<<>>, p) = <<>>
      BY NumbersNone, DirectionIds
    <2>5. <<>> \o <<>> = <<>>
      OBVIOUS
    <2> QED BY <1>2, <2>2, <2>3, <2>4, <2>5, Zenon
  <1>4. InFlight = [p \in Ports |-> <<>>] /\ SentIds = [p \in Ports |-> <<>>]
    BY <1>3, FlightFunctions
  <1> QED BY <1>4 DEF Init, Channel!Init

\* A step that moves no frame from one stretch of the way to another.
LEMMA QuietChannel ==
    ASSUME IInv, IInv', TheIo \in IoLcores, nframes' = nframes, sent' = sent,
           Back' = Back, rxq' = rxq,
           \A p \in Ports : FreshIds(Held', p) = FreshIds(Held, p)
    PROVE  UNCHANGED Channel!vars
  <1>1. ASSUME NEW p \in Ports PROVE InFlight'[p] = InFlight[p] /\ SentIds'[p] = SentIds[p]
    <2>1. DoneIds(Back', p) = DoneIds(Back, p) /\ FreshIds(rxq'[p], p) = FreshIds(rxq[p], p)
      BY Zenon
    <2>2. sent'[Dst[p]] = sent[Dst[p]] /\ FreshIds(Held', p) = FreshIds(Held, p)
      OBVIOUS
    <2> QED BY <2>1, <2>2, PortStays DEF IInv
  <1> QED BY <1>1, FlightSame

\* A step that moves no frame at all, or only within a stretch.
LEMMA SameWay ==
    ASSUME IInv, IInv', TheIo \in IoLcores, UNCHANGED wires, Back' = Back, Held' = Held
    PROVE  UNCHANGED Channel!vars
  <1>1. \A p \in Ports : FreshIds(Held', p) = FreshIds(Held, p)
    BY Zenon
  <1>2. nframes' = nframes /\ sent' = sent /\ rxq' = rxq
    BY DEF wires
  <1> QED BY <1>1, <1>2, QuietChannel

\* A step that touches nothing of the way.
LEMMA Untouched ==
    ASSUME IInv, IInv', TheIo \in IoLcores, UNCHANGED wires,
           tx_pkts'[TheIo] = tx_pkts[TheIo], crypto_to_tx'[IoPair] = crypto_to_tx[IoPair],
           encrypted_pkts'[IoPair] = encrypted_pkts[IoPair], pkts'[IoPair] = pkts[IoPair],
           rx_to_crypto'[IoPair] = rx_to_crypto[IoPair], burst'[TheIo] = burst[TheIo]
    PROVE  UNCHANGED Channel!vars
  <1>1. Back' = Back /\ Held' = Held
    BY Zenon DEF Back, Held
  <1> QED BY <1>1, SameWay

\* A frame arrives.
LEMMA InjectChannel ==
    ASSUME IInv, IInv', QueueInv, TheIo \in IoLcores, NEW p \in Ports, Inject(p)
    PROVE  Channel!Next
  <1> DEFINE f == [id |-> nframes + 1, at |-> p, port |-> p, enc |-> 0, marked |-> FALSE,
                   body |-> "plain"]
  <1>1. /\ nframes < MaxFrames /\ nframes' = nframes + 1 /\ nframes \in Nat
        /\ UNCHANGED <<burst, tx_pkts, pkts, encrypted_pkts, rx_to_crypto, crypto_to_tx, sent>>
        /\ rxq' = [rxq EXCEPT ![p] = Arrive(rxq[p], <<f>>, RxQueueSize)]
    BY DEF Inject, IInv, TypeOK, io, workers, rings
  <1>2. f \in Frame /\ f.id = nframes + 1 /\ ~f.marked /\ f.at = p
    BY <1>1 DEF Frame
  <1> HIDE DEF f
  <1>3. Back' = Back /\ Held' = Held
    BY <1>1, Zenon DEF Back, Held
  <1>4. ASSUME NEW o \in Ports, FreshIds(rxq'[o], o) = FreshIds(rxq[o], o)
        PROVE  InFlight'[o] = InFlight[o]
    <2>1. DoneIds(Back', o) = DoneIds(Back, o) /\ FreshIds(Held', o) = FreshIds(Held, o)
      BY <1>3, Zenon
    <2>2. sent'[Dst[o]] = sent[Dst[o]]
      BY <1>1
    <2> QED BY <1>4, <2>1, <2>2, PortStays DEF IInv
  <1>5. \A o \in Ports : o # p => InFlight'[o] = InFlight[o]
    <2> TAKE o \in Ports
    <2> HAVE o # p
    <2>1. rxq'[o] = rxq[o]
      BY <1>1 DEF IInv, TypeOK
    <2>2. FreshIds(rxq'[o], o) = FreshIds(rxq[o], o)
      BY <2>1, Zenon
    <2> QED BY <1>4, <2>2
  <1>6. \A o \in Ports : SentIds'[o] = SentIds[o]
    <2> TAKE o \in Ports
    <2>1. SentIds'[o] = Ids(sent'[Dst[o]]) /\ SentIds[o] = Ids(sent[Dst[o]])
      BY FlightIs, FlightNext DEF IInv
    <2> QED BY <1>1, <2>1
  <1>7. PICK w \in Seq(Frame) : w = <<f>>
    <2>1. <<f>> \in Seq(Frame)
      BY <1>2
    <2> QED BY <2>1, Zenon
  <1>8. PICK u \in Seq(Frame) : u = rxq[p]
    BY DEF IInv, TypeOK
  <1>9. Len(w) = 1
    BY <1>7
  <1>10. PICK k \in 0 .. 1 : Arrive(u, w, RxQueueSize) = u \o SubSeq(w, 1, k)
    <2>1. Len(u) <= RxQueueSize
      BY <1>8 DEF QueueInv
    <2> QED BY <1>9, <2>1, ArrivePrefix, SizeAssumption
  <1>11. rxq'[p] = u \o SubSeq(w, 1, k)
    <2>1. rxq'[p] = Arrive(rxq[p], <<f>>, RxQueueSize)
      BY <1>1 DEF IInv, TypeOK
    <2> QED BY <1>7, <1>8, <1>10, <2>1
  <1>12. CASE k = 0
    <2>1. SubSeq(w, 1, 0) = <<>> /\ u \o <<>> = u
      BY ConcatEmptySeq
    <2>2. FreshIds(rxq'[p], p) = FreshIds(rxq[p], p)
      BY <1>8, <1>11, <1>12, <2>1, Zenon
    <2>3. \A o \in Ports : InFlight'[o] = InFlight[o]
      BY <1>4, <1>5, <2>2
    <2> QED BY <1>1, <1>6, <2>3, RefuseStep
  <1>13. CASE k = 1
    <2>1. SubSeq(w, 1, 1) = w
      BY <1>9, TakenAll
    <2>2. FreshIds(w, p) = <<nframes + 1>>
      <3>1. f \in FreshOf(p)
        BY <1>2 DEF FreshOf
      <3> QED BY <1>2, <1>7, <3>1, DirectionIds
    <2>3. FreshIds(u \o w, p) = FreshIds(u, p) \o FreshIds(w, p)
      BY DirectionIds
    <2>4. FreshIds(rxq'[p], p) = FreshIds(rxq[p], p) \o <<nframes + 1>>
      BY <1>8, <1>11, <1>13, <2>1, <2>2, <2>3, Zenon
    <2>5. InFlight'[p] = Append(InFlight[p], nframes + 1)
      <3>1. PICK a \in Seq(Nat) : a = DoneIds(Back, p)
        BY FlightIs DEF IInv
      <3>2. PICK b \in Seq(Nat) : b = FreshIds(Held, p)
        BY FlightIs DEF IInv
      <3>3. PICK c \in Seq(Nat) : c = FreshIds(rxq[p], p)
        BY FlightIs DEF IInv
      <3>4. InFlight[p] = a \o (b \o c)
        BY <3>1, <3>2, <3>3, FlightIs, Zenon DEF IInv
      <3>5. InFlight'[p] = a \o (b \o (c \o <<nframes + 1>>))
        <4>1. InFlight'[p] = DoneIds(Back', p) \o (FreshIds(Held', p) \o FreshIds(rxq'[p], p))
          BY FlightNext DEF IInv
        <4> QED BY <1>3, <2>4, <3>1, <3>2, <3>3, <4>1, Zenon
      <3>6. PICK i \in Nat : i = nframes + 1
        BY <1>1
      <3>7. a \o (b \o (c \o <<i>>)) = Append(a \o (b \o c), i)
        BY LastOfThree
      <3> QED BY <3>4, <3>5, <3>6, <3>7, Zenon
    <2> QED BY <1>1, <1>5, <1>6, <2>5, AcceptStep
  <1> QED BY <1>12, <1>13

\* The worker that serves the only ring pair takes a burst from its ring.
LEMMA DequeueCryptoChannel ==
    ASSUME IInv, IInv', TheIo \in IoLcores, DequeueCrypto(IoPair)
    PROVE  UNCHANGED Channel!vars
  <1>1. PICK r \in Seq(Frame) : r = rx_to_crypto[IoPair]
    BY WayTypes DEF IInv
  <1>2. PICK n \in 0 .. Len(r) : n = Dequeued(r)
    <2>1. Dequeued(r) \in 0 .. Len(r)
      BY DequeuedFacts
    <2> QED BY <2>1
  <1>3. /\ pkts' = [pkts EXCEPT ![IoPair] = Taken(r, n)]
        /\ rx_to_crypto' = [rx_to_crypto EXCEPT ![IoPair] = Rest(r, n)]
        /\ UNCHANGED <<tx_pkts, crypto_to_tx, encrypted_pkts, burst>> /\ UNCHANGED wires
    BY <1>1, <1>2 DEF DequeueCrypto, Taken, io
  <1>4. pkts[IoPair] = <<>>
    BY IoPairWorks DEF DequeueCrypto, IInv, WorkerInv
  <1>5. pkts'[IoPair] = Taken(r, n) /\ rx_to_crypto'[IoPair] = Rest(r, n)
    BY <1>3, IoPairWorks DEF IInv, TypeOK
  <1>6. Back' = Back
    BY <1>3, Zenon DEF Back
  <1>7. Held' = Held
    <2>1. r = Taken(r, n) \o Rest(r, n)
      BY TakenAndRest
    <2>2. <<>> \o r = r
      BY ConcatEmptySeq
    <2> QED BY <1>1, <1>3, <1>4, <1>5, <2>1, <2>2, Zenon DEF Held
  <1> QED BY <1>3, <1>6, <1>7, SameWay

\* The I/O lcore takes a burst from the return ring.
LEMMA DequeueTxChannel ==
    ASSUME IInv, IInv', TheIo \in IoLcores, DequeueTx(TheIo)
    PROVE  UNCHANGED Channel!vars
  <1>1. PICK r \in Seq(Frame) : r = crypto_to_tx[IoPair]
    BY WayTypes DEF IInv
  <1>2. PICK n \in 0 .. Len(r) : n = Dequeued(r)
    <2>1. Dequeued(r) \in 0 .. Len(r)
      BY DequeuedFacts
    <2> QED BY <2>1
  <1>3. /\ tx_pkts' = [tx_pkts EXCEPT ![TheIo] = Taken(r, n)]
        /\ crypto_to_tx' = [crypto_to_tx EXCEPT ![IoPair] = Rest(r, n)]
        /\ UNCHANGED <<pkts, rx_to_crypto, encrypted_pkts, burst>> /\ UNCHANGED wires
    BY <1>1, <1>2 DEF DequeueTx, Taken, workers
  <1>4. tx_pkts[TheIo] = <<>>
    BY DEF DequeueTx, IInv, IoInv
  <1>5. tx_pkts'[TheIo] = Taken(r, n) /\ crypto_to_tx'[IoPair] = Rest(r, n)
    BY <1>3, IoPairWorks DEF IInv, TypeOK
  <1>6. Held' = Held
    BY <1>3, Zenon DEF Held
  <1>7. Back' = Back
    <2>1. r = Taken(r, n) \o Rest(r, n)
      BY TakenAndRest
    <2>2. <<>> \o r = r
      BY ConcatEmptySeq
    <2> QED BY <1>1, <1>3, <1>4, <1>5, <2>1, <2>2, Zenon DEF Back
  <1> QED BY <1>3, <1>6, <1>7, SameWay

\* The frames fs after a and b: n of them have gone behind b, the others stay.
Regroups(a, b, fs, n) == (a \o (b \o SubSeq(fs, 1, n))) \o Rest(fs, n) = (a \o b) \o fs

\* What goes into a ring, and what is left in the array it came from.
LEMMA EnqueuedParts ==
    ASSUME NEW a \in Seq(Frame), NEW b \in Seq(Frame), NEW fs \in Seq(Frame), NEW n \in 0 .. Len(fs)
    PROVE  Regroups(a, b, fs, n)
  <1>1. PICK x \in Seq(Frame) : x = SubSeq(fs, 1, n)
    BY TakenFacts DEF Taken
  <1>2. PICK y \in Seq(Frame) : y = Rest(fs, n)
    BY TakenFacts
  <1>3. fs = x \o y
    BY <1>1, <1>2, TakenAndRest DEF Taken
  <1>4. MovesUp(a, b, x, y)
    BY MiddleMoves
  <1> QED BY <1>1, <1>2, <1>3, <1>4, Zenon DEF MovesUp, Regroups

\* The I/O lcore hands its burst to the worker.
LEMMA EnqueueRxChannel ==
    ASSUME IInv, IInv', TheIo \in IoLcores, EnqueueRx(TheIo)
    PROVE  UNCHANGED Channel!vars
  <1>1. PICK r \in Seq(Frame) : r = rx_to_crypto[IoPair]
    BY WayTypes DEF IInv
  <1>2. PICK b \in Seq(Frame) : b = burst[TheIo]
    BY WayTypes DEF IInv
  <1>3. PICK k \in Seq(Frame) : k = pkts[IoPair]
    BY WayTypes DEF IInv
  <1>4. PICK n \in 0 .. Len(b) : n = Enqueued(r, b)
    <2>1. ring_size \in Nat /\ Len(r) <= ring_size
      BY <1>1, IoPairWorks DEF IInv, TypeOK, RingInv
    <2>2. Enqueued(r, b) \in 0 .. Len(b)
      BY <2>1, EnqueuedFacts
    <2> QED BY <2>2
  <1>5. /\ rx_to_crypto' = [rx_to_crypto EXCEPT ![IoPair] = r \o SubSeq(b, 1, n)]
        /\ burst' = [burst EXCEPT ![TheIo] = Rest(b, n)]
        /\ UNCHANGED <<tx_pkts, pkts, encrypted_pkts, crypto_to_tx>> /\ UNCHANGED wires
    BY <1>1, <1>2, <1>4 DEF EnqueueRx, workers
  <1>6. rx_to_crypto'[IoPair] = r \o SubSeq(b, 1, n) /\ burst'[TheIo] = Rest(b, n)
    BY <1>5, IoPairWorks DEF IInv, TypeOK
  <1>7. Back' = Back
    BY <1>5, Zenon DEF Back
  <1>8. Held' = Held
    <2>1. Regroups(k, r, b, n)
      BY EnqueuedParts
    <2> QED BY <1>1, <1>2, <1>3, <1>5, <1>6, <2>1, Zenon DEF Held, Regroups
  <1> QED BY <1>5, <1>7, <1>8, SameWay

\* The worker hands the encrypted frames back.
LEMMA EnqueueTxChannel ==
    ASSUME IInv, IInv', TheIo \in IoLcores, EnqueueTx(IoPair)
    PROVE  UNCHANGED Channel!vars
  <1>1. PICK r \in Seq(Frame) : r = crypto_to_tx[IoPair]
    BY WayTypes DEF IInv
  <1>2. PICK b \in Seq(Frame) : b = encrypted_pkts[IoPair]
    BY WayTypes DEF IInv
  <1>3. PICK k \in Seq(Frame) : k = tx_pkts[TheIo]
    BY WayTypes DEF IInv
  <1>4. PICK n \in 0 .. Len(b) : n = Enqueued(r, b)
    <2>1. ring_size \in Nat /\ Len(r) <= ring_size
      BY <1>1, IoPairWorks DEF IInv, TypeOK, RingInv
    <2>2. Enqueued(r, b) \in 0 .. Len(b)
      BY <2>1, EnqueuedFacts
    <2> QED BY <2>2
  <1>5. /\ crypto_to_tx' = [crypto_to_tx EXCEPT ![IoPair] = r \o SubSeq(b, 1, n)]
        /\ encrypted_pkts' = [encrypted_pkts EXCEPT ![IoPair] = Rest(b, n)]
        /\ UNCHANGED <<tx_pkts, pkts, burst, rx_to_crypto>> /\ UNCHANGED wires
    BY <1>1, <1>2, <1>4 DEF EnqueueTx, LeftOver, io
  <1>6. crypto_to_tx'[IoPair] = r \o SubSeq(b, 1, n) /\ encrypted_pkts'[IoPair] = Rest(b, n)
    BY <1>5, IoPairWorks DEF IInv, TypeOK
  <1>7. Held' = Held
    BY <1>5, Zenon DEF Held
  <1>8. Back' = Back
    <2>1. Regroups(k, r, b, n)
      BY EnqueuedParts
    <2> QED BY <1>1, <1>2, <1>3, <1>5, <1>6, <2>1, Zenon DEF Back, Regroups
  <1> QED BY <1>5, <1>7, <1>8, SameWay

\* The worker's next frame is the first of those on their way to it.
LEMMA NextHeld ==
    ASSUME IInv, TheIo \in IoLcores, wpc[IoPair] = "crypt",
           pkts' = [pkts EXCEPT ![IoPair] = Tail(pkts[IoPair])],
           UNCHANGED <<rx_to_crypto, burst>>
    PROVE  /\ Head(pkts[IoPair]) \in Received /\ Head(pkts[IoPair]) \in Frame
           /\ Held' \in Seq(Frame) /\ Held = <<Head(pkts[IoPair])>> \o Held'
  <1>1. pkts[IoPair] \in Seq(Received) /\ pkts[IoPair] # <<>>
    BY IoPairWorks DEF IInv, TypeOK, WorkerInv
  <1>2. PICK f \in Received : f = Head(pkts[IoPair])
    BY <1>1, HeadTailProperties
  <1>3. f \in Frame
    BY FrameSets
  <1>4. PICK s \in Seq(Frame) : s = Tail(pkts[IoPair])
    <2>1. Tail(pkts[IoPair]) \in Seq(Received)
      BY <1>1, HeadTailProperties
    <2> QED BY <2>1, KindsAreFrames
  <1>5. pkts[IoPair] = <<f>> \o s
    <2>1. pkts[IoPair] = <<Head(pkts[IoPair])>> \o Tail(pkts[IoPair])
      BY <1>1
    <2> QED BY <1>2, <1>4, <2>1, Zenon
  <1>6. PICK w \in Seq(Frame) : w = <<f>>
    <2>1. <<f>> \in Seq(Frame)
      BY <1>3
    <2> QED BY <2>1, Zenon
  <1>7. PICK r \in Seq(Frame) : r = rx_to_crypto[IoPair]
    BY WayTypes DEF IInv
  <1>8. PICK b \in Seq(Frame) : b = burst[TheIo]
    BY WayTypes DEF IInv
  <1>9. Held' = (s \o r) \o b
    <2>1. pkts'[IoPair] = s
      BY <1>4, IoPairWorks DEF IInv, TypeOK
    <2>2. rx_to_crypto'[IoPair] = r /\ burst'[TheIo] = b
      BY <1>7, <1>8
    <2> QED BY <2>1, <2>2, Zenon DEF Held
  <1>10. InFront(w, s, r, b)
    BY FrontOut
  <1>11. Held = w \o Held'
    BY <1>5, <1>6, <1>7, <1>8, <1>9, <1>10, Zenon DEF Held, InFront
  <1>12. Held' \in Seq(Frame)
    BY <1>9, ConcatProperties
  <1> QED BY <1>2, <1>3, <1>6, <1>11, <1>12, Zenon

\* The worker frees a frame that bears the mark.
LEMMA DecryptChannel ==
    ASSUME IInv, IInv', TheIo \in IoLcores, DecryptPacket(IoPair)
    PROVE  UNCHANGED Channel!vars
  <1>1. /\ wpc[IoPair] = "crypt" /\ pkts' = [pkts EXCEPT ![IoPair] = Tail(pkts[IoPair])]
        /\ UNCHANGED <<tx_pkts, burst, encrypted_pkts, rx_to_crypto, crypto_to_tx>>
        /\ nframes' = nframes /\ sent' = sent /\ rxq' = rxq
        /\ Head(pkts[IoPair]).marked
    BY DEF DecryptPacket, NextPacket, IsMarked, io, rings, wires
  <1>2. /\ Head(pkts[IoPair]) \in Frame
        /\ Held' \in Seq(Frame) /\ Held = <<Head(pkts[IoPair])>> \o Held'
    BY <1>1, NextHeld
  <1>3. PICK h \in Frame : h = Head(pkts[IoPair])
    BY <1>2
  <1>4. PICK v \in Seq(Frame) : v = Held'
    BY <1>2
  <1>5. ASSUME NEW p \in Ports PROVE FreshIds(Held', p) = FreshIds(Held, p)
    <2>1. PICK w \in Seq(Frame) : w = <<h>>
      <3>1. <<h>> \in Seq(Frame)
        OBVIOUS
      <3> QED BY <3>1, Zenon
    <2>2. FreshIds(w, p) = <<>>
      <3>1. h \notin FreshOf(p)
        BY <1>1, <1>3 DEF FreshOf
      <3>2. FreshIds(<<h>>, p) = <<>>
        BY <3>1, DirectionIds
      <3> QED BY <2>1, <3>2, Zenon
    <2>3. FreshIds(w \o v, p) = FreshIds(w, p) \o FreshIds(v, p) /\ FreshIds(v, p) \in Seq(Nat)
      BY DirectionIds
    <2>4. <<>> \o FreshIds(v, p) = FreshIds(v, p)
      BY <2>3, ConcatEmptySeq
    <2> QED BY <1>2, <1>3, <1>4, <2>1, <2>2, <2>3, <2>4, Zenon
  <1>6. Back' = Back
    BY <1>1, Zenon DEF Back
  <1> QED BY <1>1, <1>5, <1>6, QuietChannel

\* Encrypting a frame keeps its number and the port it came from.
LEMMA EncryptKeepsId ==
    ASSUME NEW f \in Frame, NEW ctx
    PROVE  /\ [RealEncrypt(f, ctx) EXCEPT !.port = Dst[@]].id = f.id
           /\ [RealEncrypt(f, ctx) EXCEPT !.port = Dst[@]].at = f.at
  BY DEF RealEncrypt, Frame

\* The worker encrypts a frame: the last of those that come back, now.
LEMMA EncryptChannel ==
    ASSUME IInv, IInv', TheIo \in IoLcores, EncryptPacket(IoPair)
    PROVE  UNCHANGED Channel!vars
  <1> DEFINE e == [RealEncrypt(Head(pkts[IoPair]), encrypt_ctx[IoPair]) EXCEPT !.port = Dst[@]]
  <1>1. /\ wpc[IoPair] = "crypt" /\ pkts' = [pkts EXCEPT ![IoPair] = Tail(pkts[IoPair])]
        /\ UNCHANGED <<tx_pkts, burst, rx_to_crypto, crypto_to_tx>>
        /\ nframes' = nframes /\ sent' = sent /\ rxq' = rxq
        /\ ~Head(pkts[IoPair]).marked
        /\ encrypted_pkts' = [encrypted_pkts EXCEPT ![IoPair] = Append(encrypted_pkts[IoPair], e)]
    BY DEF EncryptPacket, NextPacket, IsMarked, Collect, io, rings, wires
  <1>2. /\ Head(pkts[IoPair]) \in Received /\ Head(pkts[IoPair]) \in Frame
        /\ Held' \in Seq(Frame) /\ Held = <<Head(pkts[IoPair])>> \o Held'
    BY <1>1, NextHeld
  <1>3. PICK h \in Frame : h = Head(pkts[IoPair]) /\ ~h.marked /\ h \in Received
    BY <1>1, <1>2
  <1>4. PICK v \in Seq(Frame) : v = Held'
    BY <1>2
  <1>5. e \in Returned /\ e.id = h.id /\ e.at = h.at
    <2>1. PICK c : c = encrypt_ctx[IoPair]
      OBVIOUS
    <2>2. PICK d : d = [RealEncrypt(h, c) EXCEPT !.port = Dst[@]]
      OBVIOUS
    <2>3. d \in Returned /\ d.id = h.id /\ d.at = h.at
      BY <1>3, <2>2, EncryptFacts, EncryptKeepsId
    <2>4. d = e
      BY <1>3, <2>1, <2>2, Zenon
    <2> QED BY <2>3, <2>4
  <1> HIDE DEF e
  <1>6. PICK g \in Frame : g = e /\ g.id = h.id /\ g.at = h.at /\ g.marked
    BY <1>5 DEF Returned
  <1>7. PICK y \in Seq(Frame) : y = <<g>>
    <2>1. <<g>> \in Seq(Frame)
      OBVIOUS
    <2> QED BY <2>1, Zenon
  <1>8. PICK w \in Seq(Frame) : w = <<h>>
    <2>1. <<h>> \in Seq(Frame)
      OBVIOUS
    <2> QED BY <2>1, Zenon
  <1>9. PICK k \in Seq(Frame) : k = Back
    BY WayTypes DEF IInv
  <1>10. Back' = k \o y
    <2>1. PICK a \in Seq(Frame) : a = tx_pkts[TheIo] \o crypto_to_tx[IoPair]
      BY WayTypes, ConcatProperties DEF IInv
    <2>2. PICK b \in Seq(Frame) : b = encrypted_pkts[IoPair]
      BY WayTypes DEF IInv
    <2>3. encrypted_pkts'[IoPair] = Append(b, g)
      BY <1>1, <1>6, <2>2, IoPairWorks DEF IInv, TypeOK
    <2>4. Append(b, g) = b \o <<g>>
      BY AppendIsConcat
    <2>5. Associate(a, b, y)
      BY Associates
    <2>6. k = a \o b
      BY <1>9, <2>1, <2>2, Zenon DEF Back
    <2>7. Back' = a \o (b \o y)
      BY <1>1, <1>7, <2>1, <2>3, <2>4, Zenon DEF Back
    <2> QED BY <2>5, <2>6, <2>7, Zenon DEF Associate
  <1>11. Held = w \o v
    BY <1>2, <1>3, <1>4, <1>8, Zenon
  <1>12. ASSUME NEW p \in Ports PROVE InFlight'[p] = InFlight[p]
    <2>1. PICK a \in Seq(Nat) : a = DoneIds(k, p)
      BY DirectionIds
    <2>2. PICK b \in Seq(Nat) : b = FreshIds(v, p)
      BY DirectionIds
    <2>3. PICK c \in Seq(Nat) : c = FreshIds(rxq[p], p)
      BY FlightIs DEF IInv
    <2>4. DoneIds(k \o y, p) = DoneIds(k, p) \o DoneIds(y, p)
      BY DirectionIds
    <2>5. FreshIds(w \o v, p) = FreshIds(w, p) \o FreshIds(v, p)
      BY DirectionIds
    <2>6. InFlight[p] = a \o ((FreshIds(w, p) \o b) \o c)
      <3>1. InFlight[p] = DoneIds(Back, p) \o (FreshIds(Held, p) \o FreshIds(rxq[p], p))
        BY FlightIs DEF IInv
      <3> QED BY <1>9, <1>11, <2>1, <2>2, <2>3, <2>5, <3>1, Zenon
    <2>7. InFlight'[p] = (a \o DoneIds(y, p)) \o (b \o c)
      <3>1. InFlight'[p] = DoneIds(Back', p) \o (FreshIds(Held', p) \o FreshIds(rxq'[p], p))
        BY FlightNext DEF IInv
      <3>2. rxq'[p] = rxq[p]
        BY <1>1
      <3> QED BY <1>4, <1>10, <2>1, <2>2, <2>3, <2>4, <3>1, <3>2, Zenon
    <2>8. CASE h.at = p
      <3>1. PICK i \in Nat : i = h.id
        BY DEF Frame
      <3>2. h \in FreshOf(p) /\ g \in DoneOf(p)
        BY <1>3, <1>6, <2>8 DEF FreshOf, DoneOf
      <3>3. FreshIds(<<h>>, p) = <<h.id>> /\ DoneIds(<<g>>, p) = <<g.id>>
        BY <3>2, DirectionIds
      <3>4. FreshIds(w, p) = <<i>> /\ DoneIds(y, p) = <<i>>
        BY <1>6, <1>7, <1>8, <3>1, <3>3, Zenon
      <3>5. a \o ((<<i>> \o b) \o c) = (a \o <<i>>) \o (b \o c)
        BY FirstOfThree
      <3> QED BY <2>6, <2>7, <3>4, <3>5, Zenon
    <2>9. CASE h.at # p
      <3>1. h \notin FreshOf(p) /\ g \notin DoneOf(p)
        BY <1>6, <2>9 DEF FreshOf, DoneOf
      <3>2. FreshIds(<<h>>, p) = <<>> /\ DoneIds(<<g>>, p) = <<>>
        BY <3>1, DirectionIds
      <3>3. FreshIds(w, p) = <<>> /\ DoneIds(y, p) = <<>>
        BY <1>7, <1>8, <3>2, Zenon
      <3>4. <<>> \o b = b /\ a \o <<>> = a
        BY ConcatEmptySeq
      <3> QED BY <2>6, <2>7, <3>3, <3>4, Zenon
    <2> QED BY <2>8, <2>9
  <1>13. \A p \in Ports : SentIds'[p] = SentIds[p]
    <2> TAKE p \in Ports
    <2>1. SentIds'[p] = Ids(sent'[Dst[p]]) /\ SentIds[p] = Ids(sent[Dst[p]])
      BY FlightIs, FlightNext DEF IInv
    <2> QED BY <1>1, <2>1
  <1> QED BY <1>1, <1>12, <1>13, FlightSame

\* The worker frees an encrypted frame its return ring did not take.
LEMMA FreeTxChannel ==
    ASSUME IInv, IInv', TheIo \in IoLcores, FreeTx(IoPair)
    PROVE  Channel!Next
  <1>1. /\ wpc[IoPair] = "free"
        /\ encrypted_pkts' = [encrypted_pkts EXCEPT ![IoPair] = Tail(encrypted_pkts[IoPair])]
        /\ UNCHANGED <<tx_pkts, burst, pkts, rx_to_crypto, crypto_to_tx>>
        /\ nframes' = nframes /\ sent' = sent /\ rxq' = rxq
    BY DEF FreeTx, io, rings, wires
  <1>2. encrypted_pkts[IoPair] \in Seq(Returned) /\ encrypted_pkts[IoPair] # <<>>
    BY <1>1, IoPairWorks DEF IInv, TypeOK, WorkerInv
  <1>3. PICK g \in Frame : g = Head(encrypted_pkts[IoPair]) /\ g.marked /\ g.at \in Ports
    <2>1. Head(encrypted_pkts[IoPair]) \in Returned
      BY <1>2, HeadTailProperties
    <2> QED BY <2>1 DEF Returned, Frame
  <1>4. PICK s \in Seq(Frame) : s = Tail(encrypted_pkts[IoPair])
    <2>1. Tail(encrypted_pkts[IoPair]) \in Seq(Returned)
      BY <1>2, HeadTailProperties
    <2> QED BY <2>1, KindsAreFrames
  <1>5. PICK y \in Seq(Frame) : y = <<g>>
    <2>1. <<g>> \in Seq(Frame)
      OBVIOUS
    <2> QED BY <2>1, Zenon
  <1>6. PICK b \in Seq(Frame) : b = y \o s
    BY ConcatProperties
  <1>7. encrypted_pkts[IoPair] = b
    <2>1. encrypted_pkts[IoPair]
             = <<Head(encrypted_pkts[IoPair])>> \o Tail(encrypted_pkts[IoPair])
      BY <1>2
    <2> QED BY <1>3, <1>4, <1>5, <1>6, <2>1, Zenon
  <1>8. PICK a \in Seq(Frame) : a = tx_pkts[TheIo] \o crypto_to_tx[IoPair]
    BY WayTypes, ConcatProperties DEF IInv
  <1>9. Back = a \o b
    BY <1>7, <1>8, Zenon DEF Back
  <1>10. Back' = a \o s
    <2>1. encrypted_pkts'[IoPair] = s
      BY <1>1, <1>4, IoPairWorks DEF IInv, TypeOK
    <2> QED BY <1>1, <1>8, <2>1, Zenon DEF Back
  <1>11. Held' = Held
    BY <1>1, Zenon DEF Held
  <1>12. ASSUME NEW o
         PROVE  /\ DoneIds(a \o b, o) = DoneIds(a, o) \o (DoneIds(y, o) \o DoneIds(s, o))
                /\ DoneIds(a \o s, o) = DoneIds(a, o) \o DoneIds(s, o)
                /\ DoneIds(a, o) \in Seq(Nat) /\ DoneIds(s, o) \in Seq(Nat)
    <2>1. /\ DoneIds(a \o b, o) = DoneIds(a, o) \o DoneIds(b, o)
          /\ DoneIds(y \o s, o) = DoneIds(y, o) \o DoneIds(s, o)
          /\ DoneIds(a \o s, o) = DoneIds(a, o) \o DoneIds(s, o)
          /\ DoneIds(a, o) \in Seq(Nat) /\ DoneIds(s, o) \in Seq(Nat)
      BY DirectionIds
    <2> QED BY <1>6, <2>1, Zenon
  <1>13. PICK p \in Ports : p = g.at
    BY <1>3
  <1>14. PICK x \in Seq(Nat) : x = DoneIds(a, p)
    BY <1>12
  <1>15. PICK t \in Seq(Nat) : t = DoneIds(s, p)
    BY <1>12
  <1>16. PICK d \in Seq(Nat) : d = DoneIds(y, p)
    BY DirectionIds
  <1>17. PICK w \in Seq(Nat) : w = FreshIds(Held, p) \o FreshIds(rxq[p], p)
    BY FlightIs, ConcatProperties DEF IInv
  <1>18. InFlight[p] = x \o (d \o (t \o w))
    <2>1. InFlight[p] = DoneIds(Back, p) \o (FreshIds(Held, p) \o FreshIds(rxq[p], p))
      BY FlightIs DEF IInv
    <2>2. PICK u \in Seq(Nat) : u = d \o t
      BY ConcatProperties
    <2>3. InFlight[p] = (x \o u) \o w
      BY <1>9, <1>12, <1>14, <1>15, <1>16, <1>17, <2>1, <2>2, Zenon
    <2>4. Associate(x, u, w) /\ Associate(d, t, w)
      BY Associates
    <2> QED BY <2>2, <2>3, <2>4, Zenon DEF Associate
  <1>19. InFlight'[p] = x \o (t \o w)
    <2>1. InFlight'[p] = DoneIds(Back', p) \o (FreshIds(Held', p) \o FreshIds(rxq'[p], p))
      BY FlightNext DEF IInv
    <2>2. InFlight'[p] = (x \o t) \o w
      BY <1>1, <1>10, <1>11, <1>12, <1>14, <1>15, <1>17, <2>1, Zenon
    <2>3. Associate(x, t, w)
      BY Associates
    <2> QED BY <2>2, <2>3, Zenon DEF Associate
  <1>20. t \o w \in Seq(Nat)
    BY ConcatProperties
  <1>21. SentIds'[p] = SentIds[p] /\ SentIds[p] \in Seq(Nat)
    BY <1>1, FlightIs, FlightNext DEF IInv
  <1>22. ASSUME NEW o \in Ports, o # p
         PROVE  InFlight'[o] = InFlight[o] /\ SentIds'[o] = SentIds[o]
    <2>1. DoneIds(Back', o) = DoneIds(Back, o)
      <3>1. g \notin DoneOf(o)
        BY <1>13, <1>22 DEF DoneOf
      <3>2. DoneIds(<<g>>, o) = <<>>
        BY <3>1, DirectionIds
      <3>3. PICK z \in Seq(Nat) : z = DoneIds(s, o)
        BY <1>12
      <3>4. <<>> \o z = z
        BY ConcatEmptySeq
      <3> QED BY <1>5, <1>9, <1>10, <1>12, <3>2, <3>3, <3>4, Zenon
    <2>2. FreshIds(Held', o) = FreshIds(Held, o) /\ FreshIds(rxq'[o], o) = FreshIds(rxq[o], o)
      BY <1>1, <1>11, Zenon
    <2>3. sent'[Dst[o]] = sent[Dst[o]]
      BY <1>1
    <2> QED BY <2>1, <2>2, <2>3, PortStays DEF IInv
  <1> QED BY <1>1, <1>18, <1>19, <1>20, <1>21, <1>22, LostStep

\* What a port receives untouched came in on that port.
LEMMA WaitingIds ==
    ASSUME NEW p, NEW o, o # p, NEW s \in Seq(Waiting(p))
    PROVE  s \in Seq(Frame) /\ FreshIds(s, o) = <<>>
  <1>1. s \in Seq(Frame)
    BY KindsAreFrames
  <1>2. \A i \in 1 .. Len(s) : s[i] \notin FreshOf(o)
    <2> TAKE i \in 1 .. Len(s)
    <2>1. s[i] \in Waiting(p)
      BY ElementOfSeq
    <2> QED BY <2>1 DEF Waiting, FreshOf
  <1> QED BY <1>1, <1>2, OtherIds

\* The lcore frees the frames of its burst the ring did not take.
LEMMA DropRxChannel ==
    ASSUME IInv, IInv', BurstInv, TheIo \in IoLcores, DropRx(TheIo)
    PROVE  Channel!Next
  <1>1. /\ pc[TheIo] = "drop" /\ burst' = [burst EXCEPT ![TheIo] = <<>>]
        /\ UNCHANGED <<tx_pkts, pkts, encrypted_pkts, rx_to_crypto, crypto_to_tx>>
        /\ nframes' = nframes /\ sent' = sent /\ rxq' = rxq
    BY DEF DropRx, workers, rings, wires
  <1>2. PICK p \in Ports : p = Polled(TheIo)
    BY <1>1, PolledType DEF IInv
  <1>3. PICK b \in Seq(Waiting(p)) : b = burst[TheIo]
    BY <1>1, <1>2 DEF BurstInv
  <1>4. b \in Seq(Frame) /\ \A o : o # p => FreshIds(b, o) = <<>>
    BY KindsAreFrames, WaitingIds
  <1>5. PICK a \in Seq(Frame) : a = pkts[IoPair] \o rx_to_crypto[IoPair]
    BY WayTypes, ConcatProperties DEF IInv
  <1>6. Held = a \o b
    BY <1>3, <1>5, Zenon DEF Held
  <1>7. Held' = a
    <2>1. burst'[TheIo] = <<>>
      BY <1>1 DEF IInv, TypeOK
    <2>2. a \o <<>> = a
      BY ConcatEmptySeq
    <2> QED BY <1>1, <1>5, <2>1, <2>2, Zenon DEF Held
  <1>8. Back' = Back
    BY <1>1, Zenon DEF Back
  <1>9. ASSUME NEW o PROVE /\ FreshIds(a \o b, o) = FreshIds(a, o) \o FreshIds(b, o)
                           /\ FreshIds(a, o) \in Seq(Nat) /\ FreshIds(b, o) \in Seq(Nat)
    BY <1>4, DirectionIds
  <1>10. PICK d \in Seq(Nat) : d = DoneIds(Back, p)
    BY FlightIs DEF IInv
  <1>11. PICK x \in Seq(Nat) : x = FreshIds(a, p)
    BY <1>9
  <1>12. PICK y \in Seq(Nat) : y = FreshIds(b, p)
    BY <1>9
  <1>13. PICK r \in Seq(Nat) : r = FreshIds(rxq[p], p)
    BY FlightIs DEF IInv
  <1>14. PICK u \in Seq(Nat) : u = d \o x
    BY ConcatProperties
  <1>15. InFlight[p] = u \o (y \o r)
    <2>1. InFlight[p] = DoneIds(Back, p) \o (FreshIds(Held, p) \o FreshIds(rxq[p], p))
      BY FlightIs DEF IInv
    <2>2. InFlight[p] = d \o ((x \o y) \o r)
      BY <1>6, <1>9, <1>10, <1>11, <1>12, <1>13, <2>1, Zenon
    <2>3. PICK v \in Seq(Nat) : v = y \o r
      BY ConcatProperties
    <2>4. Associate(x, y, r) /\ Associate(d, x, v)
      BY Associates
    <2> QED BY <1>14, <2>2, <2>3, <2>4, Zenon DEF Associate
  <1>16. InFlight'[p] = u \o r
    <2>1. InFlight'[p] = DoneIds(Back', p) \o (FreshIds(Held', p) \o FreshIds(rxq'[p], p))
      BY FlightNext DEF IInv
    <2>2. InFlight'[p] = d \o (x \o r)
      BY <1>1, <1>7, <1>8, <1>10, <1>11, <1>13, <2>1, Zenon
    <2>3. Associate(d, x, r)
      BY Associates
    <2> QED BY <1>14, <2>2, <2>3, Zenon DEF Associate
  <1>17. SentIds'[p] = SentIds[p] /\ SentIds[p] \in Seq(Nat)
    BY <1>1, FlightIs, FlightNext DEF IInv
  <1>18. ASSUME NEW o \in Ports, o # p
         PROVE  InFlight'[o] = InFlight[o] /\ SentIds'[o] = SentIds[o]
    <2>1. FreshIds(Held', o) = FreshIds(Held, o)
      <3>1. PICK z \in Seq(Nat) : z = FreshIds(a, o)
        BY <1>9
      <3>2. z \o <<>> = z
        BY ConcatEmptySeq
      <3>3. FreshIds(b, o) = <<>>
        BY <1>4, <1>18
      <3> QED BY <1>6, <1>7, <1>9, <3>1, <3>2, <3>3, Zenon
    <2>2. DoneIds(Back', o) = DoneIds(Back, o) /\ FreshIds(rxq'[o], o) = FreshIds(rxq[o], o)
      BY <1>1, <1>8, Zenon
    <2>3. sent'[Dst[o]] = sent[Dst[o]]
      BY <1>1
    <2> QED BY <2>1, <2>2, <2>3, PortStays DEF IInv
  <1> QED BY <1>1, <1>15, <1>16, <1>17, <1>18, LostStep

\* The untouched frames of a queue of which t are taken and n are received.
LEMMA RxParts ==
    ASSUME NEW q \in Seq(Frame), NEW p, NEW len \in Nat, len = Len(q),
           NEW n \in 0 .. len, NEW t \in n .. len
    PROVE  \E x, y, r \in Seq(Nat) :
              /\ x = FreshIds(Taken(q, n), p) /\ r = FreshIds(Rest(q, t), p)
              /\ FreshIds(q, p) = x \o (y \o r)
  <1>1. n \in 0 .. Len(q) /\ t \in 0 .. Len(q)
    OBVIOUS
  <1>2. PICK a \in Seq(Frame) : a = Taken(q, n)
    BY <1>1, TakenFacts
  <1>3. PICK b \in Seq(Frame) : b = Rest(q, n)
    BY <1>1, TakenFacts
  <1>4. PICK k \in Nat : k = t - n /\ k \in 0 .. Len(b)
    <2>1. Len(b) = Len(q) - n
      BY <1>1, <1>3, TakenFacts
    <2>2. t - n \in 0 .. len - n /\ t - n \in Nat
      OBVIOUS
    <2> QED BY <2>1, <2>2
  <1>5. PICK d \in Seq(Frame) : d = Taken(b, k)
    BY <1>4, TakenFacts
  <1>6. PICK e \in Seq(Frame) : e = Rest(q, t)
    BY <1>1, TakenFacts
  <1>7. q = a \o b /\ b = d \o e
    <2>1. q = a \o b
      BY <1>1, <1>2, <1>3, TakenAndRest
    <2>2. b = d \o Rest(b, k)
      BY <1>4, <1>5, TakenAndRest
    <2>3. Rest(b, k) = e
      BY <1>3, <1>4, <1>6, RestOfRest
    <2> QED BY <2>1, <2>2, <2>3
  <1>8. /\ FreshIds(a \o b, p) = FreshIds(a, p) \o FreshIds(b, p)
        /\ FreshIds(d \o e, p) = FreshIds(d, p) \o FreshIds(e, p)
    BY DirectionIds
  <1>9. FreshIds(a, p) \in Seq(Nat) /\ FreshIds(d, p) \in Seq(Nat) /\ FreshIds(e, p) \in Seq(Nat)
    BY DirectionIds
  <1>10. FreshIds(q, p) = FreshIds(a, p) \o (FreshIds(d, p) \o FreshIds(e, p))
    BY <1>7, <1>8, Zenon
  <1> QED BY <1>2, <1>6, <1>9, <1>10, Zenon

\* A burst is received: its untouched frames are still under way, unless no
\* mbuf was left.
LEMMA RxBurstChannel ==
    ASSUME IInv, IInv', TheIo \in IoLcores, RxBurst(TheIo)
    PROVE  Channel!Next
  <1>1. PICK p \in Ports : p = Polled(TheIo)
    BY PolledType DEF RxBurst, IInv
  <1>2. PICK q \in Seq(Waiting(p)) : q = rxq[p]
    BY DEF IInv, WireInv
  <1>3. q \in Seq(Frame)
    BY KindsAreFrames
  <1>4. PICK len \in Nat : len = Len(q)
    BY LenProperties
  <1>5. PICK n \in 0 .. len : n = RxCount(len, BurstSize, pool)
    BY RxCounts
  <1>6. PICK t \in n .. len : t = RxTaken(len, BurstSize, pool)
    BY <1>5, RxCounts
  <1>7. n \in 0 .. Len(q) /\ t \in 0 .. Len(q)
    BY <1>4, <1>5, <1>6
  <1>8. /\ pc[TheIo] = "rx" /\ rxq' = [rxq EXCEPT ![p] = Rest(q, t)]
        /\ UNCHANGED <<tx_pkts, pkts, encrypted_pkts, rx_to_crypto, crypto_to_tx>>
        /\ nframes' = nframes /\ sent' = sent
        /\ \/ n = 0 /\ UNCHANGED burst
           \/ burst' = [burst EXCEPT ![TheIo] = Rewritten(q, n, p)]
    BY <1>1, <1>2, <1>4, <1>5, <1>6, Zenon DEF RxBurst, Polled, Rewritten, workers, rings
  <1>9. PICK b \in Seq(Waiting(p)) : b = Rewritten(q, n, p)
                                     /\ \A o : FreshIds(b, o) = FreshIds(Taken(q, n), o)
    <2>1. PICK b : b = Rewritten(q, n, p)
      OBVIOUS
    <2>2. b \in Seq(Waiting(p)) /\ \A o : FreshIds(b, o) = FreshIds(Taken(q, n), o)
      BY <1>7, <2>1, BurstFrames
    <2> QED BY <2>1, <2>2
  <1>10. burst[TheIo] = <<>> /\ burst'[TheIo] = b
    <2>1. burst[TheIo] = <<>>
      BY <1>8 DEF IInv, IoInv
    <2>2. n = 0 => Rewritten(q, n, p) = <<>>
      BY DEF Rewritten
    <2> QED BY <1>8, <1>9, <2>1, <2>2 DEF IInv, TypeOK
  <1>11. b \in Seq(Frame)
    BY KindsAreFrames
  <1>12. PICK a \in Seq(Frame) : a = pkts[IoPair] \o rx_to_crypto[IoPair]
    BY WayTypes, ConcatProperties DEF IInv
  <1>13. Held = a /\ Held' = a \o b
    <2>1. a \o <<>> = a
      BY ConcatEmptySeq
    <2> QED BY <1>8, <1>10, <1>12, <2>1, Zenon DEF Held
  <1>14. Back' = Back
    BY <1>8, Zenon DEF Back
  <1>15. PICK x \in Seq(Nat) : \E y, r \in Seq(Nat) :
             /\ x = FreshIds(Taken(q, n), p) /\ r = FreshIds(Rest(q, t), p)
             /\ FreshIds(q, p) = x \o (y \o r)
    BY <1>3, <1>4, RxParts
  <1>16. PICK y \in Seq(Nat) : \E r \in Seq(Nat) :
             /\ x = FreshIds(Taken(q, n), p) /\ r = FreshIds(Rest(q, t), p)
             /\ FreshIds(q, p) = x \o (y \o r)
    BY <1>15
  <1>17. PICK r \in Seq(Nat) :
             /\ x = FreshIds(Taken(q, n), p) /\ r = FreshIds(Rest(q, t), p)
             /\ FreshIds(q, p) = x \o (y \o r)
    BY <1>16
  <1>18. PICK d \in Seq(Nat) : d = DoneIds(Back, p)
    BY FlightIs DEF IInv
  <1>19. PICK h \in Seq(Nat) : h = FreshIds(a, p)
    BY DirectionIds
  <1>20. PICK k \in Seq(Nat) : k = h \o x
    BY ConcatProperties
  <1>21. PICK u \in Seq(Nat) : u = d \o k
    BY ConcatProperties
  <1>22. InFlight[p] = u \o (y \o r)
    <2>1. InFlight[p] = DoneIds(Back, p) \o (FreshIds(Held, p) \o FreshIds(rxq[p], p))
      BY FlightIs DEF IInv
    <2>2. PICK v \in Seq(Nat) : v = y \o r
      BY ConcatProperties
    <2>3. InFlight[p] = d \o (h \o (x \o v))
      BY <1>2, <1>13, <1>17, <1>18, <1>19, <2>1, <2>2, Zenon
    <2>4. Associate(h, x, v) /\ Associate(d, k, v)
      BY Associates
    <2> QED BY <1>20, <1>21, <2>2, <2>3, <2>4, Zenon DEF Associate
  <1>23. InFlight'[p] = u \o r
    <2>1. InFlight'[p] = DoneIds(Back', p) \o (FreshIds(Held', p) \o FreshIds(rxq'[p], p))
      BY FlightNext DEF IInv
    <2>2. FreshIds(Held', p) = k
      <3>1. FreshIds(a \o b, p) = FreshIds(a, p) \o FreshIds(b, p)
        BY <1>11, DirectionIds
      <3> QED BY <1>9, <1>13, <1>17, <1>19, <1>20, <3>1, Zenon
    <2>3. rxq'[p] = Rest(q, t)
      BY <1>8 DEF IInv, TypeOK
    <2>4. Associate(d, k, r)
      BY Associates
    <2> QED BY <1>14, <1>17, <1>18, <1>21, <2>1, <2>2, <2>3, <2>4, Zenon DEF Associate
  <1>24. SentIds'[p] = SentIds[p] /\ SentIds[p] \in Seq(Nat)
    BY <1>8, FlightIs, FlightNext DEF IInv
  <1>25. ASSUME NEW o \in Ports, o # p
         PROVE  InFlight'[o] = InFlight[o] /\ SentIds'[o] = SentIds[o]
    <2>1. FreshIds(Held', o) = FreshIds(Held, o)
      <3>1. PICK z \in Seq(Nat) : z = FreshIds(a, o)
        BY DirectionIds
      <3>2. z \o <<>> = z
        BY ConcatEmptySeq
      <3>3. FreshIds(b, o) = <<>>
        BY <1>25, WaitingIds
      <3>4. FreshIds(a \o b, o) = FreshIds(a, o) \o FreshIds(b, o)
        BY <1>11, DirectionIds
      <3> QED BY <1>13, <3>1, <3>2, <3>3, <3>4, Zenon
    <2>2. rxq'[o] = rxq[o]
      BY <1>8, <1>25 DEF IInv, TypeOK
    <2>3. DoneIds(Back', o) = DoneIds(Back, o) /\ FreshIds(rxq'[o], o) = FreshIds(rxq[o], o)
      BY <1>14, <2>2, Zenon
    <2>4. sent'[Dst[o]] = sent[Dst[o]]
      BY <1>8
    <2> QED BY <2>1, <2>3, <2>4, PortStays DEF IInv
  <1> QED BY <1>8, <1>22, <1>23, <1>24, <1>25, LostStep

\* What a group and the rest of a batch contribute to each direction.
LEMMA GroupIds ==
    ASSUME NEW s \in Seq(Returned), NEW q \in Ports, NEW p \in Ports, p = Dst[q],
           NEW g, g = Select(s, ForPort(s, q)),
           NEW t, t = Select(s, InSeq(s) \ ForPort(s, q))
    PROVE  /\ DoneIds(s, p) = Ids(g) /\ g \in Seq(Frame)
           /\ t \in Seq(Frame) /\ DoneIds(t, p) = <<>>
           /\ \A o : o # p => DoneIds(t, o) = DoneIds(s, o)
  <1>1. PICK n \in Nat : n = Len(s)
    BY LenProperties
  <1>2. \A i \in 1 .. n : /\ s[i] \in Frame /\ s[i] \in InSeq(s) /\ s[i].marked
                          /\ s[i].port \in Ports /\ s[i].at = Dst[s[i].port]
    <2> TAKE i \in 1 .. n
    <2>1. s[i] \in Returned
      BY <1>1, ElementOfSeq
    <2> QED BY <1>1, <2>1 DEF Returned, Frame, InSeq
  <1>3. \A a, b \in Ports : Dst[a] = Dst[b] <=> a = b
    BY ConfigAssumption
  <1>4. \A i \in 1 .. n : s[i] \in DoneOf(p) <=> s[i] \in ForPort(s, q)
    <2> TAKE i \in 1 .. n
    <2>1. s[i].at = p <=> s[i].port = q
      BY <1>2, <1>3
    <2> QED BY <1>2, <2>1 DEF DoneOf, ForPort
  <1>5. Select(s, DoneOf(p)) = g
    BY <1>1, <1>4, SelectSame
  <1>6. DoneIds(s, p) = Ids(g)
    BY <1>5, Zenon DEF DoneIds, IdsIn
  <1>7. g \in Seq(Frame)
    <2>1. g \in Seq(Returned \cap ForPort(s, q))
      BY SelectFacts
    <2>2. Returned \cap ForPort(s, q) \subseteq Frame
      BY DEF Returned
    <2> QED BY <2>1, <2>2, SeqMonotonic
  <1>8. t \in Seq(Returned \cap (InSeq(s) \ ForPort(s, q)))
    BY SelectFacts
  <1>9. t \in Seq(Frame)
    <2>1. Returned \cap (InSeq(s) \ ForPort(s, q)) \subseteq Frame
      BY DEF Returned
    <2> QED BY <1>8, <2>1, SeqMonotonic
  <1>10. DoneIds(t, p) = <<>>
    <2>1. \A i \in 1 .. Len(t) : t[i] \notin DoneOf(p)
      <3> TAKE i \in 1 .. Len(t)
      <3>1. t[i] \in Returned \cap (InSeq(s) \ ForPort(s, q))
        BY <1>8, ElementOfSeq
      <3>2. t[i].port # q /\ t[i].port \in Ports /\ t[i].at = Dst[t[i].port]
        BY <3>1 DEF ForPort, Returned, Frame
      <3> QED BY <1>3, <3>2 DEF DoneOf
    <2> QED BY <1>9, <2>1, OtherIds
  <1>11. ASSUME NEW o, o # p PROVE DoneIds(t, o) = DoneIds(s, o)
    <2>1. PICK S : S = DoneOf(o)
      OBVIOUS
    <2>2. PICK T : T = InSeq(s) \ ForPort(s, q)
      OBVIOUS
    <2>3. \A i \in 1 .. n : s[i] \in S => s[i] \in T
      <3> TAKE i \in 1 .. n
      <3>1. s[i] \in S => s[i].at = o
        BY <2>1 DEF DoneOf
      <3>2. s[i].at = o => s[i].port # q
        BY <1>2, <1>11
      <3>3. s[i].port # q => s[i] \in T
        BY <1>2, <2>2 DEF ForPort
      <3> QED BY <3>1, <3>2, <3>3
    <2>4. Select(Select(s, T), S) = Select(s, S)
      BY <1>1, <2>3, SelectSelect
    <2>5. Select(s, T) = t
      BY <2>2
    <2> QED BY <2>1, <2>4, <2>5, Zenon DEF DoneIds, IdsIn
  <1> QED BY <1>6, <1>7, <1>9, <1>10, <1>11

\* Numbers at the front of five sequences.
AtFront(x, y, c, e, w) == (((x \o y) \o c) \o e) \o w = x \o (y \o ((c \o e) \o w))

\* They can be taken out one after the other.
LEMMA FrontOfFive ==
    ASSUME NEW x \in Seq(Nat), NEW y \in Seq(Nat), NEW c \in Seq(Nat), NEW e \in Seq(Nat),
           NEW w \in Seq(Nat)
    PROVE  AtFront(x, y, c, e, w)
  <1>1. PICK a \in Seq(Nat) : a = x \o y
    BY ConcatProperties
  <1>2. PICK b \in Seq(Nat) : b = c \o e
    BY ConcatProperties
  <1>3. PICK d \in Seq(Nat) : d = b \o w
    BY ConcatProperties
  <1>4. Associate(a, c, e) /\ Associate(a, b, w) /\ Associate(x, y, d)
    BY Associates
  <1> QED BY <1>1, <1>2, <1>3, <1>4, Zenon DEF Associate, AtFront

\* The lcore sends the first frames of a group; the rest of the group is lost.
LEMMA SendChannel ==
    ASSUME IInv, IInv', QueueInv, TheIo \in IoLcores, Send(TheIo)
    PROVE  Channel!Next
  <1>1. pc[TheIo] = "send"
    BY DEF Send
  <1>2. PICK q \in Ports : q = GroupPort(TheIo)
    BY <1>1, GroupFacts
  <1>3. PICK p \in Ports : p = Dst[q] /\ Dst[p] = q
    BY ConfigAssumption
  <1>4. PICK s \in Seq(Returned) : s = tx_pkts[TheIo]
    BY DEF IInv, TypeOK
  <1>5. PICK g \in Seq(Leaving(q)) : g = Group(TheIo)
    BY <1>1, <1>2, GroupFacts
  <1>6. PICK t : t = Select(s, InSeq(s) \ ForPort(s, q))
    OBVIOUS
  <1>7. /\ DoneIds(s, p) = Ids(g) /\ g \in Seq(Frame)
        /\ t \in Seq(Frame) /\ DoneIds(t, p) = <<>>
        /\ \A o : o # p => DoneIds(t, o) = DoneIds(s, o)
    <2>1. g = Select(s, ForPort(s, q))
      BY <1>2, <1>4, <1>5 DEF Group
    <2> QED BY <1>3, <1>6, <2>1, GroupIds
  <1>8. /\ tx_pkts' = [tx_pkts EXCEPT ![TheIo] = t] /\ nframes' = nframes
        /\ UNCHANGED <<burst, pkts, encrypted_pkts, rx_to_crypto, crypto_to_tx>>
    BY <1>2, <1>4, <1>6 DEF Send, workers, rings
  <1>9. PICK n \in 0 .. Len(g) :
           /\ sent' = [sent EXCEPT ![q] = sent[q] \o Taken(g, n)]
           /\ rxq' = IF Peer[q] \in Ports
                     THEN [rxq EXCEPT ![Peer[q]] =
                               Arrive(rxq[Peer[q]], Taken(g, n), RxQueueSize)]
                     ELSE rxq
    BY <1>2, <1>5 DEF Send
  <1>10. \A o \in Ports : FreshIds(rxq'[o], o) = FreshIds(rxq[o], o)
    BY <1>9, WireFresh
  <1>11. PICK a \in Seq(Frame) : a = Taken(g, n)
    BY <1>7, <1>9, TakenFacts
  <1>12. PICK b \in Seq(Frame) : b = Rest(g, n)
    BY <1>7, <1>9, TakenFacts
  <1>13. g = a \o b
    BY <1>7, <1>9, <1>11, <1>12, TakenAndRest
  <1>14. PICK x \in Seq(Nat) : x = Ids(a)
    BY FramesNumbered, NumbersFacts
  <1>15. PICK y \in Seq(Nat) : y = Ids(b)
    BY FramesNumbered, NumbersFacts
  <1>16. DoneIds(s, p) = x \o y
    <2>1. Ids(a \o b) = Ids(a) \o Ids(b)
      BY FramesNumbered, NumbersConcat
    <2> QED BY <1>7, <1>13, <1>14, <1>15, <2>1, Zenon
  <1>17. s \in Seq(Frame)
    BY KindsAreFrames
  <1>18. PICK c \in Seq(Frame) : c = crypto_to_tx[IoPair]
    BY WayTypes DEF IInv
  <1>19. PICK e \in Seq(Frame) : e = encrypted_pkts[IoPair]
    BY WayTypes DEF IInv
  <1>20. Back = (s \o c) \o e
    BY <1>4, <1>18, <1>19, Zenon DEF Back
  <1>21. Back' = (t \o c) \o e
    <2>1. tx_pkts'[TheIo] = t
      BY <1>8 DEF IInv, TypeOK
    <2> QED BY <1>8, <1>18, <1>19, <2>1, Zenon DEF Back
  <1>22. Held' = Held
    BY <1>8, Zenon DEF Held
  <1>23. ASSUME NEW o, NEW v \in Seq(Frame)
         PROVE  DoneIds((v \o c) \o e, o) = (DoneIds(v, o) \o DoneIds(c, o)) \o DoneIds(e, o)
    <2>1. PICK u \in Seq(Frame) : u = v \o c
      BY ConcatProperties
    <2>2. /\ DoneIds(u \o e, o) = DoneIds(u, o) \o DoneIds(e, o)
          /\ DoneIds(v \o c, o) = DoneIds(v, o) \o DoneIds(c, o)
      BY DirectionIds
    <2> QED BY <2>1, <2>2, Zenon
  <1>24. PICK k \in Seq(Nat) : k = DoneIds(c, p)
    BY DirectionIds
  <1>25. PICK m \in Seq(Nat) : m = DoneIds(e, p)
    BY DirectionIds
  <1>26. PICK w \in Seq(Nat) : w = FreshIds(Held, p) \o FreshIds(rxq[p], p)
    BY FlightIs, ConcatProperties DEF IInv
  <1>27. PICK z \in Seq(Nat) : z = k \o m
    BY ConcatProperties
  <1>28. PICK r \in Seq(Nat) : r = z \o w
    BY ConcatProperties
  <1>29. InFlight[p] = x \o (y \o r)
    <2>1. InFlight[p] = DoneIds(Back, p) \o (FreshIds(Held, p) \o FreshIds(rxq[p], p))
      BY FlightIs DEF IInv
    <2>2. DoneIds(Back, p) = ((x \o y) \o k) \o m
      <3>1. DoneIds((s \o c) \o e, p) = (DoneIds(s, p) \o DoneIds(c, p)) \o DoneIds(e, p)
        BY <1>17, <1>23
      <3> QED BY <1>16, <1>20, <1>24, <1>25, <3>1, Zenon
    <2>3. AtFront(x, y, k, m, w)
      BY FrontOfFive
    <2> QED BY <1>26, <1>27, <1>28, <2>1, <2>2, <2>3, Zenon DEF AtFront
  <1>30. InFlight'[p] = r
    <2>1. InFlight'[p] = DoneIds(Back', p) \o (FreshIds(Held', p) \o FreshIds(rxq'[p], p))
      BY FlightNext DEF IInv
    <2>2. DoneIds(Back', p) = z
      <3>1. DoneIds((t \o c) \o e, p) = (DoneIds(t, p) \o DoneIds(c, p)) \o DoneIds(e, p)
        BY <1>7, <1>23
      <3>2. <<>> \o k = k
        BY ConcatEmptySeq
      <3> QED BY <1>7, <1>21, <1>24, <1>25, <1>27, <3>1, <3>2, Zenon
    <2>3. FreshIds(rxq'[p], p) = FreshIds(rxq[p], p)
      BY <1>10
    <2> QED BY <1>22, <1>26, <1>28, <2>1, <2>2, <2>3, Zenon
  <1>31. SentIds'[p] = SentIds[p] \o x
    <2>1. SentIds'[p] = Ids(sent'[q]) /\ SentIds[p] = Ids(sent[q])
      BY <1>3, FlightIs, FlightNext DEF IInv
    <2>2. PICK u \in Seq(Frame) : u = sent[q]
      BY DEF IInv, TypeOK
    <2>3. sent'[q] = u \o a
      BY <1>9, <1>11, <2>2 DEF IInv, TypeOK
    <2>4. Ids(u \o a) = Ids(u) \o Ids(a)
      BY FramesNumbered, NumbersConcat
    <2> QED BY <1>14, <2>1, <2>2, <2>3, <2>4, Zenon
  <1>32. ASSUME NEW o \in Ports, o # p
         PROVE  InFlight'[o] = InFlight[o] /\ SentIds'[o] = SentIds[o]
    <2>1. DoneIds(Back', o) = DoneIds(Back, o)
      <3>1. DoneIds((s \o c) \o e, o) = (DoneIds(s, o) \o DoneIds(c, o)) \o DoneIds(e, o)
        BY <1>17, <1>23
      <3>2. DoneIds((t \o c) \o e, o) = (DoneIds(t, o) \o DoneIds(c, o)) \o DoneIds(e, o)
        BY <1>7, <1>23
      <3>3. DoneIds(t, o) = DoneIds(s, o)
        BY <1>7, <1>32
      <3> QED BY <1>20, <1>21, <3>1, <3>2, <3>3, Zenon
    <2>2. FreshIds(Held', o) = FreshIds(Held, o)
      BY <1>22, Zenon
    <2>3. FreshIds(rxq'[o], o) = FreshIds(rxq[o], o)
      BY <1>10
    <2>4. sent'[Dst[o]] = sent[Dst[o]]
      <3>1. Dst[o] \in Ports /\ Dst[o] # q
        BY <1>3, <1>32, ConfigAssumption
      <3> QED BY <1>9, <3>1 DEF IInv, TypeOK
    <2> QED BY <2>1, <2>2, <2>3, <2>4, PortStays DEF IInv
  <1> QED BY <1>8, <1>29, <1>30, <1>31, <1>32, SentStep

\* A worker whose rings no I/O lcore uses moves nothing.
LEMMA OtherWorkerChannel ==
    ASSUME IInv, IInv', TheIo \in IoLcores, NEW w \in Workers, WorkerStep(w), w # IoPair
    PROVE  UNCHANGED Channel!vars
  <1>1. UNCHANGED <<tx_pkts, burst>> /\ UNCHANGED wires
    BY DEF WorkerStep, StartWorker, QuitWorker, DequeueCrypto, DecryptPacket,
           EncryptPacket, EnqueueTx, FreeTx, io
  <1>2. pkts'[IoPair] = pkts[IoPair]
    BY IoPairWorks DEF WorkerStep, StartWorker, QuitWorker, DequeueCrypto, DecryptPacket,
                       EncryptPacket, EnqueueTx, FreeTx, NextPacket, IInv, TypeOK
  <1>3. encrypted_pkts'[IoPair] = encrypted_pkts[IoPair]
    BY IoPairWorks DEF WorkerStep, StartWorker, QuitWorker, DequeueCrypto, DecryptPacket,
                       EncryptPacket, EnqueueTx, FreeTx, IInv, TypeOK
  <1>4. rx_to_crypto'[IoPair] = rx_to_crypto[IoPair]
    BY IoPairWorks DEF WorkerStep, StartWorker, QuitWorker, DequeueCrypto, DecryptPacket,
                       EncryptPacket, EnqueueTx, FreeTx, rings, IInv, TypeOK
  <1>5. crypto_to_tx'[IoPair] = crypto_to_tx[IoPair]
    BY IoPairWorks DEF WorkerStep, StartWorker, QuitWorker, DequeueCrypto, DecryptPacket,
                       EncryptPacket, EnqueueTx, FreeTx, rings, IInv, TypeOK
  <1> QED BY <1>1, <1>2, <1>3, <1>4, <1>5, Untouched

\* Every step of the pipeline is a step of the channel or none.
LEMMA ChannelNext ==
    ASSUME OneIo, TheIo \in IoLcores, IInv, IInv', QueueInv, BurstInv, [Step]_program
    PROVE  [Channel!Next]_Channel!vars
  <1>1. ASSUME UNCHANGED <<burst, tx_pkts, pkts, encrypted_pkts, rx_to_crypto, crypto_to_tx>>,
               UNCHANGED wires
        PROVE  UNCHANGED Channel!vars
    BY <1>1, Untouched
  <1>2. ASSUME IoStep(TheIo) PROVE [Channel!Next]_Channel!vars
    <2>1. CASE Top(TheIo) \/ CountMarked(TheIo) \/ SendDone(TheIo)
      BY <1>1, <2>1 DEF Top, CountMarked, SendDone, workers, rings
    <2>2. CASE RxBurst(TheIo)
      BY <2>2, RxBurstChannel
    <2>3. CASE EnqueueRx(TheIo)
      BY <2>3, EnqueueRxChannel
    <2>4. CASE DropRx(TheIo)
      BY <2>4, DropRxChannel
    <2>5. CASE DequeueTx(TheIo)
      BY <2>5, DequeueTxChannel
    <2>6. CASE Send(TheIo)
      BY <2>6, SendChannel
    <2> QED BY <1>2, <2>1, <2>2, <2>3, <2>4, <2>5, <2>6 DEF IoStep
  <1>3. ASSUME NEW w \in Workers, WorkerStep(w) PROVE [Channel!Next]_Channel!vars
    <2>1. CASE w # IoPair
      BY <1>3, <2>1, OtherWorkerChannel
    <2>2. CASE w = IoPair
      <3>1. CASE StartWorker(IoPair) \/ QuitWorker(IoPair)
        BY <1>1, <3>1 DEF StartWorker, QuitWorker, io, rings
      <3>2. CASE DequeueCrypto(IoPair)
        BY <3>2, DequeueCryptoChannel
      <3>3. CASE DecryptPacket(IoPair)
        BY <3>3, DecryptChannel
      <3>4. CASE EncryptPacket(IoPair)
        BY <3>4, EncryptChannel
      <3>5. CASE EnqueueTx(IoPair)
        BY <3>5, EnqueueTxChannel
      <3>6. CASE FreeTx(IoPair)
        BY <3>6, FreeTxChannel
      <3> QED BY <1>3, <2>2, <3>1, <3>2, <3>3, <3>4, <3>5, <3>6 DEF WorkerStep
    <2> QED BY <2>1, <2>2
  <1>4. ASSUME NEW p \in Ports, Inject(p) PROVE [Channel!Next]_Channel!vars
    BY <1>4, InjectChannel
  <1>5. CASE Signal \/ WaitAndClose \/ UNCHANGED program
    BY <1>1, <1>5 DEF Signal, WaitAndClose, program, io, workers, rings
  <1>6. ASSUME NEW l \in IoLcores, IoStep(l) PROVE [Channel!Next]_Channel!vars
    <2>1. l = TheIo
      BY DEF OneIo
    <2> QED BY <1>2, <1>6, <2>1
  <1> QED BY <1>3, <1>4, <1>5, <1>6 DEF Step

\* With one I/O lcore, as in every configuration of the program, frames leave
\* in the order they came, each at most once, from each port to its peer:
\* across both rings, the worker and the grouping of a batch by port, whatever
\* the interleaving, the driver's partial bursts and full rings, the pipeline
\* implements the lossy channel.
THEOREM OrderImplemented ==
    ASSUME OneIo, IoLcores # {}
    PROVE  Spec => ImplementsLossyFifo
  <1>1. TheIo \in IoLcores
    BY DEF TheIo
  <1>2. Init => QueueInv /\ BurstInv /\ Channel!Init
    BY <1>1, QueueInit, BurstInit, ChannelInit
  <1>3. IInv /\ [Next]_vars => IInv'
    BY NextIsStep, StepInv
  <1>4. IInv /\ QueueInv /\ BurstInv /\ [Step]_program => QueueInv' /\ BurstInv'
    BY QueueNext, BurstNext
  <1>5. IInv /\ IInv' /\ QueueInv /\ BurstInv /\ [Step]_program => [Channel!Next]_Channel!vars
    BY <1>1, ChannelNext
  <1> QED BY <1>2, <1>3, <1>4, <1>5, NextIsStep, Invariance, PTL
          DEF Spec, ImplementsLossyFifo, Channel!Spec
=============================================================================
