------------------------------ MODULE Pipeline ------------------------------
(***************************************************************************)
(* The decoupled forwarder: Dpdk-lab/multi_thread/l2fwd-multi-thread/main.c*)
(* I/O lcores run l2fwd_main_loop(): they receive bursts, hand them to the *)
(* crypto side through the ring rx_to_crypto and send what comes back      *)
(* through crypto_to_tx.  Crypto workers run crypto_loop() on the ring     *)
(* pair of their worker id.                                                *)
(*                                                                         *)
(* At this commit the I/O loop still names the arrays of rings and of drop *)
(* counters without an index (lines 578-592), so that the file does not    *)
(* compile as it stands; MULTI_RING_PROGRESS.md lists the loop as still to *)
(* be changed.  It is read here the way it was written, for one ring pair: *)
(* the I/O loop uses element 0, IoPair, of each array.                     *)
(*                                                                         *)
(* tx_buffer[] is allocated but never filled by this program, so the drain *)
(* of the loop flushes empty buffers and is left out.  Counters several    *)
(* lcores may write without a lock are read and written in two steps.      *)
(***************************************************************************)
EXTENDS Packets

CONSTANTS
    Ports,              \* the ports in use, numbers
    IoLcores,           \* lcores that poll ports
    RxPortList,         \* per I/O lcore: the ports it polls
    Workers,            \* ids of the launched crypto workers, from 0
    Dst,                \* l2fwd_dst_ports
    Peer, Outside,      \* wiring of the ports, as in L2fwd
    BurstSize,          \* MAX_PKT_BURST and RTE_RING_BURST
    RingSizes,          \* usable sizes of a ring (RING_SIZE - 1) to consider
    NbMbufs,            \* size of l2fwd_pktmbuf_pool
    RxQueueSize,        \* what the kernel holds for a port
    MaxFrames           \* bound: frames the outside world sends

ASSUME LcoreAssumption ==
    /\ IsFiniteSet(IoLcores) /\ IsFiniteSet(Workers) /\ Ports \subseteq Nat

ASSUME SizeAssumption ==
    /\ BurstSize \in Nat \ {0} /\ NbMbufs \in Nat /\ RxQueueSize \in Nat
    /\ MaxFrames \in Nat /\ RingSizes \subseteq Nat

ASSUME ConfigAssumption ==
    /\ Dst \in [Ports -> Ports]
    /\ \A p \in Ports : Dst[Dst[p]] = p
    /\ Peer \in [Ports -> Ports \cup {Outside}]
    /\ RxPortList \in [IoLcores -> Seq(Ports) \ {<<>>}]
    /\ 0 \in Workers

IoPair == 0

VARIABLES
    ring_size,          \* usable entries of every ring
    force_quit,
    pc,                 \* per I/O lcore
    cur,                \* per I/O lcore: the loop index i
    burst,              \* per I/O lcore: received frames it still holds
    tx_pkts,            \* per I/O lcore: dequeued frames still to be sent
    unsent,             \* per I/O lcore: mbufs left after tx_burst
    reg,                \* per I/O lcore: a counter value read, to be written
    wpc,                \* per worker
    pkts,               \* per worker: the dequeued frames still to be handled
    encrypted_pkts,     \* per worker: the encrypted frames it collects
    encrypt_ctx, decrypt_ctx,           \* per worker
    rx_to_crypto, crypto_to_tx,         \* the rings
    rx_dropped, tx_dropped,             \* ring_*_dropped[]
    encrypted, decrypted,               \* crypto_*_count[]
    tx_marked,          \* tx_encrypted_marked_count
    rx, tx,             \* port_statistics
    pool,               \* free mbufs
    rxq, sent, nframes, \* the wires, as in L2fwd
    main,               \* where main() is
    ended               \* a lcore has called rte_exit()

io       == <<pc, cur, burst, tx_pkts, unsent, reg>>
workers  == <<wpc, pkts, encrypted_pkts, encrypt_ctx, decrypt_ctx>>
rings    == <<ring_size, rx_to_crypto, crypto_to_tx>>
counters == <<rx_dropped, tx_dropped, encrypted, decrypted, tx_marked, rx, tx>>
wires    == <<rxq, sent, nframes>>
program == <<io, workers, rings, counters, pool, wires, force_quit, main>>
vars == <<program, ended>>

\* A frame also has the port field of its mbuf.
Init ==
    /\ ring_size \in RingSizes
    /\ force_quit = FALSE
    /\ pc = [l \in IoLcores |-> "top"]
    /\ cur = [l \in IoLcores |-> 1]
    /\ burst = [l \in IoLcores |-> <<>>]
    /\ tx_pkts = [l \in IoLcores |-> <<>>]
    /\ unsent = [l \in IoLcores |-> 0]
    /\ reg = [l \in IoLcores |-> 0]
    /\ wpc = [w \in Workers |-> "start"]
    /\ pkts = [w \in Workers |-> <<>>]
    /\ encrypted_pkts = [w \in Workers |-> <<>>]
    /\ encrypt_ctx = [w \in Workers |-> "null"]
    /\ decrypt_ctx = [w \in Workers |-> "null"]
    /\ rx_to_crypto = [w \in Workers |-> <<>>]
    /\ crypto_to_tx = [w \in Workers |-> <<>>]
    /\ rx_dropped = [w \in Workers |-> 0]
    /\ tx_dropped = [w \in Workers |-> 0]
    /\ encrypted = [w \in Workers |-> 0]
    /\ decrypted = [w \in Workers |-> 0]
    /\ tx_marked = 0
    /\ rx = [p \in Ports |-> 0]
    /\ tx = [p \in Ports |-> 0]
    /\ pool = NbMbufs
    /\ rxq = [p \in Ports |-> <<>>]
    /\ sent = [p \in Ports |-> <<>>]
    /\ nframes = 0
    /\ main = "wait"
    /\ ended = FALSE

\* A host on the wire of p sends a frame.
Inject(p) ==
    /\ nframes < MaxFrames
    /\ main = "wait"
    /\ nframes' = nframes + 1
    /\ rxq' = [rxq EXCEPT ![p] = Arrive(@,
                 <<[id |-> nframes + 1, at |-> p, port |-> p, enc |-> 0,
                    marked |-> FALSE, body |-> "plain"]>>, RxQueueSize)]
    /\ UNCHANGED <<io, workers, rings, counters, pool, sent, force_quit, main>>

-----------------------------------------------------------------------------
(* rte_ring: the burst operations move as many as fit, or as there are.    *)

\* Mutant: one entry too few is used.
RoomSpare(ring) == ring_size - 1 - Len(ring)

Room(ring) == ring_size - Len(ring)
Enqueued(ring, fs) == Min({Len(fs), Room(ring)})

\* Mutant: rte_ring_dequeue_bulk(), all of a burst or nothing.
DequeuedBulk(ring) == IF Len(ring) >= BurstSize THEN BurstSize ELSE 0

Dequeued(ring) == Min({BurstSize, Len(ring)})

-----------------------------------------------------------------------------
(* l2fwd_main_loop() on I/O lcore l: receiving.                            *)

Top(l) ==
    /\ pc[l] = "top"
    /\ pc' = [pc EXCEPT ![l] = IF force_quit THEN "done" ELSE "rx"]
    /\ UNCHANGED <<cur, burst, tx_pkts, unsent, reg, workers, rings, counters,
                   pool, wires, force_quit, main>>

\* The next port of l, or the sending half of the loop.
NextPort(l) ==
    IF cur[l] < Len(RxPortList[l])
    THEN /\ cur' = [cur EXCEPT ![l] = @ + 1]
         /\ pc' = [pc EXCEPT ![l] = "rx"]
    ELSE /\ cur' = [cur EXCEPT ![l] = 1]
         /\ pc' = [pc EXCEPT ![l] = "tx"]

\* rte_eth_rx_burst(); each mbuf remembers its port.
RxBurst(l) ==
    /\ pc[l] = "rx"
    /\ LET p == RxPortList[l][cur[l]]
           n == RxCount(Len(rxq[p]), BurstSize, pool)
       IN  /\ rxq' = [rxq EXCEPT ![p] =
                          Rest(@, RxTaken(Len(@), BurstSize, pool))]
           /\ \/ /\ n = 0
                 /\ NextPort(l)
                 /\ UNCHANGED <<burst, pool, rx>>
              \/ /\ n > 0
                 /\ burst' = [burst EXCEPT ![l] =
                       [i \in 1 .. n |-> [rxq[p][i] EXCEPT !.port = p]]]
                 /\ pool' = pool - n
                 /\ rx' = [rx EXCEPT ![p] = @ + n]
                 /\ pc' = [pc EXCEPT ![l] = "enqueue"]
                 /\ UNCHANGED cur
    /\ UNCHANGED <<tx_pkts, unsent, reg, workers, rings, rx_dropped,
                   tx_dropped, encrypted, decrypted, tx_marked, tx, sent,
                   nframes, force_quit, main>>

\* rte_ring_enqueue_burst(); what did not fit is counted and freed.
EnqueueRx(l) ==
    /\ pc[l] = "enqueue"
    /\ LET n == Enqueued(rx_to_crypto[IoPair], burst[l]) IN
          /\ rx_to_crypto' = [rx_to_crypto EXCEPT ![IoPair] =
                                  @ \o SubSeq(burst[l], 1, n)]
          /\ burst' = [burst EXCEPT ![l] = Rest(@, n)]
          /\ \/ n = Len(burst[l]) /\ NextPort(l) /\ UNCHANGED reg
             \/ /\ n < Len(burst[l])
                /\ reg' = [reg EXCEPT ![l] =
                               rx_dropped[IoPair] + (Len(burst[l]) - n)]
                /\ pc' = [pc EXCEPT ![l] = "drop"]
                /\ UNCHANGED cur
    /\ UNCHANGED <<tx_pkts, unsent, workers, ring_size, crypto_to_tx, counters,
                   pool, wires, force_quit, main>>

DropRx(l) ==
    /\ pc[l] = "drop"
    /\ rx_dropped' = [rx_dropped EXCEPT ![IoPair] = reg[l]]
    /\ pool' = pool + Len(burst[l])
    /\ burst' = [burst EXCEPT ![l] = <<>>]
    /\ NextPort(l)
    /\ UNCHANGED <<tx_pkts, unsent, reg, workers, rings, tx_dropped, encrypted,
                   decrypted, tx_marked, rx, tx, wires, force_quit, main>>

-----------------------------------------------------------------------------
(* l2fwd_main_loop() on I/O lcore l: sending.                              *)

DequeueTx(l) ==
    /\ pc[l] = "tx"
    /\ LET n == Dequeued(crypto_to_tx[IoPair]) IN
          /\ tx_pkts' = [tx_pkts EXCEPT ![l] =
                             SubSeq(crypto_to_tx[IoPair], 1, n)]
          /\ crypto_to_tx' = [crypto_to_tx EXCEPT ![IoPair] = Rest(@, n)]
          /\ pc' = [pc EXCEPT ![l] = IF n > 0 THEN "group" ELSE "top"]
    /\ UNCHANGED <<cur, burst, unsent, reg, workers, ring_size, rx_to_crypto,
                   counters, pool, wires, force_quit, main>>

\* port_pkts[]: the frames of the batch for the lowest port that has any.
GroupPort(l) == Min({f.port : f \in InSeq(tx_pkts[l])})
ForPort(fs, q) == {f \in InSeq(fs) : f.port = q}
Group(l) == Select(tx_pkts[l], ForPort(tx_pkts[l], GroupPort(l)))

\* Mutant: the marks are counted over the whole batch for each group.
MarkedOfBatch(l) == Len(Select(tx_pkts[l], {f \in InSeq(tx_pkts[l]) : IsMarked(f)}))

\* The frames of the group that bear the mark.
Marked(l) == Len(Select(Group(l), {f \in InSeq(Group(l)) : IsMarked(f)}))

\* tx_encrypted_marked_count++ for each of them: the read.
CountMarked(l) ==
    /\ pc[l] = "group"
    /\ reg' = [reg EXCEPT ![l] = tx_marked + Marked(l)]
    /\ pc' = [pc EXCEPT ![l] = "send"]
    /\ UNCHANGED <<cur, burst, tx_pkts, unsent, workers, rings, counters, pool,
                   wires, force_quit, main>>

\* Its write; then rte_eth_tx_burst() sends a prefix of the group, and
\* port_statistics[].tx is read.
Send(l) ==
    /\ pc[l] = "send"
    /\ tx_marked' = reg[l]
    /\ LET q == GroupPort(l) IN
       \E n \in 0 .. Len(Group(l)) :
          /\ sent' = [sent EXCEPT ![q] = @ \o Taken(Group(l), n)]
          /\ rxq' = IF Peer[q] \in Ports
                    THEN [rxq EXCEPT ![Peer[q]] =
                              Arrive(@, Taken(Group(l), n), RxQueueSize)]
                    ELSE rxq
          /\ pool' = pool + n
          /\ unsent' = [unsent EXCEPT ![l] = Len(Group(l)) - n]
          /\ reg' = [reg EXCEPT ![l] = tx[q] + n]
          /\ cur' = [cur EXCEPT ![l] = q]
    /\ tx_pkts' = [tx_pkts EXCEPT ![l] =
                       Select(@, InSeq(@) \ ForPort(@, GroupPort(l)))]
    /\ pc' = [pc EXCEPT ![l] = "sent"]
    /\ UNCHANGED <<burst, workers, rings, rx_dropped, tx_dropped, encrypted,
                   decrypted, rx, tx, nframes, force_quit, main>>

\* Mutant: the frames the port did not take are not freed.
FreedUnsentForgotten(l) == 0

FreedUnsent(l) == unsent[l]

\* The write of port_statistics[].tx; what was not sent is freed.
SendDone(l) ==
    /\ pc[l] = "sent"
    /\ tx' = [tx EXCEPT ![cur[l]] = reg[l]]
    /\ pool' = pool + FreedUnsent(l)
    /\ unsent' = [unsent EXCEPT ![l] = 0]
    /\ cur' = [cur EXCEPT ![l] = 1]
    /\ pc' = [pc EXCEPT ![l] = IF tx_pkts[l] = <<>> THEN "top" ELSE "group"]
    /\ UNCHANGED <<burst, tx_pkts, reg, workers, rings, rx_dropped, tx_dropped,
                   encrypted, decrypted, tx_marked, rx, wires, force_quit,
                   main>>

-----------------------------------------------------------------------------
(* crypto_loop() of worker w.                                              *)

\* init_crypto_contexts()
StartWorker(w) ==
    /\ wpc[w] = "start"
    /\ encrypt_ctx' = [encrypt_ctx EXCEPT ![w] = InitCryptoContext(@)]
    /\ decrypt_ctx' = [decrypt_ctx EXCEPT ![w] = InitCryptoContext(@)]
    /\ wpc' = [wpc EXCEPT ![w] = "loop"]
    /\ UNCHANGED <<io, pkts, encrypted_pkts, rings, counters, pool, wires,
                   force_quit, main>>

\* OpenSSL fails to create or to initialise a context, or to reset it for a
\* frame: rte_exit() ends the process with all its lcores.
CryptoFails(w) ==
    /\ wpc[w] \in {"start", "crypt"}
    /\ ended' = TRUE
    /\ UNCHANGED program

\* Mutant: a worker looks at force_quit only when it has frames.
WorkerQuitsBusy(w) == force_quit /\ rx_to_crypto[w] # <<>>

WorkerQuits(w) == force_quit

\* The contexts are freed when the loop ends.
QuitWorker(w) ==
    /\ wpc[w] = "loop"
    /\ WorkerQuits(w)
    /\ encrypt_ctx' = [encrypt_ctx EXCEPT ![w] = "null"]
    /\ decrypt_ctx' = [decrypt_ctx EXCEPT ![w] = "null"]
    /\ wpc' = [wpc EXCEPT ![w] = "done"]
    /\ UNCHANGED <<io, pkts, encrypted_pkts, rings, counters, pool, wires,
                   force_quit, main>>

\* rte_ring_dequeue_burst() from the worker's own ring; on an empty ring the
\* worker pauses and tries again.
DequeueCrypto(w) ==
    /\ wpc[w] = "loop"
    /\ ~WorkerQuits(w)
    /\ LET n == Dequeued(rx_to_crypto[w]) IN
          /\ n > 0
          /\ pkts' = [pkts EXCEPT ![w] = SubSeq(rx_to_crypto[w], 1, n)]
          /\ rx_to_crypto' = [rx_to_crypto EXCEPT ![w] = Rest(@, n)]
    /\ wpc' = [wpc EXCEPT ![w] = "crypt"]
    /\ UNCHANGED <<io, encrypted_pkts, encrypt_ctx, decrypt_ctx, ring_size,
                   crypto_to_tx, counters, pool, wires, force_quit, main>>

\* The end of a turn of the packet loop, kept being the frames collected.
NextPacket(w, kept) ==
    /\ pkts' = [pkts EXCEPT ![w] = Tail(@)]
    /\ wpc' = [wpc EXCEPT ![w] = IF Len(pkts[w]) > 1 THEN "crypt"
                                 ELSE IF kept = <<>> THEN "loop" ELSE "return"]

\* A marked frame is decrypted, counted and freed.
DecryptPacket(w) ==
    /\ wpc[w] = "crypt"
    /\ IsMarked(Head(pkts[w]))
    /\ decrypt_ctx' = [decrypt_ctx EXCEPT ![w] = RealDecrypt(@)]
    /\ decrypted' = [decrypted EXCEPT ![w] = @ + 1]
    /\ pool' = pool + 1
    /\ NextPacket(w, encrypted_pkts[w])
    /\ UNCHANGED <<io, encrypted_pkts, encrypt_ctx, rings, rx_dropped,
                   tx_dropped, encrypted, tx_marked, rx, tx, wires, force_quit,
                   main>>

\* Mutant: the frames are collected from the front.
CollectFront(fs, f) == <<f>> \o fs

\* encrypted_pkts[encrypted_count++] = m
Collect(fs, f) == Append(fs, f)

\* Any other frame is encrypted, counted, given its destination and collected.
EncryptPacket(w) ==
    /\ wpc[w] = "crypt"
    /\ ~IsMarked(Head(pkts[w]))
    /\ encrypt_ctx' = [encrypt_ctx EXCEPT ![w] = CtxReset(@)]
    /\ encrypted' = [encrypted EXCEPT ![w] = @ + 1]
    /\ LET f == [RealEncrypt(Head(pkts[w]), encrypt_ctx[w]) EXCEPT
                     !.port = Dst[@]]
       IN  /\ encrypted_pkts' = [encrypted_pkts EXCEPT ![w] = Collect(@, f)]
           /\ NextPacket(w, <<f>>)
    /\ UNCHANGED <<io, decrypt_ctx, rings, rx_dropped, tx_dropped, decrypted,
                   tx_marked, rx, tx, pool, wires, force_quit, main>>

\* What the worker still holds of the frames fs when n went into the ring.
LeftOver(fs, n) == Rest(fs, n)

\* rte_ring_enqueue_burst() to the worker's return ring; the worker counts and
\* then frees what did not fit.
EnqueueTx(w) ==
    /\ wpc[w] = "return"
    /\ LET fs == encrypted_pkts[w]
           n  == Enqueued(crypto_to_tx[w], fs)
       IN  /\ crypto_to_tx' = [crypto_to_tx EXCEPT ![w] = @ \o SubSeq(fs, 1, n)]
           /\ encrypted_pkts' = [encrypted_pkts EXCEPT ![w] = LeftOver(fs, n)]
           /\ tx_dropped' = [tx_dropped EXCEPT ![w] = @ + (Len(fs) - n)]
           /\ wpc' = [wpc EXCEPT ![w] = IF n = Len(fs) THEN "loop" ELSE "free"]
    /\ UNCHANGED <<io, pkts, encrypt_ctx, decrypt_ctx, ring_size, rx_to_crypto,
                   rx_dropped, encrypted, decrypted, tx_marked, rx, tx, pool,
                   wires, force_quit, main>>

FreeTx(w) ==
    /\ wpc[w] = "free"
    /\ pool' = pool + 1
    /\ encrypted_pkts' = [encrypted_pkts EXCEPT ![w] = Tail(@)]
    /\ wpc' = [wpc EXCEPT ![w] =
                   IF Len(encrypted_pkts[w]) = 1 THEN "loop" ELSE "free"]
    /\ UNCHANGED <<io, pkts, encrypt_ctx, decrypt_ctx, rings, counters, wires,
                   force_quit, main>>

-----------------------------------------------------------------------------
(* signal_handler() and the end of main().                                 *)

Signal ==
    /\ ~force_quit
    /\ force_quit' = TRUE
    /\ UNCHANGED <<io, workers, rings, counters, pool, wires, main>>

\* Mutant: main() waits for the I/O lcores only.
LcoresDoneIo == \A l \in IoLcores : pc[l] = "done"

LcoresDone ==
    /\ \A l \in IoLcores : pc[l] = "done"
    /\ \A w \in Workers : wpc[w] = "done"

\* main() leaves its own loop, waits for every lcore, closes the ports and
\* cleans up the EAL (the rings and the pool with it).
WaitAndClose ==
    /\ main = "wait"
    /\ LcoresDone
    /\ main' = "exit"
    /\ UNCHANGED <<io, workers, rings, counters, pool, wires, force_quit>>

Exited == (main = "exit" \/ ended) /\ UNCHANGED vars

-----------------------------------------------------------------------------
IoStep(l) ==
    \/ Top(l) \/ RxBurst(l) \/ EnqueueRx(l) \/ DropRx(l)
    \/ DequeueTx(l) \/ CountMarked(l) \/ Send(l) \/ SendDone(l)

WorkerStep(w) ==
    \/ StartWorker(w) \/ QuitWorker(w) \/ DequeueCrypto(w)
    \/ DecryptPacket(w) \/ EncryptPacket(w) \/ EnqueueTx(w) \/ FreeTx(w)

Step ==
    \/ \E l \in IoLcores : IoStep(l)
    \/ \E w \in Workers : WorkerStep(w)
    \/ \E p \in Ports : Inject(p)
    \/ Signal \/ WaitAndClose

\* Nothing runs once the process has ended.
Alive(A) == ~ended /\ A /\ UNCHANGED ended

Next ==
    \/ Alive(Step)
    \/ ~ended /\ \E w \in Workers : CryptoFails(w)
    \/ Exited

\* Every lcore runs on its own core.
Fairness ==
    /\ \A l \in IoLcores : WF_vars(Alive(IoStep(l)))
    /\ \A w \in Workers : WF_vars(Alive(WorkerStep(w)))
    /\ WF_vars(Alive(WaitAndClose))

Spec == Init /\ [][Next]_vars /\ Fairness

-----------------------------------------------------------------------------
(* Properties.                                                             *)

\* No mbuf leaks and none is freed twice although the I/O side takes them and
\* three places on two kinds of lcores free them: an mbuf is in the pool, in a
\* ring, or in exactly one array of one lcore.
MbufConservation ==
    NbMbufs =
      pool
      + SumFunction([l \in IoLcores |->
                       Len(burst[l]) + Len(tx_pkts[l]) + unsent[l]])
      + SumFunction([w \in Workers |->
                       Len(pkts[w]) + Len(encrypted_pkts[w])
                       + Len(rx_to_crypto[w]) + Len(crypto_to_tx[w])])

\* When the rings are as large as the pool (64K entries against 8K mbufs and
\* more), no ring ever overflows and neither drop counter ever moves.
RingsNeverDrop ==
    NbMbufs <= ring_size => SumFunction(rx_dropped) = 0 /\ SumFunction(tx_dropped) = 0

\* What is encrypted and neither dropped at the return ring nor counted by the
\* I/O side yet.
Returning(w) ==
    (IF wpc[w] = "free" THEN 0 ELSE Len(encrypted_pkts[w]))
    + Len(crypto_to_tx[w])

\* The check that print_stats() invites the reader to make, at every moment:
\* the frames counted as encrypted are those counted with the mark on the way
\* out, those dropped at a return ring and those in between.
MarksBalance ==
    SumFunction(encrypted) =
      tx_marked + SumFunction(tx_dropped)
      + SumFunction([w \in Workers |-> Returning(w)])
      + SumFunction([l \in IoLcores |-> Len(tx_pkts[l])])

\* No frame and no half-done update is anywhere between the ports.
Idle ==
    /\ \A l \in IoLcores : pc[l] \in {"top", "rx", "tx", "done"}
    /\ \A w \in Workers : /\ wpc[w] \in {"loop", "done"}
                          /\ rx_to_crypto[w] = <<>> /\ crypto_to_tx[w] = <<>>

\* "TX encrypted mark (Should match total encrypted)": once nothing is under
\* way, and if no return ring overflowed, the two totals of print_stats() agree.
ShouldMatchTotalEncrypted ==
    Idle /\ SumFunction(tx_dropped) = 0 => tx_marked = SumFunction(encrypted)

\* The mark stops the loop over the veth pair: what leaves q came in on the
\* paired port and was encrypted once, by whichever worker, and a frame that
\* waits for a worker bears the mark if and only if it was encrypted.
EncryptedOnce ==
    /\ \A q \in Ports : \A f \in InSeq(sent[q]) :
          f.enc = 1 /\ f.marked /\ f.at = Dst[q]
    /\ \A w \in Workers : \A f \in InSeq(rx_to_crypto[w]) \cup InSeq(pkts[w]) :
          f.marked <=> f.enc = 1

\* main() closes the ports and releases pool and rings only after all loops
\* have returned.
NothingRunsAfterExit ==
    main = "exit" => /\ \A l \in IoLcores : pc[l] = "done"
                     /\ \A w \in Workers : wpc[w] = "done"

\* Unless the program is stopped, traffic comes to rest: no frame circulates
\* for ever and none stays behind in a ring or an array.
Quiet ==
    /\ \A p \in Ports : rxq[p] = <<>>
    /\ \A l \in IoLcores : burst[l] = <<>> /\ tx_pkts[l] = <<>>
    /\ \A w \in Workers : /\ pkts[w] = <<>> /\ encrypted_pkts[w] = <<>>
                          /\ rx_to_crypto[w] = <<>> /\ crypto_to_tx[w] = <<>>
TrafficSettles == <>[](force_quit \/ ended \/ Quiet)

\* A signal stops the program, wherever I/O lcores and workers are.
SignalEndsProgram == force_quit ~> (main = "exit" \/ ended)

-----------------------------------------------------------------------------
(* Each direction is a lossy first-in first-out channel.                   *)

\* The frames of s that came from p, those with and those without the mark.
Done(s, p) == Select(s, {f \in InSeq(s) : f.at = p /\ f.marked})
Fresh(s, p) == Select(s, {f \in InSeq(s) : f.at = p /\ ~f.marked})

\* The I/O lcore, when there is one.
TheIo == CHOOSE l \in IoLcores : TRUE

\* What came in on p and is still to leave on Dst[p].
OnTheWay(p) ==
    Done(tx_pkts[TheIo] \o crypto_to_tx[IoPair] \o encrypted_pkts[IoPair], p)
    \o Fresh(pkts[IoPair] \o rx_to_crypto[IoPair] \o burst[TheIo] \o rxq[p], p)
InFlight == [p \in Ports |-> Ids(OnTheWay(p))]
SentIds == [p \in Ports |-> Ids(sent[Dst[p]])]

Channel == INSTANCE LossyFifo WITH
    Directions <- Ports, MaxId <- MaxFrames, last <- nframes, chan <- InFlight, out <- SentIds

\* From p to Dst[p] frames leave in the order they came, each at most once,
\* across both rings and the worker: the pipeline implements LossyFifo.
ImplementsLossyFifo == Channel!Spec
=============================================================================
