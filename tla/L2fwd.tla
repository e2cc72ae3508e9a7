------------------------------- MODULE L2fwd -------------------------------
(***************************************************************************)
(* The run-to-completion forwarder: l2fwd_main_loop() of                   *)
(* Dpdk-lab/multi_thread/l2fwd-single-thread/main.c on every lcore, the    *)
(* signal handler, and main() from the link check to the exit.             *)
(*                                                                         *)
(* A lcore receives a burst, decrypts and frees the frames that carry the  *)
(* 0x88B5 mark, encrypts, marks and buffers the others for the paired      *)
(* port; a transmit buffer is flushed when it is full and when the drain   *)
(* timer of the lcore expires.                                             *)
(*                                                                         *)
(* rxq[p] is what the kernel holds for port p; Peer[p] is the port at the  *)
(* other end of p's wire (the lab joins its two ports by a veth pair).     *)
(***************************************************************************)
EXTENDS Packets

CONSTANTS
    Ports,              \* the ports in use, numbers
    Lcores,             \* the enabled lcores
    Main,               \* rte_get_main_lcore()
    Dst,                \* l2fwd_dst_ports
    Layouts,            \* the rx_port_list tables start-up may have built
    Peer,               \* wiring of the ports
    Outside,            \* Peer of a port whose wire leaves the machine
    BurstSize,          \* MAX_PKT_BURST: receive burst and transmit buffer
    NbMbufs,            \* size of l2fwd_pktmbuf_pool
    RxQueueSize,        \* what the kernel holds for a port
    MaxFrames,          \* bound: frames the outside world sends
    MAX_CHECK_TIME,     \* link checks before start-up goes on without
    MacUpdating         \* mac_updating

ASSUME LcoreAssumption ==
    /\ IsFiniteSet(Lcores) /\ Main \in Lcores
    /\ IsFiniteSet(Ports) /\ Ports \subseteq Nat

ASSUME SizeAssumption ==
    /\ BurstSize \in Nat \ {0} /\ NbMbufs \in Nat /\ RxQueueSize \in Nat
    /\ MaxFrames \in Nat /\ MAX_CHECK_TIME \in 1 .. 254 /\ MacUpdating \in BOOLEAN

ASSUME WireAssumption == Peer \in [Ports -> Ports \cup {Outside}]

\* What start-up establishes: see DstInvolution and EachPortPolledOnce of
\* PortConfig.
ASSUME ConfigAssumption ==
    /\ Dst \in [Ports -> Ports]
    /\ \A p \in Ports : Dst[Dst[p]] = p
    /\ Layouts \subseteq [Lcores -> Seq(Ports)]
    /\ \A t \in Layouts : \A p \in Ports :
          \E l \in Lcores : \E i \in 1 .. Len(t[l]) : t[l][i] = p
    /\ \A t \in Layouts : \A l, k \in Lcores :
          \A i \in 1 .. Len(t[l]), j \in 1 .. Len(t[k]) :
             t[l][i] = t[k][j] => l = k /\ i = j

VARIABLES
    rx_port_list,       \* per lcore: the ports it polls
    force_quit,
    pc,                 \* per lcore: where l2fwd_main_loop() is
    cur,                \* per lcore: the loop index i
    burst,              \* per lcore: the frames of pkts_burst not yet handled
    encrypt_ctx,        \* per lcore: "null", "ready" or "blank"
    decrypt_ctx,
    tx_buffer,          \* per port: the frames buffered for it
    pool,               \* free mbufs
    rx, tx, dropped,    \* port_statistics
    rxq,                \* per port: frames the kernel holds for it
    sent,               \* per port: history of the frames put on its wire
    decrypted,          \* per port: history of marked frames freed there
    nframes,            \* frames the outside world has sent
    main,               \* where main() is
    count, print_flag,  \* of check_all_ports_link_status()
    open,               \* ports not yet stopped and closed
    ended               \* a lcore has called rte_exit()

threads  == <<rx_port_list, pc, cur, burst>>
contexts == <<encrypt_ctx, decrypt_ctx>>
stats    == <<rx, tx, dropped, decrypted>>
wires    == <<rxq, sent, nframes>>
link     == <<count, print_flag>>
control  == <<force_quit, main, link, open>>
program == <<threads, contexts, tx_buffer, pool, stats, wires, control>>
vars == <<program, ended>>

-----------------------------------------------------------------------------
\* What l2fwd_simple_forward() writes to a frame before it is buffered.
Rewrite(f, q) ==
    [f EXCEPT !.mac = IF MacUpdating THEN q ELSE @, !.marked = TRUE]

-----------------------------------------------------------------------------
Init ==
    /\ rx_port_list \in Layouts
    /\ force_quit = FALSE
    /\ pc = [l \in Lcores |-> "launched"]
    /\ cur = [l \in Lcores |-> 1]
    /\ burst = [l \in Lcores |-> <<>>]
    /\ encrypt_ctx = [l \in Lcores |-> "null"]
    /\ decrypt_ctx = [l \in Lcores |-> "null"]
    /\ tx_buffer = [p \in Ports |-> <<>>]
    /\ pool = NbMbufs
    /\ rx = [p \in Ports |-> 0]
    /\ tx = [p \in Ports |-> 0]
    /\ dropped = [p \in Ports |-> 0]
    /\ decrypted = [p \in Ports |-> 0]
    /\ rxq = [p \in Ports |-> <<>>]
    /\ sent = [p \in Ports |-> <<>>]
    /\ nframes = 0
    /\ main = "link"
    /\ count = 0 /\ print_flag = FALSE
    /\ open = Ports
    /\ ended = FALSE

-----------------------------------------------------------------------------
(* check_all_ports_link_status()                                           *)

\* A round over the ports, up if all their links are.  The round after a good
\* one, and the one after MAX_CHECK_TIME, prints the links and is the last.
CheckLinks ==
    /\ main = "link"
    /\ IF force_quit \/ print_flag \/ count > MAX_CHECK_TIME
       THEN main' = "loop" /\ count' = 0 /\ print_flag' = FALSE
       ELSE /\ \E up \in BOOLEAN :
                 /\ count' = count + 1
                 /\ print_flag' = (up \/ count = MAX_CHECK_TIME - 1)
            /\ UNCHANGED main
    /\ UNCHANGED <<threads, contexts, tx_buffer, pool, stats, wires, force_quit, open>>

-----------------------------------------------------------------------------
(* The wires.                                                              *)

\* A host on the wire of p sends a frame.
Inject(p) ==
    /\ nframes < MaxFrames
    /\ p \in open
    /\ nframes' = nframes + 1
    /\ rxq' = [rxq EXCEPT ![p] = Arrive(@,
                 <<[id |-> nframes + 1, at |-> p, enc |-> 0, marked |-> FALSE,
                    body |-> "plain", mac |-> Outside]>>,
                 RxQueueSize)]
    /\ UNCHANGED <<threads, contexts, tx_buffer, pool, stats, sent, control>>

\* Mutant: the default callback stays, which frees without counting.
UncountedUnsent(fs, n) == 0

\* The error callback start-up sets, rte_eth_tx_buffer_count_callback(), counts
\* what was not sent.
CountedUnsent(fs, n) == Len(fs) - n

\* rte_eth_tx_buffer_flush(q) of the frames fs, of which the driver takes n and
\* frees them; the callback frees the others.
Flush(q, fs, n) ==
    LET out == Taken(fs, n) IN
    /\ sent' = [sent EXCEPT ![q] = @ \o out]
    /\ rxq' = IF Peer[q] \in Ports
              THEN [rxq EXCEPT ![Peer[q]] = Arrive(@, out, RxQueueSize)]
              ELSE rxq
    /\ tx' = [tx EXCEPT ![q] = @ + n]
    /\ dropped' = [dropped EXCEPT ![q] = @ + CountedUnsent(fs, n)]
    /\ tx_buffer' = [tx_buffer EXCEPT ![q] = <<>>]
    /\ pool' = pool + Len(fs)

-----------------------------------------------------------------------------
(* l2fwd_main_loop() on lcore l.                                           *)

\* init_crypto_contexts(); a lcore without ports "has nothing to do".
Enter(l) ==
    /\ pc[l] = "launched" /\ main # "link"
    /\ encrypt_ctx' = [encrypt_ctx EXCEPT ![l] = InitCryptoContext(@)]
    /\ decrypt_ctx' = [decrypt_ctx EXCEPT ![l] = InitCryptoContext(@)]
    /\ pc' = [pc EXCEPT ![l] = IF rx_port_list[l] = <<>> THEN "done" ELSE "top"]
    /\ UNCHANGED <<rx_port_list, cur, burst, tx_buffer, pool, stats, wires,
                   control>>

\* OpenSSL fails to create or to initialise a context, or to reset it for a
\* frame: rte_exit() ends the process with all its lcores.
CryptoFails(l) ==
    /\ \/ pc[l] = "launched" /\ main # "link"
       \/ pc[l] = "packet"
    /\ ended' = TRUE
    /\ UNCHANGED program

Goto(l, next) ==
    /\ pc[l] = "top"
    /\ pc' = [pc EXCEPT ![l] = next]
    /\ cur' = [cur EXCEPT ![l] = 1]
    /\ UNCHANGED <<rx_port_list, burst, contexts, tx_buffer, pool, stats,
                   wires, control>>

\* Mutant: a worker keeps force_quit in a register (not volatile).
QuitSeenMainOnly(l) == force_quit /\ l = Main

QuitSeen(l) == force_quit

Quit(l) == QuitSeen(l) /\ Goto(l, "done")

\* Less than BURST_TX_DRAIN_US since the last drain.
Poll(l) == ~QuitSeen(l) /\ Goto(l, "rx")

\* More: diff_tsc > drain_tsc.
StartDrain(l) == ~QuitSeen(l) /\ Goto(l, "drain")

MorePorts(l) == cur[l] < Len(rx_port_list[l])

\* The next turn of a loop over the ports of l, or what follows the loop.
NextPort(l, turn, after) ==
    \/ /\ MorePorts(l)
       /\ cur' = [cur EXCEPT ![l] = @ + 1]
       /\ pc' = [pc EXCEPT ![l] = turn]
    \/ /\ ~MorePorts(l)
       /\ cur' = [cur EXCEPT ![l] = 1]
       /\ pc' = [pc EXCEPT ![l] = after]

\* Mutant: the drain loop does not move on to the next port.
DrainFirstPort(l) == Dst[rx_port_list[l][1]]

DrainPort(l) == Dst[rx_port_list[l][cur[l]]]

\* One turn of the drain loop.
Drain(l) ==
    /\ pc[l] = "drain"
    /\ LET q == DrainPort(l) IN
          \E n \in 0 .. Len(tx_buffer[q]) : Flush(q, tx_buffer[q], n)
    /\ NextPort(l, "drain", "rx")
    /\ UNCHANGED <<rx_port_list, burst, contexts, rx, decrypted, nframes,
                   control>>

\* rte_eth_rx_burst() and the count of what it returned.
RxBurst(l) ==
    /\ pc[l] = "rx"
    /\ LET p == rx_port_list[l][cur[l]]
           n == RxCount(Len(rxq[p]), BurstSize, pool)
       IN  /\ rxq' = [rxq EXCEPT ![p] =
                          Rest(@, RxTaken(Len(@), BurstSize, pool))]
           /\ \/ /\ n = 0
                 /\ NextPort(l, "rx", "top")
                 /\ UNCHANGED <<burst, pool, rx>>
              \/ /\ n > 0
                 /\ burst' = [burst EXCEPT ![l] = SubSeq(rxq[p], 1, n)]
                 /\ pool' = pool - n
                 /\ rx' = [rx EXCEPT ![p] = @ + n]
                 /\ pc' = [pc EXCEPT ![l] = "packet"]
                 /\ UNCHANGED cur
    /\ UNCHANGED <<rx_port_list, contexts, tx_buffer, tx, dropped, decrypted,
                   sent, nframes, control>>

\* The end of a turn of the packet loop.
NextPacket(l) ==
    /\ burst' = [burst EXCEPT ![l] = Tail(@)]
    /\ \/ Len(burst[l]) > 1 /\ UNCHANGED <<pc, cur>>
       \/ Len(burst[l]) = 1 /\ NextPort(l, "rx", "top")

\* Mutant: the burst is indexed by its length, not by j.
CurrentPacketLast(l) == burst[l][Len(burst[l])]

\* m = pkts_burst[j]
CurrentPacket(l) == Head(burst[l])

\* Mutant: rte_pktmbuf_free() is missing.
FreeMarkedForgotten == pool

FreeMarked == pool + 1

BufferFull(fs) == Len(fs) = BurstSize

\* A marked frame is decrypted and freed.
DecryptPacket(l) ==
    /\ pc[l] = "packet"
    /\ IsMarked(CurrentPacket(l))
    /\ decrypt_ctx' = [decrypt_ctx EXCEPT ![l] = RealDecrypt(@)]
    /\ decrypted' = [decrypted EXCEPT ![rx_port_list[l][cur[l]]] = @ + 1]
    /\ pool' = FreeMarked
    /\ NextPacket(l)
    /\ UNCHANGED <<rx_port_list, encrypt_ctx, tx_buffer, rx, tx, dropped,
                   wires, control>>

\* real_encrypt() and l2fwd_simple_forward(): rte_eth_tx_buffer() appends, and
\* flushes a buffer that is now full.
ForwardPacket(l) ==
    /\ pc[l] = "packet"
    /\ ~IsMarked(CurrentPacket(l))
    /\ encrypt_ctx' = [encrypt_ctx EXCEPT ![l] = CtxReset(@)]
    /\ LET q  == Dst[rx_port_list[l][cur[l]]]
           f  == Rewrite(RealEncrypt(CurrentPacket(l), encrypt_ctx[l]), q)
           fs == Append(tx_buffer[q], f)
       IN  \/ /\ ~BufferFull(fs)
              /\ tx_buffer' = [tx_buffer EXCEPT ![q] = fs]
              /\ UNCHANGED <<pool, tx, dropped, rxq, sent>>
           \/ /\ BufferFull(fs)
              /\ \E n \in 0 .. Len(fs) : Flush(q, fs, n)
    /\ NextPacket(l)
    /\ UNCHANGED <<rx_port_list, decrypt_ctx, rx, decrypted, nframes, control>>

-----------------------------------------------------------------------------
(* signal_handler() and the end of main().                                 *)

Signal ==
    /\ ~force_quit
    /\ force_quit' = TRUE
    /\ UNCHANGED <<threads, contexts, tx_buffer, pool, stats, wires, main, link,
                   open>>

\* Mutant: main() does not wait for the workers.
WorkersDoneAssumed == TRUE

WorkersDone == \A l \in Lcores \ {Main} : pc[l] = "done"

\* CALL_MAIN: the loop of the main lcore has returned; rte_eal_wait_lcore() on
\* every worker, in turn.
WaitLcores ==
    /\ main = "loop"
    /\ pc[Main] = "done"
    /\ WorkersDone
    /\ main' = "close"
    /\ UNCHANGED <<threads, contexts, tx_buffer, pool, stats, wires,
                   force_quit, link, open>>

ClosePort ==
    /\ main = "close"
    /\ \/ /\ open # {}
          /\ open' = open \ {Min(open)}
          /\ UNCHANGED main
       \/ /\ open = {}
          /\ main' = "exit"
          /\ UNCHANGED open
    /\ UNCHANGED <<threads, contexts, tx_buffer, pool, stats, wires,
                   force_quit, link>>

Exited == (main = "exit" \/ ended) /\ UNCHANGED vars

-----------------------------------------------------------------------------
Work(l) ==
    \/ Enter(l) \/ Quit(l) \/ Poll(l) \/ StartDrain(l)
    \/ Drain(l) \/ RxBurst(l) \/ DecryptPacket(l) \/ ForwardPacket(l)

Step ==
    \/ \E l \in Lcores : Work(l)
    \/ \E p \in Ports : Inject(p)
    \/ Signal \/ CheckLinks \/ WaitLcores \/ ClosePort

\* Nothing runs once the process has ended.
Alive(A) == ~ended /\ A /\ UNCHANGED ended

Next ==
    \/ Alive(Step)
    \/ ~ended /\ \E l \in Lcores : CryptoFails(l)
    \/ Exited

\* Every lcore runs on its own core and main() goes on.  The time stamp counter
\* advances, so that a lcore that keeps looping sees its drain timer expire.
Fairness ==
    /\ \A l \in Lcores : WF_vars(Alive(Work(l))) /\ SF_vars(Alive(StartDrain(l)))
    /\ WF_vars(Alive(CheckLinks \/ WaitLcores \/ ClosePort))

Spec == Init /\ [][Next]_vars /\ Fairness

-----------------------------------------------------------------------------
(* Properties.                                                             *)

\* No mbuf leaks and none is freed twice, whichever prefix the driver sends and
\* whichever lcore frees: an mbuf is in the pool, in the burst a lcore is
\* handling or in a transmit buffer.
MbufConservation ==
    NbMbufs = pool + SumFunction([l \in Lcores |-> Len(burst[l])])
                   + SumFunction([p \in Ports |-> Len(tx_buffer[p])])

\* The frames of the current burst of port p that are still to be handled.
Pending(p) ==
    SumFunction([l \in Lcores |->
        IF pc[l] = "packet" /\ rx_port_list[l][cur[l]] = p THEN Len(burst[l]) ELSE 0])

\* print_stats() adds up: every frame counted as received on p was freed as a
\* marked one, sent or dropped on the paired port, or is still being handled.
StatsBalance ==
    \A p \in Ports :
        rx[p] = decrypted[p] + tx[Dst[p]] + dropped[Dst[p]]
                + Len(tx_buffer[Dst[p]]) + Pending(p)

\* The mark stops the loop over the veth pair: whatever is on its way out of q
\* came in on the paired port and was encrypted exactly once, and a frame that
\* waits to be handled bears the mark if and only if it was encrypted.
EncryptedOnce ==
    /\ \A q \in Ports : \A f \in InSeq(tx_buffer[q]) \cup InSeq(sent[q]) :
          f.enc = 1 /\ f.marked /\ f.at = Dst[q]
    /\ \A p \in Ports : \A f \in InSeq(rxq[p]) : f.marked <=> f.enc = 1
    /\ \A l \in Lcores : \A f \in InSeq(burst[l]) : f.marked <=> f.enc = 1

\* main() closes a port only after the loops of all lcores have returned.
NoLoopOnClosedPort == open # Ports => \A l \in Lcores : pc[l] = "done"

\* Unless the program is stopped, traffic comes to rest: no frame circulates
\* for ever and none is left behind in a transmit buffer.
Quiet ==
    /\ \A p \in Ports : rxq[p] = <<>> /\ tx_buffer[p] = <<>>
    /\ \A l \in Lcores : burst[l] = <<>>
TrafficSettles == <>[](force_quit \/ ended \/ Quiet)

\* A signal stops the program, wherever the lcores are.
SignalEndsProgram == force_quit ~> (main = "exit" \/ ended)

\* A frame that bears the mark carries the encryption of its payload.
MarkedIsCiphertext ==
    \A q \in Ports : \A f \in InSeq(sent[q]) : f.marked => f.body = "cipher"

-----------------------------------------------------------------------------
(* Each direction is a lossy first-in first-out channel.                   *)

Fresh(s) == Select(s, {f \in InSeq(s) : ~f.marked})

\* The unmarked frames of the burst a lcore took from p.
BurstOf(p) ==
    LET ls == {l \in Lcores : pc[l] = "packet" /\ rx_port_list[l][cur[l]] = p}
    IN  IF ls = {} THEN <<>> ELSE burst[CHOOSE l \in ls : TRUE]

\* What came in on p and is still to leave on Dst[p].
UnderWay(p) == tx_buffer[Dst[p]] \o Fresh(BurstOf(p)) \o Fresh(rxq[p])
InFlight == [p \in Ports |-> Ids(UnderWay(p))]
SentIds == [p \in Ports |-> Ids(sent[Dst[p]])]

Channel == INSTANCE LossyFifo WITH
    Directions <- Ports, MaxId <- MaxFrames, last <- nframes, chan <- InFlight, out <- SentIds

\* From p to Dst[p], frames leave in the order they came, each at most once,
\* and nothing else leaves: the forwarder implements LossyFifo.
ImplementsLossyFifo == Channel!Spec
=============================================================================
