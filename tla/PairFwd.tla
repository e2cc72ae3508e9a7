------------------------------ MODULE PairFwd ------------------------------
(***************************************************************************)
(* Dpdk-lab/basic_fwd/main.c and Dpdk-lab/rxtx_callbacks/main.c: one lcore *)
(* forwards between the ports of each pair 2k, 2k+1.  rxtx_callbacks adds  *)
(* a receive callback that stamps the mbufs of a burst, a transmit         *)
(* callback that averages the time from there to the transmission and,     *)
(* with -t, the time from the stamp of the network card on.                *)
(*                                                                         *)
(* tsc is the time stamp counter.  A frame is the stamp in its mbuf, zero  *)
(* where there is none.  What the card's clock says is arbitrary: nobody   *)
(* looks whether rte_eth_read_clock() could read it.                       *)
(***************************************************************************)
EXTENDS Packets, Functions

CONSTANTS
    PortCounts,         \* the numbers of ports a machine may have
    BurstSize,          \* BURST_SIZE
    MbufsPerPort,       \* NUM_MBUFS
    ReportAfter,        \* 100: packets counted before an average is printed
    RxQueueSize,        \* what the kernel holds for a port
    MaxFrames,          \* bound: frames the hosts send
    MaxTsc              \* bound: the time stamp counter

ASSUME PairFwdAssumption ==
    /\ PortCounts \subseteq Nat
    /\ BurstSize \in Nat \ {0} /\ MbufsPerPort \in Nat /\ ReportAfter \in Nat
    /\ RxQueueSize \in Nat /\ MaxFrames \in Nat /\ MaxTsc \in Nat

VARIABLES
    program,            \* "basic_fwd" or "rxtx_callbacks"
    nb_ports,           \* the ports are 0 .. nb_ports - 1
    hwcap,              \* ports that offer RTE_ETH_RX_OFFLOAD_TIMESTAMP
    pc,
    port,               \* the cursor of the loops over the ports
    hw_timestamping,    \* -t
    started,            \* ports port_init() has started
    pool,               \* free mbufs
    bufs, nb_tx,        \* the burst in hand, and how much of it was sent
    total_cycles, total_queue_cycles, total_pkts,   \* latency_numbers
    tsc,
    rxq,                \* per port: the frames that wait there
    nframes,            \* frames that arrived
    window,             \* history: latencies counted since the last report
    report              \* history: last report and the latencies it is about

machine == <<program, nb_ports, hwcap>>
config  == <<hw_timestamping, started>>
latency == <<total_cycles, total_queue_cycles, total_pkts, window, report>>
wires   == <<rxq, nframes, tsc>>
vars == <<machine, config, pc, port, pool, bufs, nb_tx, latency, wires>>

Ports == 0 .. nb_ports - 1

NoReport == [avg |-> 0, of |-> <<>>]

Init ==
    /\ program \in {"basic_fwd", "rxtx_callbacks"}
    /\ nb_ports \in PortCounts
    /\ hwcap \in {{}, Ports}
    /\ pc = "options"
    /\ port = 0
    /\ hw_timestamping = FALSE
    /\ started = {}
    /\ pool = 0
    /\ bufs = <<>> /\ nb_tx = 0
    /\ total_cycles = 0 /\ total_queue_cycles = 0 /\ total_pkts = 0
    /\ tsc = 0
    /\ rxq = [p \in Ports |-> <<>>]
    /\ nframes = 0
    /\ window = <<>>
    /\ report = NoReport

-----------------------------------------------------------------------------
(* main() up to lcore_main().                                              *)

\* getopt_long() of rxtx_callbacks: -t, an unknown option, or the end.
ParseOption ==
    /\ pc = "options"
    /\ \/ program = "rxtx_callbacks" /\ hw_timestamping' = TRUE /\ UNCHANGED pc
       \/ program = "rxtx_callbacks" /\ pc' = "exit" /\ UNCHANGED hw_timestamping
       \/ pc' = "pool" /\ UNCHANGED hw_timestamping
    /\ UNCHANGED <<machine, started, port, pool, bufs, nb_tx, latency, wires>>

\* Mutant: only the smallest number is checked.
PortsPairedAny == nb_ports >= 2

PortsPaired == nb_ports >= 2 /\ nb_ports % 2 = 0

\* The number of ports must be even and not zero; then the pool is created and,
\* by rxtx_callbacks, the mbuf field of the stamps registered.
CreatePool ==
    /\ pc = "pool"
    /\ \/ /\ PortsPaired
          /\ pool' = MbufsPerPort * nb_ports
          /\ pc' = "init"
       \/ pc' = "exit" /\ UNCHANGED pool
    /\ UNCHANGED <<machine, config, port, bufs, nb_tx, latency, wires>>

\* port_init(): configuration, queues, start, promiscuous mode.
PortInit(p) == started' = started \cup {p}

\* port_init() of every port, with the time stamps of rxtx_callbacks; any call
\* in it may fail.
InitPort ==
    /\ pc = "init" /\ port \in Ports
    /\ \/ /\ hw_timestamping => port \in hwcap
          /\ PortInit(port)
          /\ port' = port + 1
          /\ UNCHANGED pc
       \/ pc' = "exit" /\ UNCHANGED <<started, port>>
    /\ UNCHANGED <<machine, hw_timestamping, pool, bufs, nb_tx, latency, wires>>

InitDone ==
    /\ pc = "init" /\ port \notin Ports
    /\ pc' = "rx" /\ port' = 0
    /\ UNCHANGED <<machine, config, pool, bufs, nb_tx, latency, wires>>

-----------------------------------------------------------------------------
(* The wires and the clocks.                                               *)

Inject(p) ==
    /\ nframes < MaxFrames /\ p \in started
    /\ nframes' = nframes + 1
    /\ rxq' = [rxq EXCEPT ![p] = Arrive(@, <<0>>, RxQueueSize)]
    /\ UNCHANGED <<machine, config, pc, port, pool, bufs, nb_tx, latency, tsc>>

Tick ==
    /\ tsc < MaxTsc
    /\ tsc' = tsc + 1
    /\ UNCHANGED <<machine, config, pc, port, pool, bufs, nb_tx, latency, rxq, nframes>>

-----------------------------------------------------------------------------
(* The callbacks of rxtx_callbacks.                                        *)

\* add_timestamps(): every mbuf of the burst gets the time of the call.
AddTimestamps(fs) == [i \in 1 .. Len(fs) |-> tsc]

\* With -t, the time a burst spent in the card, scaled by port_init()'s calibration.
QueueCycles == IF hw_timestamping THEN {0, 1} ELSE {0}

\* Mutant: the cycles stay after a report.
CyclesAfterReportKept(cycles) == cycles

CyclesAfterReport(cycles) == 0

\* calc_latency(): called before the driver, for all of the burst, sent or not.
CalcLatency(fs) ==
    LET each   == [i \in 1 .. Len(fs) |-> tsc - fs[i]]
        cycles == total_cycles + SumFunction(each)
        pkts   == total_pkts + Len(fs)
    IN  IF pkts > ReportAfter
        THEN /\ report' = [avg |-> cycles \div pkts, of |-> window \o each]
             /\ total_cycles' = CyclesAfterReport(cycles)
             /\ total_queue_cycles' = 0 /\ total_pkts' = 0
             /\ window' = <<>>
        ELSE /\ total_cycles' = cycles /\ total_pkts' = pkts
             /\ total_queue_cycles' \in {total_queue_cycles + c : c \in QueueCycles}
             /\ window' = window \o each
             /\ UNCHANGED report

-----------------------------------------------------------------------------
(* lcore_main()                                                            *)

\* Mutant: a port without frames ends the round.
AfterEmptyBreak(p) == 0

AfterEmpty(p) == (p + 1) % nb_ports

\* rte_eth_rx_burst() of the port, with its callback.
RxBurst ==
    LET n == RxCount(Len(rxq[port]), BurstSize, pool)
        t == RxTaken(Len(rxq[port]), BurstSize, pool)
        b == SubSeq(rxq[port], 1, n)
    IN  /\ pc = "rx"
        /\ rxq' = [rxq EXCEPT ![port] = SubSeq(@, t + 1, Len(@))]
        /\ pool' = pool - n
        /\ bufs' = IF program = "rxtx_callbacks" THEN AddTimestamps(b) ELSE b
        /\ IF n = 0 THEN port' = AfterEmpty(port) /\ UNCHANGED pc
                    ELSE pc' = "tx" /\ UNCHANGED port
        /\ UNCHANGED <<machine, config, nb_tx, latency, nframes, tsc>>

\* port ^ 1
TxPort == IF port % 2 = 0 THEN port + 1 ELSE port - 1

\* rte_eth_tx_burst() of the peer: its callback, then the driver, which sends
\* and frees the n oldest.
TxBurst ==
    /\ pc = "tx"
    /\ IF program = "rxtx_callbacks" THEN CalcLatency(bufs) ELSE UNCHANGED latency
    /\ \E n \in 0 .. Len(bufs) : nb_tx' = n /\ pool' = pool + n
    /\ pc' = "free"
    /\ UNCHANGED <<machine, config, port, bufs, wires>>

\* Mutant: the first unsent mbuf is skipped.
FirstUnsentNext == nb_tx + 2

FirstUnsent == nb_tx + 1

\* The rest of the burst is freed.
FreeUnsent ==
    /\ pc = "free"
    /\ pool' = pool + Cardinality(FirstUnsent .. Len(bufs))
    /\ bufs' = <<>> /\ nb_tx' = 0
    /\ port' = (port + 1) % nb_ports
    /\ pc' = "rx"
    /\ UNCHANGED <<machine, config, latency, wires>>

LcoreMain == RxBurst \/ TxBurst \/ FreeUnsent

Startup == ParseOption \/ CreatePool \/ InitPort \/ InitDone

Next == Startup \/ LcoreMain \/ Tick \/ \E p \in Ports : Inject(p)

\* One thread that never blocks.
Spec == Init /\ [][Next]_vars /\ WF_vars(LcoreMain)

-----------------------------------------------------------------------------
(* Properties.                                                             *)

\* No mbuf is lost or freed twice when the driver sends part of a burst: what
\* is neither free nor in hand was never taken.
MbufConservation ==
    pc \in {"rx", "tx", "free"} => pool + Len(bufs) - nb_tx = MbufsPerPort * nb_ports

\* The loop only receives from and sends to ports that port_init() started:
\* port ^ 1 names one for every port.
PeerStarted == pc \in {"rx", "tx"} => {port, TxPort} \subseteq started

\* A printed average is that of the packets counted since the last one, each
\* once, with the time from its own burst's reception to the transmission, and
\* the time in the card is counted from the same packet on.
AverageOfWindow ==
    /\ total_pkts = Len(window) /\ total_cycles = SumFunction(window)
    /\ window = <<>> => total_queue_cycles = 0
    /\ report # NoReport =>
          /\ report.avg = SumFunction(report.of) \div Len(report.of)
          /\ Len(report.of) \in ReportAfter + 1 .. ReportAfter + BurstSize

\* Frames that wait at a port are received, however busy the other ports are.
PortsServed ==
    \A p \in 0 .. Max(PortCounts) - 1 :
        (pc = "rx" /\ p \in Ports /\ rxq[p] # <<>>)
            ~> (pc = "tx" /\ port = p)
=============================================================================
