----------------------------- MODULE PortConfig -----------------------------
(***************************************************************************)
(* Start-up of the crypto forwarder (Dpdk-lab/multi_thread, main.c): the   *)
(* command line, the pairing of ports, the assignment of ports to logical  *)
(* cores and the initialisation of the devices.  Both programs, the        *)
(* run-to-completion one and the pipeline, run this text; everything the   *)
(* forwarding loops rely on without a lock is decided here.                *)
(*                                                                         *)
(* A port mask is the set of its ports.  Each loop of main() is a group of *)
(* actions that share a pc value, one iteration per step.  rte_exit() and  *)
(* a failed driver call end in pc = "exit".                                *)
(***************************************************************************)
EXTENDS Integers, Sequences, FiniteSets

CONSTANTS
    MaxEthPorts,        \* RTE_MAX_ETHPORTS
    MaxLcore,           \* RTE_MAX_LCORE
    MaxRxQueue,         \* MAX_RX_QUEUE_PER_LCORE
    MaxTimerPeriod,     \* MAX_TIMER_PERIOD
    PoolMin,            \* the 8192U floor of the pool size
    PortMbufs,          \* nb_rxd + nb_txd + MAX_PKT_BURST
    CacheSize,          \* MEMPOOL_CACHE_SIZE
    DevSets,            \* the sets of ports the machine may have
    LcoreSets,          \* the sets of lcores EAL may have enabled (-l)
    MaskArgs,           \* arguments of -p ({}: unparsable, or no bit set)
    NqueueArgs,         \* arguments of -q (0: unparsable)
    TimerArgs,          \* arguments of -T (-1: unparsable)
    PortmapArgs         \* arguments of --portmap: sequences of pairs

Ports == 0 .. MaxEthPorts - 1
Lcores == 0 .. MaxLcore - 1

ASSUME SizesAssumption ==
    /\ MaxEthPorts \in Nat \ {0}
    /\ MaxLcore \in Nat \ {0}
    /\ MaxRxQueue \in Nat \ {0}
    /\ MaxTimerPeriod \in Nat
    /\ PoolMin \in Nat /\ PortMbufs \in Nat /\ CacheSize \in Nat

ASSUME EnvironmentAssumption ==
    /\ DevSets \subseteq SUBSET Ports
    /\ LcoreSets \subseteq SUBSET Lcores

ASSUME ArgsAssumption ==
    /\ MaskArgs \subseteq SUBSET Ports
    /\ NqueueArgs \subseteq Nat
    /\ TimerArgs \subseteq Int
    /\ PortmapArgs \subseteq Seq(Nat \X Nat)

VARIABLES
    dev,                \* ports present: what RTE_ETH_FOREACH_DEV visits
    lcores,             \* enabled lcores
    pc,                 \* where main() is
    enabled,            \* l2fwd_enabled_port_mask
    nqueue,             \* l2fwd_rx_queue_per_lcore
    timer_period,
    mac_updating,
    promiscuous_on,
    have_pairs,         \* port_pair_params # NULL
    pairs,              \* port_pair_params[0 .. nb_port_pair_params - 1]
    config_mask,        \* port_pair_config_mask
    idx,                \* index over the port pairs
    portid,             \* cursor of the RTE_ETH_FOREACH_DEV loops
    dst,                \* l2fwd_dst_ports
    last_port,
    nb_ports_in_mask,
    rx_lcore_id,
    qconf,              \* lcore whose queue conf is current (MaxLcore: NULL)
    nb_lcores,
    rx_port_list,       \* per lcore; its length is n_rx_port
    nb_mbufs,           \* size of l2fwd_pktmbuf_pool (0: not created)
    started             \* ports configured, with a tx_buffer, and started

env  == <<dev, lcores>>
opts == <<enabled, nqueue, timer_period, mac_updating, promiscuous_on,
          have_pairs, pairs>>
check == <<config_mask, idx>>
fwd  == <<dst, last_port, nb_ports_in_mask>>
qs   == <<rx_lcore_id, qconf, nb_lcores, rx_port_list>>
devs == <<nb_mbufs, started>>
vars == <<env, pc, opts, check, portid, fwd, qs, devs>>

-----------------------------------------------------------------------------
(* Static initialisers of main.c, after rte_eal_init().                    *)

Init ==
    /\ dev \in DevSets
    /\ lcores \in LcoreSets
    /\ pc = "parse"
    /\ enabled = {}
    /\ nqueue = 1
    /\ timer_period = 10
    /\ mac_updating = TRUE
    /\ promiscuous_on = FALSE
    /\ have_pairs = FALSE
    /\ pairs = <<>>
    /\ config_mask = {}
    /\ idx = 0
    /\ portid = 0
    /\ dst = [p \in Ports |-> 0]
    /\ last_port = 0
    /\ nb_ports_in_mask = 0
    /\ rx_lcore_id = 0
    /\ qconf = MaxLcore
    /\ nb_lcores = 0
    /\ rx_port_list = [l \in Lcores |-> <<>>]
    /\ nb_mbufs = 0
    /\ started = {}

Exit == pc' = "exit"

-----------------------------------------------------------------------------
(* l2fwd_parse_args(): one action per option, in any order and number.     *)

\* Mutant: -q is not limited by the size of rx_port_list[].
ParseNqueueUnlimited(n) == n

\* 0 stands for "reject": the caller prints "invalid queue number".
ParseNqueue(n) == IF n >= MaxRxQueue THEN 0 ELSE n

\* A negative result is rejected.
ParseTimerPeriod(n) == IF n >= MaxTimerPeriod THEN -1 ELSE n

\* Every field is a port number and the pairs fit port_pair_params_array;
\* text that is not "(a,b)" is rejected like a field out of range.
PortPairConfigOK(s) ==
    /\ Len(s) <= MaxEthPorts \div 2
    /\ \A i \in 1 .. Len(s) : s[i][1] \in Ports /\ s[i][2] \in Ports

ParseOption == pc = "parse" /\ UNCHANGED <<env, check, portid, fwd, qs, devs>>

OptPortmask(m) ==
    /\ ParseOption
    /\ enabled' = m
    /\ pc' = IF m = {} THEN "exit" ELSE pc
    /\ UNCHANGED <<nqueue, timer_period, mac_updating, promiscuous_on,
                   have_pairs, pairs>>

OptPromiscuous ==
    /\ ParseOption
    /\ promiscuous_on' = TRUE
    /\ UNCHANGED <<pc, enabled, nqueue, timer_period, mac_updating,
                   have_pairs, pairs>>

OptNqueue(n) ==
    /\ ParseOption
    /\ nqueue' = ParseNqueue(n)
    /\ pc' = IF ParseNqueue(n) = 0 THEN "exit" ELSE pc
    /\ UNCHANGED <<enabled, timer_period, mac_updating, promiscuous_on,
                   have_pairs, pairs>>

OptTimerPeriod(n) ==
    /\ ParseOption
    /\ \/ /\ ParseTimerPeriod(n) < 0
          /\ Exit
          /\ UNCHANGED timer_period
       \/ /\ ParseTimerPeriod(n) >= 0
          /\ timer_period' = ParseTimerPeriod(n)
          /\ UNCHANGED pc
    /\ UNCHANGED <<enabled, nqueue, mac_updating, promiscuous_on,
                   have_pairs, pairs>>

OptPortmap(s) ==
    /\ ParseOption
    /\ \/ /\ ~PortPairConfigOK(s)
          /\ Exit
          /\ UNCHANGED <<have_pairs, pairs>>
       \/ /\ PortPairConfigOK(s)
          /\ have_pairs' = TRUE
          /\ pairs' = s
          /\ UNCHANGED pc
    /\ UNCHANGED <<enabled, nqueue, timer_period, mac_updating,
                   promiscuous_on>>

OptNoMacUpdating ==
    /\ ParseOption
    /\ mac_updating' = FALSE
    /\ UNCHANGED <<pc, enabled, nqueue, timer_period, promiscuous_on,
                   have_pairs, pairs>>

\* Any other option prints the usage and ends the program.
OptUnknown == ParseOption /\ Exit /\ UNCHANGED opts

\* No option left: then "No Ethernet ports - bye", or the port checks.
ParseDone ==
    /\ ParseOption
    /\ \/ dev = {} /\ Exit
       \/ dev # {} /\ have_pairs /\ pc' = "check"
       \/ dev # {} /\ ~have_pairs /\ pc' = "mask"
    /\ UNCHANGED opts

-----------------------------------------------------------------------------
(* check_port_pair_config() and the check of the mask.                     *)

PairMask(i) == {pairs[i][1], pairs[i][2]}

\* Mutants: no check against the mask; no check against the other pairs.
PairAcceptedAnyMask(m) == m \subseteq dev /\ m \cap config_mask = {}
PairAcceptedTwice(m) == m \subseteq enabled /\ m \subseteq dev

PairAccepted(m) ==
    /\ m \subseteq enabled         \* "port %u is not enabled in port mask"
    /\ m \subseteq dev             \* "port %u is not present on the board"
    /\ m \cap config_mask = {}     \* "port %u is used in other port pairs"

CheckPortPair ==
    /\ pc = "check"
    /\ idx < Len(pairs)
    /\ LET m == PairMask(idx + 1) IN
          \/ /\ ~PairAccepted(m)
             /\ Exit
             /\ UNCHANGED check
          \/ /\ PairAccepted(m)
             /\ config_mask' = config_mask \cup m
             /\ idx' = idx + 1
             /\ UNCHANGED pc
    /\ UNCHANGED <<env, opts, portid, fwd, qs, devs>>

CheckPortPairDone ==
    /\ pc = "check"
    /\ idx = Len(pairs)
    /\ enabled' = enabled \cap config_mask
    /\ pc' = "mask"
    /\ UNCHANGED <<env, nqueue, timer_period, mac_updating, promiscuous_on,
                   have_pairs, pairs, check, portid, fwd, qs, devs>>

\* The mask may only name ports below rte_eth_dev_count_avail(); then
\* l2fwd_dst_ports is reset.
CheckPortmask ==
    /\ pc = "mask"
    /\ \/ /\ ~ (enabled \subseteq 0 .. Cardinality(dev) - 1)
          /\ Exit
          /\ UNCHANGED <<dst, last_port, idx>>
       \/ /\ enabled \subseteq 0 .. Cardinality(dev) - 1
          /\ pc' = IF have_pairs THEN "portmap" ELSE "alternate"
          /\ dst' = [p \in Ports |-> 0]
          /\ last_port' = 0
          /\ idx' = 0
    /\ UNCHANGED <<env, opts, config_mask, portid, nb_ports_in_mask, qs, devs>>

-----------------------------------------------------------------------------
(* Populating l2fwd_dst_ports.                                             *)

\* Two iterations of the portmap loop: both directions of one pair.
PairPorts ==
    /\ pc = "portmap"
    /\ idx < Len(pairs)
    /\ LET a == pairs[idx + 1][1]
           b == pairs[idx + 1][2]
       IN  dst' = [[dst EXCEPT ![a] = b] EXCEPT ![b] = a]
    /\ idx' = idx + 1
    /\ UNCHANGED <<env, pc, opts, config_mask, portid, last_port,
                   nb_ports_in_mask, qs, devs>>

PairPortsDone ==
    /\ pc = "portmap"
    /\ idx = Len(pairs)
    /\ pc' = "assign"
    /\ UNCHANGED <<env, opts, check, portid, fwd, qs, devs>>

\* The ports the RTE_ETH_FOREACH_DEV loops do not skip.
Used == enabled \cap dev

SkipPort ==
    /\ pc \in {"alternate", "assign", "init"}
    /\ portid < MaxEthPorts
    /\ portid \notin Used
    /\ portid' = portid + 1
    /\ UNCHANGED <<env, pc, opts, check, fwd, qs, devs>>

AlternatePort ==
    /\ pc = "alternate"
    /\ portid < MaxEthPorts
    /\ portid \in Used
    /\ \/ /\ nb_ports_in_mask % 2 = 1
          /\ dst' = [[dst EXCEPT ![portid] = last_port]
                          EXCEPT ![last_port] = portid]
          /\ UNCHANGED last_port
       \/ /\ nb_ports_in_mask % 2 = 0
          /\ last_port' = portid
          /\ UNCHANGED dst
    /\ nb_ports_in_mask' = nb_ports_in_mask + 1
    /\ portid' = portid + 1
    /\ UNCHANGED <<env, pc, opts, check, qs, devs>>

\* Mutant: the last port of an odd mask keeps the reset destination.
OddPortOutForgotten == dst

\* "Notice: odd number of ports in portmask."
OddPortOut ==
    IF nb_ports_in_mask % 2 = 1
    THEN [dst EXCEPT ![last_port] = last_port]
    ELSE dst

AlternateDone ==
    /\ pc = "alternate"
    /\ portid = MaxEthPorts
    /\ dst' = OddPortOut
    /\ portid' = 0
    /\ pc' = "assign"
    /\ UNCHANGED <<env, opts, check, last_port, nb_ports_in_mask, qs, devs>>

-----------------------------------------------------------------------------
(* The port/queue configuration of each logical core.                      *)

LcoreFull == Len(rx_port_list[rx_lcore_id]) = nqueue

\* Mutants: the search does not get past a disabled lcore; one lcore too many is
\* tried.
SucceedingLcoreStuck ==
    IF rx_lcore_id \in lcores THEN rx_lcore_id + 1 ELSE rx_lcore_id
NoLcoreLeftLate == rx_lcore_id + 1 > MaxLcore

SucceedingLcore == rx_lcore_id + 1
NoLcoreLeft == rx_lcore_id + 1 >= MaxLcore

\* One turn of the inner while loop; past the last lcore: "Not enough cores".
NextLcore ==
    /\ pc = "assign"
    /\ portid < MaxEthPorts
    /\ portid \in Used
    /\ rx_lcore_id \notin lcores \/ LcoreFull
    /\ rx_lcore_id' = SucceedingLcore
    /\ pc' = IF NoLcoreLeft THEN "exit" ELSE pc
    /\ UNCHANGED <<env, opts, check, portid, fwd, qconf, nb_lcores,
                   rx_port_list, devs>>

\* Mutants: n_rx_port is not advanced; the first lcore is not counted.
AddPortNoCount(list) == <<portid>>
CountLcoreLate ==
    IF qconf \notin {rx_lcore_id, MaxLcore} THEN nb_lcores + 1 ELSE nb_lcores

AddPort(list) == Append(list, portid)

\* "Assigned a new logical core in the loop above."
CountLcore == IF qconf # rx_lcore_id THEN nb_lcores + 1 ELSE nb_lcores

AssignPort ==
    /\ pc = "assign"
    /\ portid < MaxEthPorts
    /\ portid \in Used
    /\ rx_lcore_id \in lcores /\ ~LcoreFull
    /\ nb_lcores' = CountLcore
    /\ qconf' = rx_lcore_id
    /\ rx_port_list' = [rx_port_list EXCEPT ![rx_lcore_id] = AddPort(@)]
    /\ portid' = portid + 1
    /\ UNCHANGED <<env, pc, opts, check, fwd, rx_lcore_id, devs>>

PoolSize ==
    LET n == Cardinality(dev) * (PortMbufs + nb_lcores * CacheSize)
    IN  IF n >= PoolMin THEN n ELSE PoolMin

\* The mbuf pool is created once the number of polling lcores is known.
CreatePool ==
    /\ pc = "assign"
    /\ portid = MaxEthPorts
    /\ \/ /\ nb_mbufs' = PoolSize
          /\ portid' = 0
          /\ pc' = "init"
       \/ Exit /\ UNCHANGED <<nb_mbufs, portid>>
    /\ UNCHANGED <<env, opts, check, fwd, qs, started>>

-----------------------------------------------------------------------------
(* Device initialisation: any of the driver calls may fail.                *)

InitPort ==
    /\ pc = "init"
    /\ portid < MaxEthPorts
    /\ portid \in Used
    /\ \/ /\ started' = started \cup {portid}
          /\ portid' = portid + 1
          /\ UNCHANGED pc
       \/ Exit /\ UNCHANGED <<started, portid>>
    /\ UNCHANGED <<env, opts, check, fwd, qs, nb_mbufs>>

\* "All available ports are disabled", or on to the launch of the lcores.
\* check_all_ports_link_status() delays the launch and changes nothing.
InitDone ==
    /\ pc = "init"
    /\ portid = MaxEthPorts
    /\ pc' = IF started = {} THEN "exit" ELSE "launch"
    /\ UNCHANGED <<env, opts, check, portid, fwd, qs, devs>>

-----------------------------------------------------------------------------
Parse ==
    \/ \E m \in MaskArgs : OptPortmask(m)
    \/ OptPromiscuous
    \/ \E n \in NqueueArgs : OptNqueue(n)
    \/ \E n \in TimerArgs : OptTimerPeriod(n)
    \/ \E s \in PortmapArgs : OptPortmap(s)
    \/ OptNoMacUpdating
    \/ OptUnknown

Configure ==
    \/ ParseDone
    \/ CheckPortPair \/ CheckPortPairDone \/ CheckPortmask
    \/ PairPorts \/ PairPortsDone
    \/ SkipPort \/ AlternatePort \/ AlternateDone
    \/ NextLcore \/ AssignPort \/ CreatePool
    \/ InitPort \/ InitDone

Next == Parse \/ Configure

\* argv is finite and main() is a single thread that never blocks here.
Spec == Init /\ [][Next]_vars /\ WF_vars(Configure)
-----------------------------------------------------------------------------
(* What start-up promises to the forwarding loops.                         *)

\* Every variable of main() has its type, the cursors stay within the arrays
\* they index, and a list of polled ports holds ports.
TypeOK ==
    /\ dev \in SUBSET Ports
    /\ lcores \in SUBSET Lcores
    /\ pc \in {"parse", "check", "mask", "portmap", "alternate", "assign",
               "init", "launch", "exit"}
    /\ enabled \in SUBSET Ports
    /\ nqueue \in Nat
    /\ timer_period \in Nat
    /\ mac_updating \in BOOLEAN
    /\ promiscuous_on \in BOOLEAN
    /\ have_pairs \in BOOLEAN
    /\ pairs \in Seq(Ports \X Ports)
    /\ config_mask \in SUBSET Ports
    /\ idx \in Nat
    /\ portid \in 0 .. MaxEthPorts
    /\ dst \in [Ports -> Ports]
    /\ last_port \in Ports
    /\ nb_ports_in_mask \in Nat
    /\ rx_lcore_id \in 0 .. MaxLcore
    /\ qconf \in 0 .. MaxLcore
    /\ nb_lcores \in Nat
    /\ rx_port_list \in [Lcores -> Seq(Ports)]
    /\ nb_mbufs \in Nat
    /\ started \in SUBSET Ports

\* Once l2fwd_dst_ports is populated, forwarding is a pairing of the ports in
\* use: the destination of a port in use is in use and forwards back to it,
\* for --portmap, for the alternate pairing and for an odd port out.
DstInvolution ==
    pc \in {"assign", "init", "launch"} =>
        \A p \in Used : dst[p] \in Used /\ dst[dst[p]] = p

\* The assignment of ports to lcores gives every port in use to exactly one
\* enabled lcore, once: no receive queue is polled twice and none is left out.
EachPortPolledOnce ==
    pc \in {"init", "launch"} =>
        /\ \A p \in Used : \E l \in lcores :
               \E i \in 1 .. Len(rx_port_list[l]) : rx_port_list[l][i] = p
        /\ \A l, k \in Lcores :
               \A i \in 1 .. Len(rx_port_list[l]), j \in 1 .. Len(rx_port_list[k]) :
                   rx_port_list[l][i] = rx_port_list[k][j] => l = k /\ i = j

\* l2fwd_simple_forward() and the drain use tx_buffer[dst] and
\* port_statistics[dst].tx without a lock: no two lcores ever get the same dst.
TxBufferSingleWriter ==
    pc = "launch" =>
        \A l, k \in Lcores :
            \A i \in 1 .. Len(rx_port_list[l]), j \in 1 .. Len(rx_port_list[k]) :
                dst[rx_port_list[l][i]] = dst[rx_port_list[k][j]] => l = k

\* When the lcores are launched every port a lcore polls, and every port it
\* transmits to, was initialised: rx_burst() meets a started device and
\* tx_buffer[dst] is not NULL.
TargetsStarted ==
    pc = "launch" =>
        \A l \in Lcores : \A i \in 1 .. Len(rx_port_list[l]) :
            {rx_port_list[l][i], dst[rx_port_list[l][i]]} \subseteq started

\* rx_port_list[MAX_RX_QUEUE_PER_LCORE] is never written past its end,
\* whatever -q asks for.
RxListFits == \A l \in Lcores : Len(rx_port_list[l]) <= MaxRxQueue

\* The lcores that will poll at least one port.
Pollers == {l \in Lcores : rx_port_list[l] # <<>>}

\* The pool counts every polling lcore (nb_lcores++ on a change of qconf), so
\* that the per-lcore caches cannot eat the descriptors' mbufs.
PoolCoversCaches ==
    pc \in {"init", "launch"} =>
        nb_mbufs >= Cardinality(dev)
                    * (PortMbufs + Cardinality(Pollers) * CacheSize)

\* main() gets out of its start-up loops: the lcores are launched or the
\* program has exited, whatever the command line and the machine.
StartupEnds == <>(pc \in {"launch", "exit"})

-----------------------------------------------------------------------------
(* The loop invariants behind these, one per loop.                         *)

\* check_port_pair_config(): the first n pairs are enabled, present and
\* disjoint from each other, and config_mask is their union.
PairsChecked(n) ==
    /\ \A i \in 1 .. n : PairMask(i) \subseteq config_mask
    /\ \A p \in config_mask : \E i \in 1 .. n : p \in PairMask(i)
    /\ \A i, j \in 1 .. n : i # j => PairMask(i) \cap PairMask(j) = {}
    /\ config_mask \subseteq Used

CheckInv ==
    /\ pc = "parse" => idx = 0 /\ config_mask = {}
    /\ pc = "check" => have_pairs /\ idx <= Len(pairs) /\ PairsChecked(idx)
    /\ pc = "mask" /\ have_pairs =>
          PairsChecked(Len(pairs)) /\ enabled = config_mask
    /\ pc = "portmap" =>
          have_pairs /\ PairsChecked(Len(pairs)) /\ enabled = config_mask

\* The first n pairs are entered in l2fwd_dst_ports.
PairsEntered(n) ==
    \A i \in 1 .. n : dst[pairs[i][1]] = pairs[i][2]
                      /\ dst[pairs[i][2]] = pairs[i][1]

\* The ports in use that the alternate pairing has paired so far.
Paired ==
    {p \in Used : p < portid /\ (nb_ports_in_mask % 2 = 1 => p # last_port)}

PopulateInv ==
    /\ pc \in {"parse", "check", "mask", "portmap"} =>
          portid = 0 /\ nb_ports_in_mask = 0
    /\ pc = "portmap" => idx <= Len(pairs) /\ PairsEntered(idx)
    /\ pc = "alternate" =>
          /\ nb_ports_in_mask % 2 = 1 => last_port \in Used /\ last_port < portid
          /\ \A p \in Paired : dst[p] \in Paired /\ dst[dst[p]] = p

\* The ports below portid are polled, by enabled lcores, each once.
AssignInv ==
    /\ pc \in {"parse", "check", "mask", "portmap", "alternate"} =>
          rx_lcore_id = 0 /\ \A l \in Lcores : rx_port_list[l] = <<>>
    /\ pc \in {"assign", "init", "launch"} =>
          /\ \A l \in Lcores : \A i \in 1 .. Len(rx_port_list[l]) :
                rx_port_list[l][i] \in Used
          /\ \A l, k \in Lcores :
                \A i \in 1 .. Len(rx_port_list[l]),
                   j \in 1 .. Len(rx_port_list[k]) :
                   rx_port_list[l][i] = rx_port_list[k][j] => l = k /\ i = j
    /\ pc = "assign" =>
          /\ \A l \in Lcores : \A i \in 1 .. Len(rx_port_list[l]) :
                rx_port_list[l][i] < portid
          /\ \A p \in Used : p < portid =>
                \E l \in lcores : \E i \in 1 .. Len(rx_port_list[l]) :
                    rx_port_list[l][i] = p
          /\ rx_lcore_id \in Lcores
    /\ \A l \in Lcores : Len(rx_port_list[l]) <= nqueue
    /\ nqueue <= MaxRxQueue

\* nb_lcores counts the polling lcores: those up to the current one, which is
\* among them exactly if qconf says so.
CountInv ==
    /\ pc \in {"parse", "check", "mask", "portmap", "alternate"} =>
          qconf = MaxLcore /\ nb_lcores = 0
    /\ pc = "assign" =>
          /\ nb_lcores = Cardinality(Pollers)
          /\ \A l \in Pollers : l <= rx_lcore_id
          /\ qconf <= rx_lcore_id \/ qconf = MaxLcore
          /\ rx_lcore_id \in Pollers <=> qconf = rx_lcore_id

InitInv ==
    /\ pc = "init" => \A p \in Used : p < portid => p \in started
    /\ pc = "launch" => Used \subseteq started

\* The inductive invariant of start-up.
IInv ==
    /\ TypeOK
    /\ CheckInv
    /\ PopulateInv
    /\ DstInvolution
    /\ AssignInv
    /\ EachPortPolledOnce
    /\ CountInv
    /\ PoolCoversCaches
    /\ InitInv
=============================================================================
