------------------------- MODULE FlowFilteringState -------------------------
(***************************************************************************)
(* What the program of Dpdk-lab/flow_filtering keeps, and what its         *)
(* main_loop() relies on.  FlowFiltering says what the program does.       *)
(***************************************************************************)
EXTENDS Integers

CONSTANTS
    nr_queues,
    RuleQueue,          \* the queue the rule names
    PoolSize,           \* mbufs of mbuf_pool
    BurstSize,          \* 32
    MAX_REPEAT_TIMES,
    QueueSize,          \* frames a queue of the device holds
    MaxFrames           \* bound: frames that arrive

ASSUME FlowFilteringAssumption ==
    /\ nr_queues \in Nat /\ RuleQueue \in 0 .. nr_queues - 1
    /\ PoolSize \in Nat \ {0} /\ BurstSize \in Nat \ {0}
    /\ MAX_REPEAT_TIMES \in 1 .. 255
    /\ QueueSize \in Nat /\ MaxFrames \in Nat

VARIABLES
    pc,
    use_template_api,
    force_quit,
    nb_rxq, nb_txq,     \* queues that are set up
    started,            \* whether the device runs
    rep_cnt,            \* link checks left
    configured,         \* whether rte_flow_configure() succeeded
    templates,          \* template objects the device holds
    flow,               \* whether generate_flow_skeleton() returned a flow
    rte_errno,
    rule,               \* whether the device steers by the rule
    queue,              \* the queue main_loop() is at
    nb_rx,              \* the burst in hand
    pool,               \* free mbufs
    rxq,                \* per queue: frames that wait
    nframes,
    link_up             \* whether rte_eth_link_get() says so

-----------------------------------------------------------------------------
\* main_loop() only polls a port that runs with all its queues, after a rule
\* was accepted through the API that was asked for, or the device declined
\* with ENOTSUP; whatever failed on the way.
LoopReady ==
    pc \in {"top", "rx", "free"} =>
        /\ started /\ nb_rxq = nr_queues /\ nb_txq = nr_queues
        /\ flow => use_template_api = ({"pattern", "actions", "table"} \subseteq templates)
        /\ ~flow => rte_errno = "ENOTSUP" /\ ~rule
=============================================================================
