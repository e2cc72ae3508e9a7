--------------------------- MODULE FlowFiltering ---------------------------
(***************************************************************************)
(* Dpdk-lab/flow_filtering: main.c, flow_skeleton.c and the snippet it     *)
(* includes, snippet_match_ipv4.c.  The program sets up one port, asks it  *)
(* to send frames for one address to one queue, and prints and frees what  *)
(* it receives from every queue until a signal arrives.                    *)
(*                                                                         *)
(* A frame is only counted in its queue.  The device may refuse any call;  *)
(* a call of rte_flow says with which error.  pc = "failed" is rte_exit(). *)
(***************************************************************************)
EXTENDS FlowFilteringState, FiniteSets, FiniteSetsExt

Queues == 0 .. nr_queues - 1
Errors == {"ENOTSUP", "other"}

device == <<nb_rxq, nb_txq, started>>
rules  == <<configured, templates, flow, rte_errno, rule>>
loop   == <<queue, nb_rx, pool>>
wires  == <<rxq, nframes, link_up>>
vars == <<pc, use_template_api, force_quit, device, rep_cnt, rules, loop, wires>>

Init ==
    /\ pc = "args"
    /\ use_template_api = TRUE
    /\ force_quit = FALSE
    /\ nb_rxq = 0 /\ nb_txq = 0
    /\ started = FALSE
    /\ rep_cnt = 0
    /\ configured = FALSE
    /\ templates = {}
    /\ flow = FALSE
    /\ rte_errno = "none"
    /\ rule = FALSE
    /\ queue = 0 /\ nb_rx = 0
    /\ pool = 0
    /\ rxq = [q \in Queues |-> 0]
    /\ nframes = 0
    /\ link_up \in BOOLEAN

\* A call whose failure ends the program.
OrExit(next) == pc' \in {next, "failed"}

-----------------------------------------------------------------------------
(* main() and init_port()                                                  *)

\* --template and --non-template, in any order; the last one counts.
ParseArgs ==
    /\ pc = "args"
    /\ use_template_api' \in BOOLEAN
    /\ OrExit("pool")
    /\ UNCHANGED <<force_quit, device, rep_cnt, rules, loop, wires>>

\* Without a port or memory for the pool the program ends.  snippet_init()
\* chooses promiscuous mode and ingress rules.
CreatePool ==
    /\ pc = "pool"
    /\ pool' = PoolSize
    /\ OrExit("configure")
    /\ UNCHANGED <<use_template_api, force_quit, device, rep_cnt, rules, queue, nb_rx, wires>>

ConfigurePort ==
    /\ pc = "configure"
    /\ OrExit("queues")
    /\ UNCHANGED <<use_template_api, force_quit, device, rep_cnt, rules, loop, wires>>

SetupRxQueue ==
    /\ pc = "queues" /\ nb_rxq < nr_queues
    /\ nb_rxq' = nb_rxq + 1
    /\ OrExit("queues")
    /\ UNCHANGED <<use_template_api, force_quit, nb_txq, started, rep_cnt, rules, loop, wires>>

SetupTxQueue ==
    /\ pc = "queues" /\ nb_rxq = nr_queues /\ nb_txq < nr_queues
    /\ nb_txq' = nb_txq + 1
    /\ OrExit("queues")
    /\ UNCHANGED <<use_template_api, force_quit, nb_rxq, started, rep_cnt, rules, loop, wires>>

\* Promiscuous mode, start, and the first of the link checks.
StartPort ==
    /\ pc = "queues" /\ nb_rxq = nr_queues /\ nb_txq = nr_queues
    /\ OrExit("link")
    /\ started' = (pc' = "link")
    /\ rep_cnt' = MAX_REPEAT_TIMES
    /\ UNCHANGED <<use_template_api, force_quit, nb_rxq, nb_txq, rules, loop, wires>>

\* Mutant: the counter is not decremented.
ChecksLeftAll(n) == n

ChecksLeft(n) == n - 1

\* assert_link_status(): a link that is down, or a call that fails, is tried
\* again after a second.  After the last time both end the program.
CheckLink ==
    /\ pc = "link"
    /\ IF link_up
       THEN pc' = "linked" /\ UNCHANGED rep_cnt
       ELSE /\ rep_cnt' = ChecksLeft(rep_cnt)
            /\ pc' = IF rep_cnt' = 0 THEN "failed" ELSE "link"
    /\ UNCHANGED <<use_template_api, force_quit, device, rules, loop, wires>>

\* Without templates the port is ready; with them it is stopped again.
StopPort ==
    /\ pc = "linked"
    /\ IF use_template_api
       THEN OrExit("flow_configure") /\ started' = (pc' = "failed")
       ELSE pc' = "rule" /\ UNCHANGED started
    /\ UNCHANGED <<use_template_api, force_quit, nb_rxq, nb_txq, rep_cnt, rules, loop, wires>>

\* Mutant: the port stays stopped after its rules engine is configured.
AfterConfigureStopped == "rule"

AfterConfigure == "restart"

\* configure_port_template()
ConfigurePortTemplate ==
    /\ pc = "flow_configure"
    /\ OrExit(AfterConfigure)
    /\ configured' = (pc' = AfterConfigure)
    /\ UNCHANGED <<use_template_api, force_quit, device, rep_cnt, templates, flow, rte_errno,
                   rule, loop, wires>>

RestartPort ==
    /\ pc = "restart"
    /\ OrExit("rule")
    /\ started' = (pc' = "rule")
    /\ UNCHANGED <<use_template_api, force_quit, nb_rxq, nb_txq, rep_cnt, rules, loop, wires>>

-----------------------------------------------------------------------------
(* generate_flow_skeleton(): the calls of rte_flow in the order of the     *)
(* code.  One that fails leaves its error in rte_errno and no flow.        *)

\* The actions and the pattern of the rule; without memory for them the program
\* crashes.
BuildRule ==
    /\ pc = "rule"
    /\ OrExit(IF use_template_api THEN "pattern" ELSE "validate")
    /\ UNCHANGED <<use_template_api, force_quit, device, rep_cnt, rules, loop, wires>>

AfterTemplate == [pattern |-> "actions", actions |-> "table", table |-> "async"]

Refused ==
    /\ rte_errno' \in Errors
    /\ pc' = "check"

\* snippet_ipv4_flow_create_table(): a pattern template, an actions template
\* and the table made of them.
CreateTemplate ==
    /\ pc \in DOMAIN AfterTemplate
    /\ \/ /\ templates' = templates \cup {pc}
          /\ pc' = AfterTemplate[pc]
          /\ UNCHANGED rte_errno
       \/ Refused /\ UNCHANGED templates
    /\ UNCHANGED <<use_template_api, force_quit, device, rep_cnt, configured, flow, rule,
                   loop, wires>>

\* rte_flow_async_create(): the flow is returned when the request is queued,
\* and nobody asks what became of it.
AsyncCreate ==
    /\ pc = "async"
    /\ \/ /\ flow' = TRUE /\ rule' \in BOOLEAN
          /\ pc' = "check"
          /\ UNCHANGED rte_errno
       \/ Refused /\ UNCHANGED <<flow, rule>>
    /\ UNCHANGED <<use_template_api, force_quit, device, rep_cnt, configured, templates,
                   loop, wires>>

Validate ==
    /\ pc = "validate"
    /\ \/ pc' = "create" /\ UNCHANGED rte_errno
       \/ Refused
    /\ UNCHANGED <<use_template_api, force_quit, device, rep_cnt, configured, templates, flow,
                   rule, loop, wires>>

Create ==
    /\ pc = "create"
    /\ \/ /\ flow' = TRUE /\ rule' = TRUE
          /\ pc' = "check"
          /\ UNCHANGED rte_errno
       \/ Refused /\ UNCHANGED <<flow, rule>>
    /\ UNCHANGED <<use_template_api, force_quit, device, rep_cnt, configured, templates,
                   loop, wires>>

\* Without a flow the program goes on only if the device does not support it.
CheckFlow ==
    /\ pc = "check"
    /\ pc' = IF flow \/ rte_errno = "ENOTSUP" THEN "top" ELSE "failed"
    /\ UNCHANGED <<use_template_api, force_quit, device, rep_cnt, rules, loop, wires>>

-----------------------------------------------------------------------------
(* main_loop()                                                             *)

\* The end of a round: force_quit ends the loop.
Top ==
    /\ pc = "top"
    /\ pc' = IF force_quit THEN "shutdown" ELSE "rx"
    /\ queue' = 0
    /\ UNCHANGED <<use_template_api, force_quit, device, rep_cnt, rules, nb_rx, pool, wires>>

RxBurst ==
    /\ pc = "rx"
    /\ nb_rx' = Min({rxq[queue], BurstSize, pool})
    /\ pool' = pool - nb_rx'
    /\ rxq' = [rxq EXCEPT ![queue] = @ - nb_rx']
    /\ pc' = "free"
    /\ UNCHANGED <<use_template_api, force_quit, device, rep_cnt, rules, queue, nframes, link_up>>

\* Mutant: the last queue is left out.
MoreQueuesButLast(q) == q + 2 < nr_queues

MoreQueues(q) == q + 1 < nr_queues

\* Every mbuf of the burst is printed and freed.
FreeBurst ==
    /\ pc = "free"
    /\ pool' = pool + nb_rx
    /\ nb_rx' = 0
    /\ IF MoreQueues(queue) THEN queue' = queue + 1 /\ pc' = "rx"
                            ELSE pc' = "top" /\ UNCHANGED queue
    /\ UNCHANGED <<use_template_api, force_quit, device, rep_cnt, rules, wires>>

\* The rules are flushed and the port is stopped and closed; the results of
\* these calls are not acted on.
Shutdown ==
    /\ pc = "shutdown"
    /\ rule' = FALSE /\ templates' = {}
    /\ started' = FALSE
    /\ pc' = "exited"
    /\ UNCHANGED <<use_template_api, force_quit, nb_rxq, nb_txq, rep_cnt, configured, flow,
                   rte_errno, loop, wires>>

-----------------------------------------------------------------------------
(* The outside.                                                            *)

\* A frame arrives: one that matches where the rule says, others anywhere.
Arrive(match) ==
    /\ started /\ link_up /\ nframes < MaxFrames
    /\ \E q \in IF match /\ rule THEN {RuleQueue} ELSE Queues :
          /\ rxq[q] < QueueSize
          /\ rxq' = [rxq EXCEPT ![q] = @ + 1]
    /\ nframes' = nframes + 1
    /\ UNCHANGED <<pc, use_template_api, force_quit, device, rep_cnt, rules, loop, link_up>>

\* The link comes and goes.
LinkChange ==
    /\ pc \notin {"exited", "failed"}
    /\ link_up' = ~link_up
    /\ UNCHANGED <<pc, use_template_api, force_quit, device, rep_cnt, rules, loop, rxq, nframes>>

\* signal_handler()
Signal ==
    /\ pc \notin {"exited", "failed"} /\ ~force_quit
    /\ force_quit' = TRUE
    /\ UNCHANGED <<pc, use_template_api, device, rep_cnt, rules, loop, wires>>

Main ==
    \/ ParseArgs \/ CreatePool \/ ConfigurePort \/ SetupRxQueue \/ SetupTxQueue
    \/ StartPort \/ CheckLink \/ StopPort \/ ConfigurePortTemplate \/ RestartPort
    \/ BuildRule \/ CreateTemplate \/ AsyncCreate \/ Validate \/ Create \/ CheckFlow
    \/ Top \/ RxBurst \/ FreeBurst \/ Shutdown

Next == Main \/ Signal \/ LinkChange \/ \E match \in BOOLEAN : Arrive(match)

\* One thread; the calls it makes return.
Spec == Init /\ [][Next]_vars /\ WF_vars(Main)

-----------------------------------------------------------------------------
(* Properties.                                                             *)

\* Frames in any queue of the port are received, wherever the rule or the
\* device sent them, unless the program is told to quit.
QueuesServed ==
    \A q \in Queues :
        (pc = "top" /\ rxq[q] > 0) ~> (force_quit \/ (queue = q /\ nb_rx > 0))

\* A signal at any moment ends the program, even while the link is down or
\* frames keep coming, and a port that main_loop() used is released with its
\* rules.
SignalEnds ==
    force_quit ~> (pc = "failed" \/ (pc = "exited" /\ ~started /\ ~rule))
=============================================================================
