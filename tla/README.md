# TLA+ models of the DPDK lab and the assembly web server

The repository is a collection of networking and systems exercises. Its core
is `Dpdk-lab/multi_thread`: two versions of an L2 forwarder that encrypts what
it forwards, one that runs each packet to completion on the lcore that received
it (`l2fwd-single-thread/main.c`) and one that hands packets to crypto workers
through rings (`l2fwd-multi-thread/main.c`). Around them are smaller programs:
two processes that exchange messages (`multi_process/simple_mp`), two forwarders
between port pairs (`basic_fwd`, `rxtx_callbacks`), a receiver with a flow rule
(`flow_filtering`) and a forking web server in assembly
(`pwnColledge/computing101/serverAssembly/post_server.s`). This directory models
all of these from the command line to the exit, checks them with TLC, and proves with
TLAPS, for every number of ports, lcores, processes, frames and buffers, every safety
property that the runs check.

    tlc -workers 2 -config MCPortConfig.cfg MCPortConfig      (and the other cfgs)
    tlapm L2fwdProofs.tla                                     (and the other *Proofs)

## Inventory

| Part | State | Operations | Interaction | What makes it correct |
|---|---|---|---|---|
| start-up (`main()`, same text in both programs) | port mask, `-q`, `-T`, port pairs, `l2fwd_dst_ports`, `lcore_queue_conf`, pool size, started ports | option parsing, `check_port_pair_config`, pairing, lcore assignment, pool, port initialisation | everything the loops later use without a lock is decided here | destinations are a pairing, each port polled once, one writer per transmit buffer, only started ports, no array overrun, start-up ends |
| run-to-completion loop | bursts, `tx_buffer[]`, cipher contexts, `port_statistics`, `force_quit` | drain, `rx_burst`, decrypt and free, encrypt and buffer, flush, quit | lcores share the pool and the wires; main waits for them and closes the ports | no mbuf leak, counters add up, no forwarding loop, order kept, traffic settles, a signal ends the program |
| crypto pipeline | two rings per worker, per-worker counters, arrays of I/O lcores and workers | receive, enqueue, dequeue, crypt, return, group, send, free, quit | I/O lcores and workers meet in the rings and the pool | as above, and: rings as large as the pool never drop, encryption counters agree |
| pipeline launch | `crypto_lcores[]`, ring arrays | choice of lcores, ring creation, launch | before the loops | every lcore with ports runs, no two workers share a ring pair, worker ids index existing rings |
| link status check | a retry count, `print_flag` | polling rounds | between port initialisation and launch; reads `force_quit` | bounded wait, ended by a signal |
| printing, benchmark flags | `begin_flag`, `end_flag` | test and set by several lcores | read the shared counters | one measured interval |
| simple_mp | two shared rings, a shared pool with per-lcore caches, `quit` | create or look up, send, discard, receive, quit | two processes, each with a command lcore and workers; the secondary may die and start again | no buffer unaccounted for, messages in order, delivered to a restarted secondary, quit ends the process |
| basic_fwd, rxtx_callbacks | ports, burst in hand, latency totals | `port_init`, receive, callback, send, free the rest | one lcore, device callbacks | no mbuf leak, peers exist, averages over the right packets, no port starves |
| flow_filtering | port state, template objects, flow, `rte_errno`, queue cursor | `init_port`, link wait, rule creation by two APIs, receive loop, shutdown | device, signal | loop on a running port, all queues served, a signal ends it |
| assembly web server | descriptors of parent and children, request, file | accept, fork, close, parse, GET, POST | parent, children and clients share sockets and files | of an acknowledged POST a later GET sees what was written, connections and port are released |
| assembly exercises, netfilter hook, traffic scripts | registers; a queue handle | pure loops; verdict per packet | - | agree with their definitions |

The hard behaviours are the ones of unlocked shared state (transmit buffers,
counters, the pool), partial results of burst operations, the veth pair that
brings every frame sent back to the program, timers that must flush what a
buffer holds, and shutdown while lcores are anywhere in their loops; in the other
programs, processes that die with shared buffers in hand, requests that arrive in
pieces, system calls whose results nobody looks at, and waits that must end. The list is
under `hazards` in `PROJECT.json`, each with the properties that cover it.

## Modules

* `PortConfig`: start-up. `pc` names the loop `main()` is in and each iteration
  is one action. A port mask is the set of its ports; options arrive in any order
  and number; a failing driver call ends in `exit`. The sizes of the arrays are
  constants.
* `Packets`: what both forwarders do to a frame, and the devices. Frames keep
  only what the code or a property tells apart: number, port of arrival, mark,
  kind of payload, number of encryptions (up to 2). `CtxReset` and
  `EncryptOut` are OpenSSL's, as external definitions.
* `L2fwd`: `l2fwd_main_loop()` on every lcore, one action per turn of each of
  its loops, the signal handler, and `main()` from the link check on. Frames may
  arrive while the links are checked. `rte_eth_tx_buffer`
  and `..._flush` send any prefix. Actions of different lcores interleave; one
  action covers the code between two accesses to state another lcore can see.
  `CryptoFails` is the `rte_exit()` of `init_crypto_contexts()`, `real_encrypt()` and
  `real_decrypt()` when OpenSSL cannot create, initialise or reset a context. It ends the
  process on the spot (`ended`), without `main()`'s wait and close: every other action is
  `Alive`, that is, taken only before. `Pipeline` has the same for its workers.
* `Pipeline`: I/O loop and `crypto_loop()`. Counters that several I/O lcores
  may write are read in one step and written in the next. At this commit the I/O
  loop still names the arrays of rings and drop counters without an index (lines
  578-593) and the file does not compile; `MULTI_RING_PROGRESS.md` lists the loop
  as still to be changed. It is read as it was written, for one ring pair: element 0.
  Workers other than 0 therefore start, wait and quit. `tx_buffer[]` is never
  filled by this program, so the drain flushes empty buffers and is left out.
* `PipelineLaunch`: `main()` of the pipeline between port initialisation and the
  wait: ring pairs, choice of the crypto lcores, launch of workers and I/O lcores,
  each of which may fail. The lcores that poll ports are the lowest enabled ones, as
  `PortConfig` assigns them. Its result is where `Pipeline` starts.
* `SimpleMp`: both processes of simple_mp. `main[p]` is where `main()` of a process
  is, `pc[l]` where `lcore_recv()` of a worker is; get, enqueue and put of a command are
  separate steps, as are dequeue, print and put of a worker and the look-ups of the three
  shared objects. The pool is external
  and modelled with its per-lcore caches: a buffer put back by a receiver is in that
  lcore's cache, and a sender may find the pool empty and panic. The secondary can be
  killed anywhere; a second instance uses the caches and rings the first one left.
  `lost` counts the buffers dead processes held, `orphaned` names the messages their
  workers had dequeued and not yet printed.
* `PairFwd`: basic_fwd and rxtx_callbacks, which have the same start-up and loop;
  `program` says which, and only the second has options and callbacks. `tsc` advances
  at any time. The ticks of the card are arbitrary: no result of `rte_eth_read_clock()` is
  looked at, so of the time in the card only that it is counted and reset is modelled. The
  ids of the ports are 0 .. n-1: the code tests that n is even, and relies for the rest on
  EAL, which numbers devices without gaps while none is owned by another or removed.
* `AsmServer`: post_server.s. A request counts by how much of it has arrived, at the
  positions the parser tells apart; a scan that finds neither space nor CR runs off the
  buffers and ends the child. `holds[p]` are the sockets of a process, `fork()` copies
  them. No result of a system call is tested. `open()` of either method may fail, `write()`
  of the body may take any part of it or none (full disk, quota, I/O error), `read()` of the
  file may give less than there is or nothing, and each is followed by 200 OK all the same;
  a failing `fork()` looks like the parent's branch. `wrote[c]` is how much of a body
  reached the file, `failed` the children of which a call on a file failed or fell short.
* `FlowFiltering`: main.c, flow_skeleton.c and the IPv4 snippet. Any call may fail; the
  calls of rte_flow fail with ENOTSUP or another error. The link is the environment's.
  `FlowFilteringState` declares its constants and variables and states `LoopReady`.
* `LossyFifo`: the abstract promise of both forwarders per direction, and of simple_mp
  per ring: a channel that may lose frames but neither reorders nor repeats them.
* `PortConfigProofs`, `L2fwdProofs`, `PipelineProofs`, `PipelineLaunchProofs`,
  `PairFwdProofs`, `SimpleMpProofs`: the theorems about each of these.
  `StandaloneProofs`: those about `AsmServer`, which it extends, and about `FlowFiltering`
  and `LossyFifo`, which it instantiates as `Flow` and `Fifo`.
  `DataLemmas`: what the proofs share about sums over sets, minima, bursts taken off a
  queue, selections from a sequence and positions in a channel.
* `MCPortConfig`, `MCL2fwd`, `MCPipeline`, `MCPipelineLaunch`, `MCSimpleMp`, `MCPairFwd`,
  `MCAsmServer`, `MCFlowFiltering`: the instances.

`L2fwd` and `Pipeline` assume of `Dst` and the port lists what the theorems of
`PortConfigProofs` establish (`ConfigAssumption`).

Definitions commented as *Mutant* are deliberately wrong forms of the definition
that follows them. They are never used by the specifications; each documents
a fault that a property detects.

## Runs

| Run | Instance | Result |
|---|---|---|
| `startup` (`MCPortConfig.cfg`) | 4 port numbers, 3 lcore numbers, 5 machines (none, contiguous, with a hole), every portmap of up to two pairs over three ports and some over four, `-q` below, at and above the limit | all properties hold, 325 thousand states |
| `run_to_completion` (`MCL2fwd.cfg`) | 2 ports on a veth pair, 2 lcores, `-q 1` and `-q 2`, bursts of 2, 3 mbufs, kernel queues of 3, 4 frames, up to 2 link checks | all hold, 346 thousand states |
| `run_to_completion_cipher` | same | `MarkedIsCiphertext` violated: see Findings |
| `pipeline` (`MCPipeline.cfg`) | 1 I/O lcore, 2 workers, bursts of 2, 3 mbufs, rings of 1 and 3, 3 frames | all hold, 632 thousand states |
| `pipeline_two_io` (`MCPipelineRace.cfg`) | 2 I/O lcores, 1 worker, 2 frames | `ShouldMatchTotalEncrypted` violated: see Findings |
| `launch` (`MCPipelineLaunch.cfg`) | every set of up to 5 lcores, the lowest as main, 2 ring pairs | all hold, 2526 states |
| `launch_any_main` (`MCPipelineLaunchMain.cfg`) | same, any lcore as main | `EveryPollerRuns` violated: see Findings |
| `launch_worker_ids` (`MCPipelineLaunchIds.cfg`) | same as `launch` | `WorkerHasRings` violated: see Findings |
| `simple_mp` (`MCSimpleMp.cfg`) | one command and one receiving lcore per process, rings of 2, 3 buffers, caches of 1, 4 messages, 2 starts of the secondary | all hold, 140 thousand states |
| `pair_fwd` (`MCPairFwd.cfg`) | 0 to 4 ports, bursts and kernel queues of 3, one mbuf per port, a report after more than one packet, 4 frames | all hold, 157 thousand states |
| `web_server` (`MCAsmServer.cfg`) | a POST and a GET of one path, body of 2 bytes over a missing or a 3-byte file, 2 children, one failing accept, any failing or short call on the file | all hold, 675 thousand states |
| `flow_filtering` (`MCFlowFiltering.cfg`) | 3 queues, 2 mbufs, 3 link checks, 4 frames | all hold, 82 thousand states |

Bounds. Bursts of 2 with 3 or 4 frames give full and partial bursts, full and
partly filled transmit buffers, and batches with frames for both ports; 3 mbufs
are exhausted by one burst and one buffered frame, so the lost frame of
`rx_burst` occurs; kernel queues of 3 overflow; a ring of 1 overflows with every
burst of 2, a ring of 3 can hold the pool. `-q 1` and `-q 2` give lcores that own
one port, two ports and none. Four ports allow two pairs, an odd mask and an
invalid pair. `MaxFrames` is the only bound on behaviour that the code does not
have; since a frame that was sent returns marked and is freed, a longer run repeats
these situations. Hosts send unmarked frames, as the traffic scripts do; marked
frames reach the program through the wire it sends on.

In `simple_mp`, four messages overflow a ring of two and, with what caches and dead
processes hold, exhaust the pool; two starts are a death and a restart. In `pair_fwd`
an odd number of ports and none must be refused; with two ports the pool has two mbufs for
bursts of three, so a receive burst finds it short and a frame is lost; four frames
give a report in the middle of a batch and one after it.
In `web_server` two children and a failed accept use up the processes, so that a
connection meets a failing `fork()`; the body is shorter than the old file, so the missing
truncation shows, and as long as the read buffer. In `flow_filtering` the rule's queue is
neither the first nor the last.

What they check:

* `startup`: `TypeOK`; `DstInvolution` and `EachPortPolledOnce` (pairing and
  assignment); `TxBufferSingleWriter` (no lock is needed); `TargetsStarted`;
  `RxListFits`; `PoolCoversCaches`; `StartupEnds`. Deadlock is not checked: start-up
  stops at `launch` or `exit`.
* `run_to_completion`: `MbufConservation`, `StatsBalance`, `EncryptedOnce`,
  `NoLoopOnClosedPort`; `ImplementsLossyFifo` (refinement: `chan` is transmit buffer,
  burst in hand and kernel queue, without the marked frames); `TrafficSettles`
  and `SignalEndsProgram`.
* `pipeline`: the same for the pipeline, with `RingsNeverDrop` (64K rings against
  a pool of 8K mbufs and up, as in the lab's set-up), `MarksBalance` (the totals of
  `print_stats()` at every moment) and `NothingRunsAfterExit`. The refinement maps
  both rings and the arrays of I/O lcore and worker 0 to one channel per direction.
* `launch`: `OwnRingPair` (the rings are created for several producers and consumers,
  but a worker's counters and order need a pair of its own) and `EveryPollerRuns`.
  Five lcores against two ring pairs give every case: no worker, as many as pairs, and
  more; sets with holes; failed launches in between.
* `simple_mp`: `BuffersAccounted` (a buffer is free, in a ring, or in one hand, and a
  process that dies takes no more than one per lcore); `ObjectsPresent`;
  `ImplementsLossyFifo` (`chan` is the message in the receiver's hand and the ring);
  `Delivered` (also what an earlier instance left in the ring; the only messages exempt
  are those in `orphaned`, each in the hand of a worker that died before it printed it);
  `QuitEnds`.
* `pair_fwd`: `MbufConservation`, `PeerStarted` (`port ^ 1` exists), `AverageOfWindow`
  (a printed average against the history of what was counted), `PortsServed`.
* `web_server`: `ReadYourPost` (a GET that connects after the 200 OK of a POST is sent all
  of the body that was read when no call on the file failed, and exactly as much as `write()`
  took and the GET's own `read()` gave when one did); `Served`; `ListenerReleased`.
* `flow_filtering`: `LoopReady`, `QueuesServed`, `SignalEnds`.
  Deadlock is not checked in these four: the programs end, fail, or wait for input.

Fairness. Every lcore is a thread on its own core: weak fairness of its steps and
of `main()`. In `L2fwd`, strong fairness of `StartDrain`: the time stamp counter
advances, so a lcore that keeps coming to the top of its loop sees more than
`BURST_TX_DRAIN_US` pass. An `rte_exit()` from the cipher code is never forced; after one,
nothing is expected of any lcore. Nothing is assumed of the hosts, the driver (which may
send nothing) or the user (who may never send a signal). In `PortConfig`, weak
fairness of everything but the options: `argv` is finite.
In `SimpleMp`, `PairFwd` and `FlowFiltering` weak fairness of each thread; nothing is
assumed of the user, the hosts, the link or the killer. In `AsmServer` weak fairness of
each process, and clients outside `Silent` send or hang up; that a server waits for ever
for a client that does neither is what the code does, and `Served` is not about those.

## Findings

1. `real_encrypt()` resets its context with `EVP_CIPHER_CTX_reset()` before each
   packet and expects "the state after Init"; the reset removes cipher and key.
   Every packet leaves marked and with an empty payload
   (`run_to_completion_cipher`; same text in the pipeline).
2. `print_stats()` of the pipeline prints the marks counted on transmission as
   "(Should match total encrypted)". The counter is incremented by every I/O lcore
   without synchronisation; with two of them updates are lost (`pipeline_two_io`).
   With one I/O lcore the totals agree (`MarksBalance`).
3. The launch searches lcores from the main one upwards and does not wrap, while ports
   are assigned from lcore 0: with `--main-lcore` above a polling lcore, its ports are
   never polled (`launch_any_main`). With EAL's default, the lowest lcore, all run.
4. The number of crypto workers is not limited to `MAX_CRYPTO_WORKERS`; one more free
   lcore gives a worker whose id has no ring pair (`launch_worker_ids`).

Seen on the way, without a run of their own:

* post_server.s sends 200 OK, by its comment at line 175 "表示我们已经写完了" (to say
  that we have finished writing), also when `open()` failed or `write()` took part of the body
  or nothing. `ReadYourPost` says what holds all the same.
* The comment at flow_filtering/main.c:381-387 wants to go on without hardware filtering where
  flows are not supported, but tests for `ENOTSUP` only. A driver without flow operations
  answers `ENOSYS`, which ends in `rte_exit()` (`CheckFlow`). `LoopReady` holds on both paths.
* `--portmap="(0,0)"` passes `check_port_pair_config()`: a port paired with itself sends back
  what it receives. The table is still an involution, so nothing `startup` checks is broken.

## Proofs

Every theorem holds for all values of the constants that satisfy the `ASSUME`s of its
module. These ask for finite sets of lcores and ports, port numbers that are numbers,
and sizes of the right sign. `L2fwd` and `Pipeline` also assume that `Dst` is a pairing
and that a port is in one list once, which is what `PortConfigProofs` proves of start-up.
In each module the argument is one inductive invariant `IInv`, proved action by action;
the theorems follow from it. In `L2fwd` and `Pipeline` the `rte_exit()` of the cipher code
changes only `ended`, so a step of `Next` is a step of the running program or leaves all of
it alone (`NextIsStep`), and the invariants are about the former.

| Module | Proved of its specification |
|---|---|
| `PortConfig` | `TypeOK`, `DstInvolution`, `EachPortPolledOnce`, `TxBufferSingleWriter`, `TargetsStarted`, `RxListFits`, `PoolCoversCaches` |
| `L2fwd` | `MbufConservation`, `StatsBalance`, `EncryptedOnce`, `NoLoopOnClosedPort`, `ImplementsLossyFifo`; no payload is ever sent |
| `Pipeline` | `MbufConservation`, `RingsNeverDrop`, `EncryptedOnce`, `NothingRunsAfterExit`; `MarksBalance` and `ImplementsLossyFifo` with one I/O lcore; no payload is ever sent |
| `PipelineLaunch` | `OwnRingPair`; no lcore is launched twice; `EveryPollerRuns` with the lowest lcore as main |
| `PairFwd` | `MbufConservation`, `PeerStarted`, `AverageOfWindow`; no latency is negative |
| `SimpleMp` | `BuffersAccounted`, `ObjectsPresent`; when a send command panics, for any sizes and for those of the lab; `ImplementsLossyFifo` with one receiving lcore per process |
| `FlowFiltering` | `LoopReady` |
| `AsmServer` | `ReadYourPost` |
| `LossyFifo` | `OrderKept`: strictly increasing numbers, per direction, in what was sent and what is on its way |

Four properties are proved under a hypothesis, and each is one the code needs. `pipeline_two_io` and
`launch_any_main` show what goes wrong for `MarksBalance` and `EveryPollerRuns`. Order
needs one reader per ring: two I/O lcores on the transmit ring of the pipeline, or two
receiving lcores on one ring of simple_mp, can pass frames on in the other order than they
dequeued them. The refinement of `Pipeline` names the batch of its one I/O lcore.

**Start-up.** `DstInvolution` alone is not inductive, because it says nothing before the
table is complete. `CheckInv` says that the pairs accepted so far are enabled and disjoint;
`PopulateInv` that the first `idx` pairs (or, for the alternate pairing, the ports
already passed, except a waiting `last_port`) are entered in both directions. When
the loop ends these give the pairing. `EachPortPolledOnce` needs `AssignInv`: the ports
below the cursor, and only those, are in the lists, each once, and a list holds at most
`nqueue` entries. `CountInv` is about the counter: `nb_lcores` goes up when `qconf`
changes, so it counts the lcores with ports only because the cursor never returns to one;
`PoolCoversCaches` follows. `InitInv` gives `TargetsStarted`. `TxBufferSingleWriter`
follows from two of them: a pairing is injective, so two lcores with a common destination
poll a common port.

**The forwarders.** That no mbuf is lost cannot be shown without saying what is in the
queues, and `EncryptedOnce` not without saying it of every queue on the way. `Waiting(p)`
is what a receive queue or a burst may hold: the port's own untouched frames, and frames
already encrypted that came back over the wire; `Leaving(q)` what a transmit buffer may.
The mark check and `real_encrypt()` move a frame from one to the other, and since the
context is reset first, what `Leaving` holds is empty whatever state the context was in:
`SendsNoPayload` is the general form of finding 1, under every schedule, layout and size.
`StatsBalance` and the counts of `MbufConservation` are sums over lcores and ports: each
action changes one or two terms.
In `Pipeline` a ring is never longer than its size (`RingInv`), and a burst in hand and a
ring together never have more mbufs than the pool (`MbufConservation`): no enqueue into a
ring of that size is refused, which `DropInv` says in inductive form. `MarksBalance` needs
`MarkInv`, what the register of the I/O lcore holds between the read and the write of the
counter.

**Order in `L2fwd`.** Each action is a step of the channel or a stutter, on the numbers of
the unmarked frames in transmit buffer, burst and kernel queue. A received burst loses
what the pool has no mbuf for, an encrypted frame changes from the burst to the buffer, a
flush releases the buffer, a frame the kernel queue refuses is lost. `QueueInv` (the kernel
queue is never above its size) is needed for arrivals, and `EachPortPolledOnce` for all of
them: at most one lcore has a burst of a port. A step of the channel is described by the
positions it keeps; `DataLemmas` says how positions compose when the sequence has parts.
With `OrderKept` this gives the promise: no reordering and no duplication per direction.

**Order in `Pipeline`.** The channel of a port runs through seven places: the batch the I/O
lcore is sending, the transmit ring and the worker's finished frames, where its frames are
marked, and the frames the worker still has to do, the receive ring, the received burst and
the kernel queue, where they are not. `QueueInv` is as in `L2fwd`; `BurstInv` says that the
unmarked frames of a burst came in on the port the lcore is at. Both enqueues and both
dequeues move frames between neighbours, which changes nothing of the channel; encryption
moves one across the mark; receiving and the two drops lose some; grouping by port permutes
a batch but no port's share of it; a burst sent releases the front. Each action has a lemma
for the step of the channel it is, and the lemmas on moving, losing and releasing parts of
a concatenation are in `DataLemmas`, for `L2fwdProofs` too.

**The web server and flow_filtering.** `ReadYourPost` is about two children that never meet.
`ConnInv` says that a connection is in one place (waiting, in the parent's hand, or with one
child), so what is known of a client's child is known of its only child; `fork()` relies on
it, since the parent's `rbx` keeps its value. `DoneInv` and `WroteInv` say that who was
answered is past its `write()`, and has written all of the body it read unless its `open()` or `write()`
failed. `FileInv` keeps what was written at the start of its file until another client writes there: `open()` without
`O_TRUNC` and a `write()` at offset 0 leave the older tail behind it, which is why the
property speaks of a prefix. `ReaderInv` carries it through the steps of a GET that
connected after the answer, up to what the GET's own calls let through. For `LoopReady` the invariant says which calls belong to which
API, what template objects each finds (`ApiInv`), and when the port runs (`StartedInv`).

**Launch and the other programs.** In `PipelineLaunch` the ids of workers are places in an
ascending list of lcores, and the lcores below the cursor have been launched. In `PairFwd`
`StartupInv` says which ports are set up at each step of `main()`, `StampInv` that stamps
lie in the past, and the window's history has the totals of the counters. In `SimpleMp`
`ThreadInv` and `ObjectInv` tie the place of each lcore to what it holds and to what
`main()` has found; `LostInv` bounds what ended processes took along by the lcores of all
the starts so far. In its refinement a dequeue only moves a message from the ring to the
receiver's hand, a print releases it, the put of its buffer changes nothing, and a kill loses
it if it was not printed.

`PanicExplained` is about the `rte_panic()` of the send command, on sizes TLC cannot
reach: a buffer parked in the cache of another lcore is free and cannot be had. `SizeInv`
bounds rings and caches, `Conserved` then says that the sender with an empty cache and an
empty pool can only panic when `2 * RingSize + (lcores - 1) * (FlushThresh + 1)` and the
lost buffers reach the size of the pool. `LabSizesSuffice` puts in the numbers of `main()`
(1024 buffers, rings of 63, caches of 32, four lcores): 751 buffers must have gone with
processes that ended, at most two for each start of the secondary, so this takes 375
starts. Nothing gives those buffers back while the primary runs.

Sums and selections are folds and recursive functions. What they do for every input is
proved from the existence and uniqueness of the function on a well-founded domain
(`SubsetInduction`, `NumberInduction`), since the library's induction theorems take an
operator as a parameter.

Only model-checked: the liveness properties (`StartupEnds`, `TrafficSettles`,
`SignalEndsProgram`, `Delivered`, `QuitEnds`, `PortsServed`, `Served`, `ListenerReleased`,
`QueuesServed`, `SignalEnds`): fairness and ENABLED are out of the prover's reach. Every
invariant and every refinement that a run checks is also stated by a theorem.

## Not modelled

* In the forwarders: the per-lcore caches of the mempool (`pool` counts all free mbufs;
  `SimpleMp` has them); what an `rte_exit()` cleans up on its way; text of options (an argument is its parsed value, with one value
  for "unparsable"); MAC addresses beyond the port they name; AES itself; the benchmark
  flags, which feed only a printout.
* In `AsmServer`: bytes of a request beyond the positions the parser tells apart, a failing
  `socket()`, a failing `read()` of a request other than by a reset, and `server.s`, the GET-only predecessor with the same structure. Unlike
  post_server.s it reads as many bytes of the file as its path is long.
* In `FlowFiltering`: the branch for flow isolation, which the included snippet never
  enables, and the other three snippets, which nothing calls.
* Formatting and logging everywhere. The assembly exercises are pure routines of a few
  instructions; the netfilter hook is one loop whose queue is the kernel's; the traffic
  scripts are the environment of the forwarders.
* Compiled copies of googletest under `Netfilter/Cpp_Tutorial/build` and the
  disassemblies under `gdbUsing` are not the repository's own code.

## Plan

What would come next: the benchmark flags, whose check-then-set by several lcores decides
the interval that is printed, and the I/O loop of the pipeline for several
ring pairs, once the source has it.
