------------------------------ MODULE SimpleMp ------------------------------
(***************************************************************************)
(* Dpdk-lab/multi_process/simple_mp: a primary and a secondary process     *)
(* that send each other messages through two rings, in buffers of one      *)
(* shared pool.  The main lcore of a process reads commands, its worker    *)
(* lcores run lcore_recv().  The secondary may quit or be killed and start *)
(* again; rings and pool stay with the primary.                            *)
(*                                                                         *)
(* Messages are numbered when they are enqueued or discarded.  A buffer    *)
(* without an owner is in the pool or in the mempool cache of a lcore.     *)
(***************************************************************************)
EXTENDS Integers, FiniteSets, SequencesExt

CONSTANTS
    MainLcore,          \* per process: rte_get_main_lcore()
    Workers,            \* per process: the other lcores
    RingSize,           \* what a ring holds: ring_size - 1
    PoolSize,           \* pool_size
    CacheSize,          \* pool_cache
    MaxMsgs,            \* bound: send commands
    MaxStarts           \* bound: starts of the secondary

Procs == {"pri", "sec"}
Other(p) == CHOOSE q \in Procs : q # p
LcoresOf(p) == {MainLcore[p]} \cup Workers[p]
AllWorkers == Workers["pri"] \cup Workers["sec"]
Lcores == LcoresOf("pri") \cup LcoresOf("sec")
ProcOf(l) == CHOOSE p \in Procs : l \in LcoresOf(p)

\* CACHE_FLUSHTHRESH_MULTIPLIER is 1.5.
FlushThresh == (3 * CacheSize) \div 2

\* The processes use different lcores: the caches of the pool are per lcore.
ASSUME LcoreAssumption ==
    /\ LcoresOf("pri") \cap LcoresOf("sec") = {}
    /\ \A p \in Procs : MainLcore[p] \notin Workers[p] /\ IsFiniteSet(Workers[p])

ASSUME SizeAssumption ==
    /\ RingSize \in Nat \ {0} /\ CacheSize \in Nat \ {0}
    /\ PoolSize \in Nat /\ MaxMsgs \in Nat /\ MaxStarts \in Nat

VARIABLES
    main,               \* per process: where main() is
    named,              \* the shared objects that exist
    found,              \* per process: the objects it has a pointer to
    quit,
    pc,                 \* per worker: where lcore_recv() is
    msg,                \* per worker: the message in its hand, or 0
    ring,               \* per process: the ring it receives from
    pool, cache,        \* free buffers: in common, and per lcore
    nmsgs,              \* send commands that were carried out
    printed,            \* per process: history of the messages it printed
    starts,             \* starts of the secondary
    lost,               \* buffers in the hands of processes that died
    orphaned            \* history: messages in the hand of a worker that died

process == <<main, found, quit, starts>>
threads == <<pc, msg>>
buffers == <<pool, cache, lost, orphaned>>
traffic == <<ring, nmsgs, printed>>
vars == <<process, named, threads, buffers, traffic>>

Objects == <<"PRI_2_SEC", "SEC_2_PRI", "MSG_POOL">>

Init ==
    /\ main = [p \in Procs |-> "off"]
    /\ named = {}
    /\ found = [p \in Procs |-> <<>>]
    /\ quit = [p \in Procs |-> FALSE]
    /\ pc = [l \in AllWorkers |-> "off"]
    /\ msg = [l \in AllWorkers |-> 0]
    /\ ring = [p \in Procs |-> <<>>]
    /\ pool = PoolSize
    /\ cache = [l \in Lcores |-> 0]
    /\ nmsgs = 0
    /\ printed = [p \in Procs |-> <<>>]
    /\ starts = 0
    /\ lost = 0
    /\ orphaned = {}

Goto(p, s) == main' = [main EXCEPT ![p] = s]

\* The buffers in the hands of the lcores of p.
InHand(p) ==
    {l \in LcoresOf(p) : IF l = MainLcore[p] THEN main[p] \in {"enqueue", "discard"}
                         ELSE msg[l] # 0}

\* The process ends, in state s, with all its lcores.
Die(p, s) ==
    /\ Goto(p, s)
    /\ lost' = lost + Cardinality(InHand(p))
    /\ orphaned' = orphaned \cup {msg[l] : l \in {k \in Workers[p] : pc[k] = "print"}}
    /\ pc' = [l \in AllWorkers |-> IF l \in Workers[p] THEN "off" ELSE pc[l]]
    /\ msg' = [l \in AllWorkers |-> IF l \in Workers[p] THEN 0 ELSE msg[l]]

-----------------------------------------------------------------------------
(* The pool.                                                               *)

\* rte_mempool_get() on lcore l: from its cache; else the cache is filled from
\* the pool, or if that has too little, one buffer is taken.
CanGet(l) == cache[l] > 0 \/ pool > 0
MempoolGet(l) ==
    LET n == IF cache[l] > 0 THEN 0 ELSE IF pool > CacheSize THEN CacheSize + 1 ELSE 1
    IN  /\ pool' = pool - n
        /\ cache' = [cache EXCEPT ![l] = @ + n - 1]

\* rte_mempool_put() on lcore l: a cache over its threshold is flushed first.
MempoolPut(l) ==
    IF cache[l] < FlushThresh
    THEN cache' = [cache EXCEPT ![l] = @ + 1] /\ UNCHANGED pool
    ELSE cache' = [cache EXCEPT ![l] = 1] /\ pool' = pool + cache[l]

-----------------------------------------------------------------------------
(* main()                                                                  *)

\* A process is started and rte_eal_init() returns; that of a secondary waits
\* for the primary's and fails once that is gone.
Start(p) ==
    /\ \/ p = "pri" /\ main[p] = "off"
       \/ /\ p = "sec" /\ main[p] \in {"off", "exited", "panic"}
          /\ main["pri"] \notin {"off", "exited", "panic"}
          /\ starts < MaxStarts
    /\ starts' = IF p = "sec" THEN starts + 1 ELSE starts
    /\ Goto(p, "objects")
    /\ quit' = [quit EXCEPT ![p] = FALSE]
    /\ found' = [found EXCEPT ![p] = <<>>]
    /\ UNCHANGED <<named, threads, buffers, traffic>>

\* The objects are created by the primary, which may fail, and looked up by
\* the secondary, which may come too early; both in the order of Objects.
GetObject(p) ==
    LET k == Len(found[p]) + 1 IN
    /\ main[p] = "objects" /\ k <= Len(Objects)
    /\ \E ok \in BOOLEAN :
          /\ p = "sec" => ok = (Objects[k] \in named)
          /\ found' = [found EXCEPT ![p] = Append(@, ok)]
          /\ named' = IF ok THEN named \cup {Objects[k]} ELSE named
    /\ UNCHANGED <<main, quit, starts, threads, buffers, traffic>>

\* Mutant: the pointer to the pool is not checked.
HaveObjectsRings(p) == found[p][1] /\ found[p][2]

HaveObjects(p) == found[p][1] /\ found[p][2] /\ found[p][3]

\* rte_exit() without an object, else the workers are launched.
Launch(p) ==
    /\ main[p] = "objects" /\ Len(found[p]) = Len(Objects)
    /\ IF HaveObjects(p)
       THEN /\ Goto(p, "cmdline")
            /\ pc' = [l \in AllWorkers |-> IF l \in Workers[p] THEN "top" ELSE pc[l]]
       ELSE Goto(p, "exited") /\ UNCHANGED pc
    /\ UNCHANGED <<found, quit, starts, named, msg, buffers, traffic>>

\* cmdline_stdin_new(): rte_exit() if it fails, with the workers at work.
NewCmdline(p) ==
    /\ main[p] = "cmdline"
    /\ \/ Goto(p, "cmd") /\ UNCHANGED <<threads, lost, orphaned>>
       \/ Die(p, "exited")
    /\ UNCHANGED <<found, quit, starts, named, pool, cache, traffic>>

\* cmd_send_parsed(): a buffer is taken, or the process panics.
SendGet(p) ==
    /\ main[p] = "cmd"
    /\ nmsgs + Cardinality({q \in Procs : main[q] = "enqueue"}) < MaxMsgs
    /\ IF CanGet(MainLcore[p])
       THEN MempoolGet(MainLcore[p]) /\ Goto(p, "enqueue") /\ UNCHANGED <<threads, lost, orphaned>>
       ELSE Die(p, "panic") /\ UNCHANGED <<pool, cache>>
    /\ UNCHANGED <<found, quit, starts, named, traffic>>

\* rte_ring_enqueue() of the message, which a full ring refuses.
SendEnqueue(p) ==
    LET q == Other(p) IN
    /\ main[p] = "enqueue"
    /\ nmsgs' = nmsgs + 1
    /\ IF Len(ring[q]) < RingSize
       THEN ring' = [ring EXCEPT ![q] = Append(@, nmsgs + 1)] /\ Goto(p, "cmd")
       ELSE Goto(p, "discard") /\ UNCHANGED ring
    /\ UNCHANGED <<found, quit, starts, named, threads, buffers, printed>>

\* Mutant: the buffer of a refused message is forgotten.
PutDiscardedForgotten(p) == UNCHANGED <<pool, cache>>

PutDiscarded(p) == MempoolPut(MainLcore[p])

SendDiscard(p) ==
    /\ main[p] = "discard"
    /\ PutDiscarded(p)
    /\ Goto(p, "cmd")
    /\ UNCHANGED <<found, quit, starts, named, threads, lost, orphaned, traffic>>

\* cmd_quit_parsed(); cmdline_interact() also returns at the end of the input,
\* which leaves quit as it is.
EndCommands(p) ==
    /\ main[p] = "cmd"
    /\ \/ quit' = [quit EXCEPT ![p] = TRUE]
       \/ UNCHANGED quit
    /\ Goto(p, "wait")
    /\ UNCHANGED <<found, starts, named, threads, buffers, traffic>>

WaitLcores(p) ==
    /\ main[p] = "wait"
    /\ \A l \in Workers[p] : pc[l] = "done"
    /\ Die(p, "exited")
    /\ UNCHANGED <<found, quit, starts, named, pool, cache, traffic>>

-----------------------------------------------------------------------------
(* lcore_recv() on lcore l.                                                *)

\* Mutant: the loop ignores quit.
QuitSeenNever(l) == FALSE

QuitSeen(l) == quit[ProcOf(l)]

CheckQuit(l) ==
    /\ pc[l] = "top"
    /\ pc' = [pc EXCEPT ![l] = IF QuitSeen(l) THEN "done" ELSE "dequeue"]
    /\ UNCHANGED <<process, named, msg, buffers, traffic>>

\* Mutant: the youngest message of ring q is taken.
OldestLast(q) == Len(q)

Oldest(q) == 1

\* Mutant: an empty ring ends the loop.
AfterEmptyBreak == "done"

AfterEmpty == "top"

Dequeue(l) ==
    LET p == ProcOf(l) IN
    /\ pc[l] = "dequeue"
    /\ IF ring[p] = <<>>
       THEN pc' = [pc EXCEPT ![l] = AfterEmpty] /\ UNCHANGED <<msg, ring>>
       ELSE /\ msg' = [msg EXCEPT ![l] = ring[p][Oldest(ring[p])]]
            /\ ring' = [ring EXCEPT ![p] = RemoveAt(@, Oldest(@))]
            /\ pc' = [pc EXCEPT ![l] = "print"]
    /\ UNCHANGED <<process, named, buffers, nmsgs, printed>>

PrintMsg(l) ==
    LET p == ProcOf(l) IN
    /\ pc[l] = "print"
    /\ printed' = [printed EXCEPT ![p] = Append(@, msg[l])]
    /\ pc' = [pc EXCEPT ![l] = "put"]
    /\ UNCHANGED <<process, named, msg, buffers, ring, nmsgs>>

\* The buffer of the message goes back to the pool.
PutBack(l) ==
    /\ pc[l] = "put"
    /\ MempoolPut(l)
    /\ msg' = [msg EXCEPT ![l] = 0]
    /\ pc' = [pc EXCEPT ![l] = "top"]
    /\ UNCHANGED <<process, named, lost, orphaned, traffic>>

-----------------------------------------------------------------------------
\* The secondary is killed between two of its steps.
Kill ==
    /\ main["sec"] \notin {"off", "exited", "panic"}
    /\ Die("sec", "exited")
    /\ UNCHANGED <<found, quit, starts, named, pool, cache, traffic>>

MainStep(p) ==
    \/ GetObject(p) \/ Launch(p) \/ NewCmdline(p)
    \/ SendEnqueue(p) \/ SendDiscard(p) \/ WaitLcores(p)

Recv(l) == CheckQuit(l) \/ Dequeue(l) \/ PrintMsg(l) \/ PutBack(l)

Next ==
    \/ \E p \in Procs : Start(p) \/ MainStep(p) \/ SendGet(p) \/ EndCommands(p)
    \/ \E l \in AllWorkers : Recv(l)
    \/ Kill

\* Every lcore is a thread that runs; what the user does is not promised.
Spec ==
    /\ Init /\ [][Next]_vars
    /\ \A p \in Procs : WF_vars(MainStep(p))
    /\ \A l \in AllWorkers : WF_vars(Recv(l))

-----------------------------------------------------------------------------
(* Properties.                                                             *)

Running(p) == main[p] \in {"cmdline", "cmd", "enqueue", "discard", "wait"}

\* Every buffer of MSG_POOL is free, in a ring or in one lcore's hand, through
\* discards, quits and restarts; a process that dies takes at most the one
\* buffer of each of its lcores with it.
BuffersAccounted ==
    /\ pool + SumFunction(cache) + Len(ring["pri"]) + Len(ring["sec"])
         + Cardinality(InHand("pri")) + Cardinality(InHand("sec")) + lost = PoolSize
    /\ lost <= starts * Cardinality(LcoresOf("sec")) + Cardinality(Workers["pri"])

\* No lcore uses a shared object that does not exist, however early the
\* secondary was started and whichever creation failed.
ObjectsPresent ==
    /\ \A p \in Procs : Running(p) => named = {Objects[k] : k \in 1 .. Len(Objects)}
    /\ \A l \in AllWorkers : pc[l] # "off" => Running(ProcOf(l))

\* What is under way to p: with one receiving lcore, the message in its hand
\* that it has yet to print, and those in the ring.
UnderWay(p) ==
    LET h == {l \in Workers[p] : pc[l] = "print"}
    IN  (IF h = {} THEN <<>> ELSE <<msg[CHOOSE l \in h : TRUE]>>) \o ring[p]
InFlight == [p \in Procs |-> UnderWay(p)]

\* What one process prints is what the other sent, in order and without
\* repeats; a full ring or a kill may lose messages.
Sent == INSTANCE LossyFifo WITH
    Directions <- Procs, MaxId <- MaxMsgs, last <- nmsgs, out <- printed, chan <- InFlight
ImplementsLossyFifo == Sent!Spec

\* If a process finally runs without being told to quit, every message that was
\* in its ring is printed, those an earlier instance left there too; but for the
\* messages that a worker of an instance that died had taken and not printed.
Delivered ==
    \A p \in Procs : \A n \in 1 .. MaxMsgs :
        <>[](Running(p) /\ ~quit[p]) =>
            ((\E i \in 1 .. Len(ring[p]) : ring[p][i] = n)
                ~> (n \in orphaned \/ \E i \in 1 .. Len(printed[p]) : printed[p][i] = n))

\* After "quit" the process ends, whatever its workers were doing.
QuitEnds ==
    \A p \in Procs : quit[p] ~> main[p] = "exited"
=============================================================================
