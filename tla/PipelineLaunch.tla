--------------------------- MODULE PipelineLaunch ---------------------------
(***************************************************************************)
(* main() of Dpdk-lab/multi_thread/l2fwd-multi-thread/main.c between port  *)
(* initialisation and the wait for the lcores: it creates the ring pairs,  *)
(* takes the lcores without ports as crypto workers, launches them, then   *)
(* the I/O lcores, and runs the I/O loop itself if it has ports.           *)
(***************************************************************************)
EXTENDS Integers, Sequences, FiniteSetsExt

CONSTANTS
    MaxLcore,           \* RTE_MAX_LCORE
    MaxCryptoWorkers,   \* MAX_CRYPTO_WORKERS
    LcoreSets,          \* the sets of lcores EAL may have enabled
    AnyMain             \* whether --main-lcore may name any of them

Lcores == 0 .. MaxLcore - 1

ASSUME LaunchAssumption ==
    /\ MaxLcore \in Nat \ {0} /\ MaxCryptoWorkers \in Nat
    /\ \A L \in LcoreSets : L \subseteq Lcores /\ L # {}
    /\ AnyMain \in BOOLEAN

VARIABLES
    lcores,             \* enabled lcores
    main_core,          \* rte_get_main_lcore()
    pollers,            \* lcores with n_rx_port > 0
    pc,
    i,                  \* loop counter
    l,                  \* lcore cursor (MaxLcore: past the last)
    rings,              \* ring pairs created
    crypto_lcores,      \* nb_crypto_lcores is its length
    role,               \* what runs on a lcore
    worker_id,          \* the argument of its crypto_loop()
    failed              \* lcores rte_eal_remote_launch() failed on

env == <<lcores, main_core, pollers>>
vars == <<env, pc, i, l, rings, crypto_lcores, role, worker_id, failed>>

\* By default the lowest enabled lcore is the main one; start-up gives ports to
\* the lowest enabled lcores.
Init ==
    /\ lcores \in LcoreSets
    /\ main_core \in IF AnyMain THEN lcores ELSE {Min(lcores)}
    /\ pollers \in {{k \in lcores : k <= top} : top \in lcores}
    /\ pc = "rings"
    /\ i = 0
    /\ l = MaxLcore
    /\ rings = 0
    /\ crypto_lcores = <<>>
    /\ role = [k \in Lcores |-> "idle"]
    /\ worker_id = [k \in Lcores |-> 0]
    /\ failed = {}

\* rte_get_next_lcore(k, 1, 0): the next enabled lcore above k but the main
\* one, without wrapping around.
NextWorker(k) ==
    LET above == {n \in lcores : n > k /\ n # main_core}
    IN  IF above = {} THEN MaxLcore ELSE Min(above)

\* One ring pair per turn; a pair that cannot be created ends the program.
CreateRings ==
    /\ pc = "rings"
    /\ \/ /\ i < MaxCryptoWorkers
          /\ rings' = rings + 1 /\ i' = i + 1
          /\ UNCHANGED <<pc, l>>
       \/ /\ i < MaxCryptoWorkers
          /\ pc' = "exit"
          /\ UNCHANGED <<i, l, rings>>
       \/ /\ i = MaxCryptoWorkers
          /\ pc' = "select"
          /\ l' = NextWorker(main_core)
          /\ UNCHANGED <<i, rings>>
    /\ UNCHANGED <<env, crypto_lcores, role, worker_id, failed>>

FreeForCrypto(k) == k \notin pollers

SelectCrypto ==
    /\ pc = "select"
    /\ \/ /\ l # MaxLcore
          /\ crypto_lcores' = IF FreeForCrypto(l) THEN Append(crypto_lcores, l)
                              ELSE crypto_lcores
          /\ l' = NextWorker(l)
          /\ UNCHANGED <<pc, i>>
       \/ /\ l = MaxLcore
          /\ pc' = "workers"
          /\ i' = 0
          /\ UNCHANGED <<l, crypto_lcores>>
    /\ UNCHANGED <<env, rings, role, worker_id, failed>>

\* rte_eal_remote_launch() of f on lcore k, which may fail.
RemoteLaunch(k, f, arg) ==
    \/ /\ role' = [role EXCEPT ![k] = f]
       /\ worker_id' = [worker_id EXCEPT ![k] = arg]
       /\ UNCHANGED failed
    \/ /\ failed' = failed \cup {k}
       /\ UNCHANGED <<role, worker_id>>

\* Mutant: every worker gets the first ring pair.
WorkerArgFirst == 0

WorkerArg == i

\* The crypto workers, if any ("No available lcore for crypto workers").
LaunchCrypto ==
    /\ pc = "workers"
    /\ \/ /\ i < Len(crypto_lcores)
          /\ RemoteLaunch(crypto_lcores[i + 1], "crypto", WorkerArg)
          /\ i' = i + 1
          /\ UNCHANGED <<pc, l>>
       \/ /\ i = Len(crypto_lcores)
          /\ pc' = "io"
          /\ l' = NextWorker(main_core)
          /\ UNCHANGED <<i, role, worker_id, failed>>
    /\ UNCHANGED <<env, rings, crypto_lcores>>

IsCrypto(k) == \E n \in 1 .. Len(crypto_lcores) : crypto_lcores[n] = k

LaunchIo ==
    /\ pc = "io"
    /\ l # MaxLcore
    /\ \/ /\ ~IsCrypto(l) /\ l \in pollers
          /\ RemoteLaunch(l, "io", 0)
       \/ /\ IsCrypto(l) \/ l \notin pollers
          /\ UNCHANGED <<role, worker_id, failed>>
    /\ l' = NextWorker(l)
    /\ UNCHANGED <<env, pc, i, rings, crypto_lcores>>

\* Mutant: the main lcore only waits.
MainPollsNever == FALSE

MainPolls == ~IsCrypto(main_core) /\ main_core \in pollers

RunMain ==
    /\ pc = "io"
    /\ l = MaxLcore
    /\ role' = IF MainPolls THEN [role EXCEPT ![main_core] = "io"] ELSE role
    /\ pc' = "wait"
    /\ UNCHANGED <<env, i, l, rings, crypto_lcores, worker_id, failed>>

Launch == CreateRings \/ SelectCrypto \/ LaunchCrypto \/ LaunchIo \/ RunMain

\* main() is in its own I/O loop or in rte_eal_wait_lcore().
Waiting == pc \in {"wait", "exit"} /\ UNCHANGED vars

Next == Launch \/ Waiting

\* A single thread that never blocks.
Spec == Init /\ [][Next]_vars /\ WF_vars(Launch)

-----------------------------------------------------------------------------
(* Properties.                                                             *)

\* A ring pair has one consumer and one producer on the crypto side: no two
\* workers are given the same id.
OwnRingPair ==
    \A j, k \in Lcores :
        role[j] = "crypto" /\ role[k] = "crypto" /\ worker_id[j] = worker_id[k]
            => j = k

\* When main() starts to wait, every port is polled: a lcore with ports runs the
\* I/O loop, as a remote lcore or as the main one, unless its launch failed.
EveryPollerRuns ==
    pc = "wait" => \A k \in pollers : role[k] = "io" \/ k \in failed

\* Every worker id names one of the ring pairs that were created.
WorkerHasRings ==
    \A k \in Lcores : role[k] = "crypto" => worker_id[k] < rings
=============================================================================
