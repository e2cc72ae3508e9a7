------------------------ MODULE PipelineLaunchProofs ------------------------
(***************************************************************************)
(* Proofs about the launch of the pipeline (PipelineLaunch), for all sets  *)
(* of lcores and any number of ring pairs.  The inductive invariant says   *)
(* how far each loop has come: the crypto lcores are listed in ascending   *)
(* order below the cursor, the id of a worker is its place in the list,    *)
(* and the polling lcores below the cursor have been launched.             *)
(***************************************************************************)
EXTENDS PipelineLaunch, DataLemmas

\* What the variables range over.
TypeOK ==
    /\ lcores \in SUBSET Lcores /\ main_core \in lcores /\ pollers \subseteq lcores
    /\ pc \in {"rings", "select", "workers", "io", "wait", "exit"}
    /\ i \in Nat /\ l \in 0 .. MaxLcore /\ rings \in Nat
    /\ crypto_lcores \in Seq(Lcores)
    /\ role \in [Lcores -> {"idle", "crypto", "io"}]
    /\ worker_id \in [Lcores -> Nat]
    /\ failed \subseteq Lcores

\* The cursor is at an enabled lcore other than the main one, or past the last.
CursorInv == l # MaxLcore => l \in lcores /\ l # main_core

\* The crypto lcores have no ports and are listed in ascending order; while they
\* are selected, all are below the cursor.
SelectInv ==
    /\ pc = "rings" => crypto_lcores = <<>>
    /\ \A n \in 1 .. Len(crypto_lcores) :
          /\ crypto_lcores[n] \in lcores \ pollers /\ crypto_lcores[n] # main_core
          /\ pc = "select" => crypto_lcores[n] < l
          /\ \A m \in 1 .. Len(crypto_lcores) : m < n => crypto_lcores[m] < crypto_lcores[n]

\* Workers are launched from the list, each with its place in the list as id.
WorkerInv ==
    /\ pc \in {"rings", "select"} => \A k \in Lcores : role[k] = "idle"
    /\ pc = "workers" => i <= Len(crypto_lcores)
    /\ \A k \in Lcores : role[k] = "crypto" =>
          /\ worker_id[k] + 1 \in 1 .. Len(crypto_lcores)
          /\ crypto_lcores[worker_id[k] + 1] = k
          /\ pc = "workers" => worker_id[k] < i

\* Remote lcores that poll are launched in ascending order, the main one last.
PollerInv ==
    \A k \in Lcores : role[k] = "io" =>
        /\ pc \notin {"rings", "select", "workers"}
        /\ pc = "io" => k < l /\ k # main_core

IInv == TypeOK /\ CursorInv /\ SelectInv /\ WorkerInv /\ PollerInv

-----------------------------------------------------------------------------
\* Lcores are numbered.
LEMMA LcoresAreNats == Lcores \in SUBSET Nat
  BY LaunchAssumption DEF Lcores

\* rte_get_next_lcore() goes up, skips the main lcore and no other.
LEMMA NextWorkerFacts ==
    ASSUME TypeOK, NEW k \in 0 .. MaxLcore - 1
    PROVE  /\ NextWorker(k) \in 0 .. MaxLcore /\ k < NextWorker(k)
           /\ NextWorker(k) # MaxLcore =>
                 NextWorker(k) \in lcores /\ NextWorker(k) # main_core
           /\ \A n \in lcores : n > k /\ n # main_core => NextWorker(k) <= n
  <1> DEFINE above == {n \in lcores : n > k /\ n # main_core}
  <1>1. above \in SUBSET Nat /\ above \subseteq Lcores /\ MaxLcore \in Nat
    <2>1. above \subseteq Lcores
      BY DEF TypeOK
    <2> QED BY <2>1, LcoresAreNats, LaunchAssumption
  <1>2. CASE above = {}
    BY <1>1, <1>2 DEF NextWorker, TypeOK
  <1>3. CASE above # {}
    <2>1. Min(above) \in above /\ \A n \in above : Min(above) <= n
      BY <1>1, <1>3, MinOfNats
    <2>2. NextWorker(k) = Min(above)
      BY <1>3 DEF NextWorker
    <2>3. Min(above) \in 0 .. MaxLcore
      BY <1>1, <2>1 DEF Lcores
    <2> QED BY <2>1, <2>2, <2>3
  <1> QED BY <1>2, <1>3

\* The invariant holds initially.
LEMMA InitInv == ASSUME Init PROVE IInv
  <1>1. PICK L \in LcoreSets : lcores = L
    BY DEF Init
  <1>2. lcores \in SUBSET Lcores /\ lcores # {} /\ lcores \in SUBSET Nat
    <2>1. lcores \in SUBSET Lcores /\ lcores # {}
      BY <1>1, LaunchAssumption
    <2> QED BY <2>1, LcoresAreNats
  <1>3. main_core \in lcores
    BY <1>2, MinOfNats DEF Init
  <1>4. TypeOK
    BY <1>2, <1>3, LaunchAssumption, EmptySeq DEF Init, TypeOK
  <1>5. CursorInv /\ SelectInv /\ WorkerInv /\ PollerInv
    BY EmptySeq DEF Init, CursorInv, SelectInv, WorkerInv, PollerInv
  <1> QED BY <1>4, <1>5 DEF IInv

\* Creating ring pairs keeps the invariant.
LEMMA CreateRingsStep == ASSUME IInv, CreateRings PROVE IInv'
  <1>1. main_core \in 0 .. MaxLcore - 1
    BY DEF IInv, TypeOK, Lcores
  <1>2. NextWorker(main_core) \in 0 .. MaxLcore
        /\ (NextWorker(main_core) # MaxLcore =>
              NextWorker(main_core) \in lcores /\ NextWorker(main_core) # main_core)
    BY <1>1, NextWorkerFacts DEF IInv
  <1>3. TypeOK'
    BY <1>2 DEF IInv, TypeOK, CreateRings, env
  <1>4. CursorInv'
    BY <1>2 DEF IInv, CursorInv, CreateRings, env
  <1>5. SelectInv'
    <2>1. crypto_lcores = <<>> /\ crypto_lcores' = <<>> /\ Len(<<>>) = 0
      BY EmptySeq DEF IInv, SelectInv, CreateRings
    <2> QED BY <2>1 DEF SelectInv
  <1>6. WorkerInv' /\ PollerInv'
    BY DEF IInv, WorkerInv, PollerInv, CreateRings
  <1> QED BY <1>3, <1>4, <1>5, <1>6 DEF IInv

\* Selecting the crypto lcores keeps the invariant.
LEMMA SelectCryptoStep == ASSUME IInv, SelectCrypto PROVE IInv'
  <1>0. /\ pc = "select" /\ UNCHANGED <<lcores, main_core, pollers, rings, role, worker_id, failed>>
    BY DEF SelectCrypto, env
  <1>1. CASE l = MaxLcore
    <2>1. pc' = "workers" /\ i' = 0 /\ UNCHANGED <<l, crypto_lcores>>
      BY <1>1 DEF SelectCrypto
    <2>2. TypeOK'
      BY <1>0, <2>1 DEF IInv, TypeOK
    <2>3. CursorInv' /\ SelectInv'
      BY <1>0, <2>1 DEF IInv, CursorInv, SelectInv
    <2>4. WorkerInv' /\ PollerInv'
      <3>1. Len(crypto_lcores) \in Nat
        BY LenProperties DEF IInv, TypeOK
      <3> QED BY <1>0, <2>1, <3>1 DEF IInv, WorkerInv, PollerInv
    <2> QED BY <2>2, <2>3, <2>4 DEF IInv
  <1>2. CASE l # MaxLcore
    <2>1. /\ pc' = pc /\ i' = i /\ l' = NextWorker(l)
          /\ crypto_lcores' = IF l \notin pollers THEN Append(crypto_lcores, l)
                              ELSE crypto_lcores
      BY <1>0, <1>2 DEF SelectCrypto, FreeForCrypto
    <2>2. l \in 0 .. MaxLcore - 1 /\ l \in lcores /\ l # main_core /\ l \in Lcores
      BY <1>2 DEF IInv, TypeOK, CursorInv, Lcores
    <2>3. /\ l' \in 0 .. MaxLcore /\ l < l'
          /\ l' # MaxLcore => l' \in lcores /\ l' # main_core
      BY <2>1, <2>2, NextWorkerFacts DEF IInv
    <2>4. crypto_lcores \in Seq(Lcores)
      BY DEF IInv, TypeOK
    <2>5. /\ Append(crypto_lcores, l) \in Seq(Lcores)
          /\ Len(crypto_lcores) \in Nat
          /\ Len(Append(crypto_lcores, l)) = Len(crypto_lcores) + 1
          /\ \A n \in 1 .. Len(crypto_lcores) : Append(crypto_lcores, l)[n] = crypto_lcores[n]
          /\ Append(crypto_lcores, l)[Len(crypto_lcores) + 1] = l
      BY <2>2, <2>4, AppendProperties, LenProperties
    <2>6. TypeOK'
      BY <1>0, <2>1, <2>3, <2>5 DEF IInv, TypeOK
    <2>7. CursorInv'
      BY <1>0, <2>3 DEF CursorInv
    <2>8. SelectInv'
      <3>1. ASSUME NEW n \in 1 .. Len(crypto_lcores)
            PROVE  /\ crypto_lcores[n] \in lcores \ pollers /\ crypto_lcores[n] # main_core
                   /\ crypto_lcores[n] < l /\ crypto_lcores[n] < l'
                   /\ \A m \in 1 .. Len(crypto_lcores) :
                         m < n => crypto_lcores[m] < crypto_lcores[n]
        <4>1. crypto_lcores[n] \in Lcores
          BY <2>4, ElementOfSeq
        <4>2. /\ crypto_lcores[n] \in lcores \ pollers /\ crypto_lcores[n] # main_core
              /\ crypto_lcores[n] < l
              /\ \A m \in 1 .. Len(crypto_lcores) :
                    m < n => crypto_lcores[m] < crypto_lcores[n]
          BY <1>0 DEF IInv, SelectInv
        <4> QED BY <4>1, <4>2, <2>2, <2>3, LaunchAssumption DEF Lcores
      <3>2. CASE l \in pollers
        BY <1>0, <2>1, <3>1, <3>2 DEF SelectInv
      <3>3. CASE l \notin pollers
        <4> DEFINE s == Append(crypto_lcores, l)
        <4>1. crypto_lcores' = s
          BY <2>1, <3>3
        <4>2. ASSUME NEW n \in 1 .. Len(s)
              PROVE  /\ s[n] \in lcores \ pollers /\ s[n] # main_core /\ s[n] < l'
                     /\ \A m \in 1 .. Len(s) : m < n => s[m] < s[n]
          <5>1. CASE n \in 1 .. Len(crypto_lcores)
            <6>1. \A m \in 1 .. Len(s) : m < n => m \in 1 .. Len(crypto_lcores)
              BY <2>5, <5>1
            <6> QED BY <2>5, <3>1, <5>1, <6>1
          <5>2. CASE n = Len(crypto_lcores) + 1
            <6>1. \A m \in 1 .. Len(s) : m < n => m \in 1 .. Len(crypto_lcores)
              BY <2>5, <5>2
            <6> QED BY <2>2, <2>3, <2>5, <3>1, <3>3, <5>2, <6>1
          <5> QED BY <2>5, <5>1, <5>2
        <4> HIDE DEF s
        <4> QED BY <1>0, <2>1, <4>1, <4>2 DEF SelectInv
      <3> QED BY <3>2, <3>3
    <2>9. WorkerInv' /\ PollerInv'
      BY <1>0, <2>1 DEF IInv, WorkerInv, PollerInv
    <2> QED BY <2>6, <2>7, <2>8, <2>9 DEF IInv
  <1> QED BY <1>1, <1>2

\* A launch changes one lcore's role, or records its failure.
LEMMA RemoteLaunchFacts ==
    ASSUME TypeOK, NEW k \in Lcores, NEW f \in {"crypto", "io"}, NEW arg \in Nat,
           RemoteLaunch(k, f, arg)
    PROVE  /\ role' \in [Lcores -> {"idle", "crypto", "io"}]
           /\ worker_id' \in [Lcores -> Nat] /\ failed' \subseteq Lcores
           /\ failed \subseteq failed'
           /\ \A j \in Lcores : j # k => role'[j] = role[j] /\ worker_id'[j] = worker_id[j]
           /\ \/ role'[k] = f /\ worker_id'[k] = arg
              \/ role'[k] = role[k] /\ worker_id'[k] = worker_id[k] /\ k \in failed'
  BY DEF TypeOK, RemoteLaunch

\* Launching the workers keeps the invariant.
LEMMA LaunchCryptoStep == ASSUME IInv, LaunchCrypto PROVE IInv'
  <1>0. /\ pc = "workers"
        /\ UNCHANGED <<lcores, main_core, pollers, rings, crypto_lcores>>
    BY DEF LaunchCrypto, env
  <1>1. /\ i \in Nat /\ Len(crypto_lcores) \in Nat /\ i <= Len(crypto_lcores)
    BY <1>0, LenProperties DEF IInv, TypeOK, WorkerInv
  <1>2. CASE i = Len(crypto_lcores)
    <2>1. /\ pc' = "io" /\ l' = NextWorker(main_core)
          /\ UNCHANGED <<i, role, worker_id, failed>>
      BY <1>1, <1>2 DEF LaunchCrypto
    <2>2. main_core \in 0 .. MaxLcore - 1
      BY DEF IInv, TypeOK, Lcores
    <2>3. /\ l' \in 0 .. MaxLcore
          /\ l' # MaxLcore => l' \in lcores /\ l' # main_core
      BY <2>1, <2>2, NextWorkerFacts DEF IInv
    <2>4. TypeOK'
      BY <1>0, <2>1, <2>3 DEF IInv, TypeOK
    <2>5. CursorInv' /\ SelectInv'
      BY <1>0, <2>1, <2>3 DEF IInv, CursorInv, SelectInv
    <2>6. WorkerInv' /\ PollerInv'
      BY <1>0, <2>1 DEF IInv, WorkerInv, PollerInv
    <2> QED BY <2>4, <2>5, <2>6 DEF IInv
  <1>3. CASE i # Len(crypto_lcores)
    <2> DEFINE k == crypto_lcores[i + 1]
    <2>1. /\ RemoteLaunch(k, "crypto", i) /\ i' = i + 1 /\ UNCHANGED <<pc, l>>
      BY <1>3 DEF LaunchCrypto, WorkerArg
    <2>2. i + 1 \in 1 .. Len(crypto_lcores)
      BY <1>1, <1>3
    <2>3. k \in Lcores
      BY <2>2, ElementOfSeq DEF IInv, TypeOK
    <2>4. k = crypto_lcores[i + 1]
      OBVIOUS
    <2> HIDE DEF k
    <2>5. /\ role' \in [Lcores -> {"idle", "crypto", "io"}]
          /\ worker_id' \in [Lcores -> Nat] /\ failed' \subseteq Lcores
          /\ \A j \in Lcores : j # k => role'[j] = role[j] /\ worker_id'[j] = worker_id[j]
          /\ \/ role'[k] = "crypto" /\ worker_id'[k] = i
             \/ role'[k] = role[k] /\ worker_id'[k] = worker_id[k] /\ k \in failed'
      BY <1>1, <2>1, <2>3, RemoteLaunchFacts DEF IInv
    <2>6. TypeOK'
      BY <1>0, <1>1, <2>1, <2>5 DEF IInv, TypeOK
    <2>7. CursorInv' /\ SelectInv'
      BY <1>0, <2>1 DEF IInv, CursorInv, SelectInv
    <2>8. WorkerInv'
      <3>1. i' <= Len(crypto_lcores')
        BY <1>0, <2>1, <2>2
      <3>2. ASSUME NEW j \in Lcores, role'[j] = "crypto"
            PROVE  /\ worker_id'[j] + 1 \in 1 .. Len(crypto_lcores)
                   /\ crypto_lcores[worker_id'[j] + 1] = j
                   /\ worker_id'[j] < i + 1
        <4>1. CASE role[j] = "crypto" /\ worker_id'[j] = worker_id[j]
          <5>1. /\ worker_id[j] + 1 \in 1 .. Len(crypto_lcores)
                /\ crypto_lcores[worker_id[j] + 1] = j
                /\ worker_id[j] < i
            BY <1>0, <4>1 DEF IInv, WorkerInv
          <5>2. worker_id[j] \in Nat
            BY DEF IInv, TypeOK
          <5> QED BY <1>1, <4>1, <5>1, <5>2
        <4>2. CASE j = k /\ worker_id'[j] = i
          BY <1>1, <2>2, <2>4, <4>2
        <4> QED BY <2>5, <3>2, <4>1, <4>2
      <3> QED BY <1>0, <2>1, <3>1, <3>2 DEF WorkerInv
    <2>9. PollerInv'
      BY <1>0, <2>1, <2>5 DEF IInv, PollerInv
    <2> QED BY <2>6, <2>7, <2>8, <2>9 DEF IInv
  <1> QED BY <1>2, <1>3

\* Launching the I/O lcores keeps the invariant.
LEMMA LaunchIoStep == ASSUME IInv, LaunchIo PROVE IInv'
  <1>0. /\ pc = "io" /\ l # MaxLcore /\ l' = NextWorker(l)
        /\ UNCHANGED <<lcores, main_core, pollers, pc, i, rings, crypto_lcores>>
    BY DEF LaunchIo, env
  <1>1. l \in 0 .. MaxLcore - 1 /\ l \in lcores /\ l # main_core /\ l \in Lcores
    BY <1>0 DEF IInv, TypeOK, CursorInv, Lcores
  <1>2. /\ l' \in 0 .. MaxLcore /\ l < l'
        /\ l' # MaxLcore => l' \in lcores /\ l' # main_core
    BY <1>0, <1>1, NextWorkerFacts DEF IInv
  <1>3. /\ role' \in [Lcores -> {"idle", "crypto", "io"}]
        /\ worker_id' \in [Lcores -> Nat] /\ failed' \subseteq Lcores
        /\ \A j \in Lcores : j # l => role'[j] = role[j] /\ worker_id'[j] = worker_id[j]
        /\ \/ role'[l] = "io"
           \/ role'[l] = role[l] /\ worker_id'[l] = worker_id[l]
    <2>1. CASE RemoteLaunch(l, "io", 0)
      BY <1>1, <2>1, RemoteLaunchFacts DEF IInv
    <2>2. CASE UNCHANGED <<role, worker_id, failed>>
      BY <2>2 DEF IInv, TypeOK
    <2> QED BY <2>1, <2>2 DEF LaunchIo
  <1>4. TypeOK'
    BY <1>0, <1>2, <1>3 DEF IInv, TypeOK
  <1>5. CursorInv' /\ SelectInv'
    BY <1>0, <1>2 DEF IInv, CursorInv, SelectInv
  <1>6. WorkerInv'
    <2>1. \A k \in Lcores : role'[k] = "crypto" =>
             role[k] = "crypto" /\ worker_id'[k] = worker_id[k]
      BY <1>3
    <2> QED BY <1>0, <2>1 DEF IInv, WorkerInv
  <1>7. PollerInv'
    <2> SUFFICES ASSUME NEW k \in Lcores, role'[k] = "io" PROVE k < l' /\ k # main_core
      BY <1>0 DEF PollerInv
    <2>1. CASE k = l
      BY <1>1, <1>2, <2>1
    <2>2. CASE k # l
      <3>1. k < l /\ k # main_core
        BY <1>0, <1>3, <2>2 DEF IInv, PollerInv
      <3>2. k \in Nat /\ l \in Nat /\ l' \in Nat
        BY <1>1, <1>2, LaunchAssumption DEF Lcores
      <3> QED BY <1>2, <3>1, <3>2
    <2> QED BY <2>1, <2>2
  <1> QED BY <1>4, <1>5, <1>6, <1>7 DEF IInv

\* Running the I/O loop on the main lcore keeps the invariant.
LEMMA RunMainStep == ASSUME IInv, RunMain PROVE IInv'
  <1>0. /\ pc = "io" /\ pc' = "wait"
        /\ UNCHANGED <<lcores, main_core, pollers, i, l, rings, crypto_lcores, worker_id, failed>>
    BY DEF RunMain, env
  <1>1. main_core \in Lcores
    BY DEF IInv, TypeOK
  <1>2. /\ role' \in [Lcores -> {"idle", "crypto", "io"}]
        /\ \A k \in Lcores : role'[k] = "io" \/ role'[k] = role[k]
    BY <1>1 DEF RunMain, IInv, TypeOK
  <1>3. TypeOK'
    BY <1>0, <1>2 DEF IInv, TypeOK
  <1>4. CursorInv' /\ SelectInv'
    BY <1>0 DEF IInv, CursorInv, SelectInv
  <1>5. WorkerInv' /\ PollerInv'
    BY <1>0, <1>2 DEF IInv, WorkerInv, PollerInv
  <1> QED BY <1>3, <1>4, <1>5 DEF IInv

\* Every step keeps the invariant.
LEMMA NextInv == ASSUME IInv, [Next]_vars PROVE IInv'
  <1>1. CASE UNCHANGED vars
    BY <1>1 DEF vars, env, IInv, TypeOK, CursorInv, SelectInv, WorkerInv, PollerInv
  <1> QED BY <1>1, CreateRingsStep, SelectCryptoStep, LaunchCryptoStep, LaunchIoStep, RunMainStep
          DEF Next, Launch, Waiting

\* IInv is an invariant of the launch.
THEOREM Invariance == Spec => []IInv
  BY InitInv, NextInv, PTL DEF Spec

\* A ring pair belongs to one worker, however many lcores there are: the id is
\* the place in a list, and no launch, failed or not, gives it away twice.
THEOREM RingPairsOwned == Spec => []OwnRingPair
  <1>1. IInv => OwnRingPair
    BY DEF IInv, WorkerInv, OwnRingPair
  <1> QED BY <1>1, Invariance, PTL

-----------------------------------------------------------------------------
(* What is launched stays launched.                                        *)

\* A lcore that runs something is never launched again: rte_eal_remote_launch()
\* would find it busy.
NeverRelaunched ==
    [][\A k \in Lcores : role[k] # "idle" => role'[k] = role[k]]_vars

\* The three loops of main() give each lcore one role at most.
THEOREM LaunchesOnce == Spec => NeverRelaunched
  <1>1. ASSUME IInv, [Next]_vars, NEW k \in Lcores, role[k] # "idle" PROVE role'[k] = role[k]
    <2>1. role[k] \in {"crypto", "io"}
      BY <1>1 DEF IInv, TypeOK
    <2>2. CASE LaunchCrypto
      <3>1. pc = "workers" /\ role[k] = "crypto"
        BY <1>1, <2>1, <2>2 DEF LaunchCrypto, IInv, PollerInv
      <3>2. /\ worker_id[k] + 1 \in 1 .. Len(crypto_lcores) /\ worker_id[k] < i
            /\ crypto_lcores[worker_id[k] + 1] = k
        BY <1>1, <3>1 DEF IInv, WorkerInv
      <3>3. CASE i < Len(crypto_lcores)
        <4>1. i \in Nat /\ worker_id[k] \in Nat /\ Len(crypto_lcores) \in Nat
          BY <1>1, LenProperties DEF IInv, TypeOK
        <4>2. i + 1 \in 1 .. Len(crypto_lcores) /\ worker_id[k] + 1 < i + 1
          BY <3>2, <3>3, <4>1
        <4>3. k < crypto_lcores[i + 1]
          BY <1>1, <3>2, <4>2 DEF IInv, SelectInv
        <4>4. k # crypto_lcores[i + 1]
          BY <4>3, LaunchAssumption DEF Lcores
        <4>5. crypto_lcores[i + 1] \in Lcores
          BY <1>1, <4>2, ElementOfSeq DEF IInv, TypeOK
        <4>6. RemoteLaunch(crypto_lcores[i + 1], "crypto", i)
          BY <2>2, <3>3, <4>1 DEF LaunchCrypto, WorkerArg
        <4> QED BY <1>1, <4>1, <4>4, <4>5, <4>6, RemoteLaunchFacts DEF IInv
      <3>4. CASE ~(i < Len(crypto_lcores))
        BY <2>2, <3>4 DEF LaunchCrypto
      <3> QED BY <3>3, <3>4
    <2>3. CASE LaunchIo
      <3>1. pc = "io" /\ l \in Lcores
        BY <1>1, <2>3 DEF LaunchIo, IInv, CursorInv, TypeOK
      <3>2. CASE k = l /\ ~IsCrypto(l)
        <4>1. role[k] = "io"
          BY <1>1, <2>1, <3>2 DEF IInv, WorkerInv, IsCrypto
        <4>2. k < l
          BY <1>1, <3>1, <4>1 DEF IInv, PollerInv
        <4> QED BY <3>1, <3>2, <4>2, LaunchAssumption DEF Lcores
      <3>3. CASE k # l /\ RemoteLaunch(l, "io", 0)
        BY <1>1, <3>1, <3>3, RemoteLaunchFacts DEF IInv
      <3>4. CASE UNCHANGED role
        BY <3>4
      <3> QED BY <2>3, <3>2, <3>3, <3>4 DEF LaunchIo
    <2>4. CASE RunMain
      <3>1. CASE MainPolls
        <4>1. k # main_core
          BY <1>1, <2>1, <2>4, <3>1 DEF RunMain, MainPolls, IInv, WorkerInv, PollerInv, IsCrypto
        <4> QED BY <1>1, <2>4, <4>1 DEF RunMain, IInv, TypeOK
      <3>2. CASE ~MainPolls
        BY <2>4, <3>2 DEF RunMain
      <3> QED BY <3>1, <3>2
    <2> QED BY <1>1, <2>2, <2>3, <2>4
            DEF Next, Launch, Waiting, CreateRings, SelectCrypto, vars
  <1>2. IInv /\ [Next]_vars => [\A k \in Lcores : role[k] # "idle" => role'[k] = role[k]]_vars
    BY <1>1
  <1> QED BY <1>2, Invariance, PTL DEF Spec, NeverRelaunched

-----------------------------------------------------------------------------
(* Who polls, when the lowest lcore is the main one.                       *)

\* The main lcore is the lowest; the lcores with ports below the cursor of the
\* last loop have been launched, and at the end the main one polls as well.
LaunchedInv ==
    /\ \A k \in lcores : main_core <= k
    /\ pc = "io" => \A k \in pollers : k < l /\ k # main_core => role[k] = "io" \/ k \in failed
    /\ EveryPollerRuns

\* By default main() finds the lowest lcore as the main one.
LEMMA LaunchedInit == ASSUME AnyMain = FALSE, Init PROVE LaunchedInv
  <1>1. PICK L \in LcoreSets : lcores = L
    BY DEF Init
  <1>2. lcores \in SUBSET Nat /\ lcores # {}
    <2>1. lcores \in SUBSET Lcores /\ lcores # {}
      BY <1>1, LaunchAssumption
    <2> QED BY <2>1, LcoresAreNats
  <1>3. \A k \in lcores : main_core <= k
    BY <1>2, MinOfNats DEF Init
  <1> QED BY <1>3 DEF Init, LaunchedInv, EveryPollerRuns

\* Every step keeps that.
LEMMA LaunchedNext ==
    ASSUME IInv, IInv', LaunchedInv, [Next]_vars
    PROVE  LaunchedInv'
  <1>0. UNCHANGED <<lcores, main_core, pollers>>
    BY DEF Next, Launch, Waiting, CreateRings, SelectCrypto, LaunchCrypto, LaunchIo, RunMain,
           env, vars
  <1>1. \A k \in lcores' : main_core' <= k
    BY <1>0 DEF LaunchedInv
  <1>2. CASE pc' \notin {"io", "wait"}
    BY <1>1, <1>2 DEF LaunchedInv, EveryPollerRuns
  <1>3. \A k \in pollers : k \in lcores /\ k \in Lcores /\ k \in Nat /\ k < MaxLcore
    BY LaunchAssumption DEF IInv, TypeOK, Lcores
  <1>4. MaxLcore \in Nat /\ l \in 0 .. MaxLcore /\ main_core \in Lcores /\ main_core \in Nat
    BY LaunchAssumption DEF IInv, TypeOK, Lcores
  <1>5. CASE LaunchCrypto /\ pc' = "io"
    <2>1. l' = NextWorker(main_core) /\ main_core \in 0 .. MaxLcore - 1
      BY <1>5, <1>4 DEF LaunchCrypto, Lcores
    <2>2. \A k \in lcores : k > main_core /\ k # main_core => l' <= k
      BY <2>1, NextWorkerFacts DEF IInv
    <2>3. l' \in 0 .. MaxLcore
      BY DEF IInv, TypeOK
    <2>4. ASSUME NEW k \in pollers, k < l', k # main_core PROVE FALSE
      <3>1. main_core <= k
        BY <1>3, <2>4 DEF LaunchedInv
      <3> QED BY <1>3, <1>4, <2>2, <2>3, <2>4, <3>1
    <2> QED BY <1>0, <1>1, <1>5, <2>4 DEF LaunchedInv, EveryPollerRuns
  <1>6. CASE LaunchIo
    <2>0. pc = "io" /\ pc' = "io" /\ l' = NextWorker(l) /\ l # MaxLcore
      BY <1>6 DEF LaunchIo
    <2>1. l \in Lcores /\ l \in 0 .. MaxLcore - 1 /\ l \in Nat
      BY <1>4, <2>0 DEF Lcores
    <2>2. \A k \in lcores : k > l /\ k # main_core => l' <= k
      BY <2>0, <2>1, NextWorkerFacts DEF IInv
    <2>3. l' \in 0 .. MaxLcore
      BY DEF IInv, TypeOK
    <2>4. ASSUME NEW k \in pollers, k < l', k # main_core
          PROVE  role'[k] = "io" \/ k \in failed'
      <3>1. k <= l
        BY <1>3, <1>4, <2>1, <2>2, <2>3, <2>4
      <3>2. CASE k = l
        <4>1. ~IsCrypto(l)
          BY <3>2 DEF IsCrypto, IInv, SelectInv
        <4>2. RemoteLaunch(l, "io", 0)
          BY <1>6, <3>2, <4>1 DEF LaunchIo
        <4> QED BY <2>1, <3>2, <4>2 DEF RemoteLaunch, IInv, TypeOK
      <3>3. CASE k # l
        <4>1. k < l
          BY <1>3, <2>1, <3>1, <3>3
        <4>2. role[k] = "io" \/ k \in failed
          BY <2>0, <2>4, <4>1 DEF LaunchedInv
        <4>3. CASE RemoteLaunch(l, "io", 0)
          BY <1>3, <2>1, <3>3, <4>2, <4>3, RemoteLaunchFacts DEF IInv
        <4>4. CASE UNCHANGED <<role, failed>>
          BY <4>2, <4>4
        <4> QED BY <1>6, <4>3, <4>4 DEF LaunchIo
      <3> QED BY <3>2, <3>3
    <2> QED BY <1>0, <1>1, <2>0, <2>4 DEF LaunchedInv, EveryPollerRuns
  <1>7. CASE RunMain
    <2>0. pc = "io" /\ pc' = "wait" /\ l = MaxLcore /\ failed' = failed
      BY <1>7 DEF RunMain
    <2>1. ASSUME NEW k \in pollers PROVE role'[k] = "io" \/ k \in failed'
      <3>1. CASE k = main_core
        <4>1. MainPolls
          BY <3>1 DEF MainPolls, IsCrypto, IInv, SelectInv
        <4> QED BY <1>4, <1>7, <3>1, <4>1 DEF RunMain, IInv, TypeOK
      <3>2. CASE k # main_core
        <4>1. role[k] = "io" \/ k \in failed
          BY <1>3, <2>0, <3>2 DEF LaunchedInv
        <4> QED BY <1>3, <1>7, <2>0, <3>2, <4>1 DEF RunMain, IInv, TypeOK
      <3> QED BY <3>1, <3>2
    <2> QED BY <1>0, <1>1, <2>0, <2>1 DEF LaunchedInv, EveryPollerRuns
  <1>8. CASE UNCHANGED vars
    BY <1>0, <1>1, <1>8 DEF LaunchedInv, EveryPollerRuns, vars, env
  <1>9. CASE CreateRings \/ SelectCrypto \/ (LaunchCrypto /\ pc' # "io")
    <2>1. pc' \notin {"io", "wait"}
      BY <1>9 DEF CreateRings, SelectCrypto, LaunchCrypto
    <2> QED BY <1>2, <2>1
  <1> QED BY <1>5, <1>6, <1>7, <1>8, <1>9 DEF Next, Launch, Waiting

\* With the default main lcore every port is polled when main() starts to wait,
\* unless a launch failed.  Without the hypothesis the run launch_any_main finds
\* a counterexample.
THEOREM PollersRun ==
    ASSUME AnyMain = FALSE
    PROVE  Spec => []EveryPollerRuns
  <1>1. Init => IInv /\ LaunchedInv
    BY InitInv, LaunchedInit
  <1>2. IInv /\ LaunchedInv /\ [Next]_vars => (IInv /\ LaunchedInv)'
    BY NextInv, LaunchedNext
  <1>3. LaunchedInv => EveryPollerRuns
    BY DEF LaunchedInv
  <1> QED BY <1>1, <1>2, <1>3, PTL DEF Spec
=============================================================================
