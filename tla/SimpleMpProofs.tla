--------------------------- MODULE SimpleMpProofs ---------------------------
(***************************************************************************)
(* Proofs about the two processes of simple_mp, for any number of          *)
(* receiving lcores, any size of ring, pool and cache, and any number of   *)
(* starts of the secondary. The inductive invariant IInv says what main()  *)
(* has found before it runs its workers, that a worker has a buffer        *)
(* from the dequeue to the put, where every buffer is, and how many the    *)
(* processes that ended took along: at most one for each lcore of each     *)
(* start. From it follows when a send command panics: only when what the   *)
(* rings and caches cannot hold has gone with processes that ended. The    *)
(* last part is the refinement: with one receiving lcore in each process,  *)
(* what is printed comes off a lossy first-in first-out channel.           *)
(***************************************************************************)
EXTENDS SimpleMp, DataLemmas

\* main() has not started or has ended.
Gone == {"off", "exited", "panic"}

\* Where main() may be.
Stages == Gone \cup {"objects", "cmdline", "cmd", "enqueue", "discard", "wait"}

\* What the variables range over.
TypeOK ==
    /\ main \in [Procs -> Stages] /\ quit \in [Procs -> BOOLEAN]
    /\ found \in [Procs -> Seq(BOOLEAN)]
    /\ pc \in [AllWorkers -> {"off", "top", "dequeue", "print", "put", "done"}]
    /\ msg \in [AllWorkers -> Nat]
    /\ ring \in [Procs -> Seq(Nat \ {0})]
    /\ pool \in Nat /\ cache \in [Lcores -> Nat]
    /\ nmsgs \in Nat /\ starts \in Nat /\ lost \in Nat
    /\ printed \in [Procs -> Seq(Nat)]

\* The shared objects that have a name, and those main() found.
ObjectInv ==
    /\ named \subseteq {Objects[k] : k \in 1 .. Len(Objects)}
    /\ \A p \in Procs :
          /\ Len(found[p]) <= Len(Objects)
          /\ \A k \in 1 .. Len(found[p]) : found[p][k] => Objects[k] \in named
          /\ Running(p) => named = {Objects[k] : k \in 1 .. Len(Objects)}

\* A worker runs only while its main() does, and has a buffer until it has put
\* it back.
ThreadInv ==
    /\ \A p \in Procs : \A l \in Workers[p] : pc[l] # "off" => Running(p)
    /\ \A l \in AllWorkers : msg[l] # 0 <=> pc[l] \in {"print", "put"}

\* The starts of the secondary that have ended.
Ended == IF main["sec"] \in Gone THEN starts ELSE starts - 1

\* What the primary took along when it ended.
PriTook == IF main["pri"] \in Gone THEN Cardinality(Workers["pri"]) ELSE 0

\* An ended secondary took at most one buffer of each lcore along; the main
\* lcore of the primary has none when the process ends.
LostInv ==
    /\ main["sec"] \notin Gone => starts > 0
    /\ lost <= Ended * Cardinality(LcoresOf("sec")) + PriTook
    /\ main["pri"] = "off" => lost = 0 /\ starts = 0

\* The buffers in the pool and its caches, in a ring, in the hands of a process.
Free == pool + SumFunction(cache)
InRing(p) == Len(ring[p])
Held(p) == Cardinality(InHand(p))

\* Every buffer is somewhere.
Conserved ==
    Free + InRing("pri") + InRing("sec") + Held("pri") + Held("sec") + lost = PoolSize

\* The inductive invariant.
IInv == TypeOK /\ ObjectInv /\ ThreadInv /\ LostInv /\ Conserved

-----------------------------------------------------------------------------
(* The lcores.                                                             *)

\* There are two processes.
LEMMA TwoProcs ==
    /\ "pri" \in Procs /\ "sec" \in Procs
    /\ Other("pri") = "sec" /\ Other("sec") = "pri"
    /\ \A p \in Procs : Other(p) \in Procs /\ Other(p) # p
  <1>1. "pri" \in Procs /\ "sec" \in Procs /\ "pri" # "sec"
    BY DEF Procs
  <1>2. \A p \in Procs : Other(p) \in Procs /\ Other(p) # p
    <2> TAKE p \in Procs
    <2>1. \E q \in Procs : q # p
      BY <1>1
    <2> QED BY <2>1 DEF Other
  <1> QED BY <1>1, <1>2 DEF Procs

\* A receiving lcore belongs to one process, and is not its main lcore.
LEMMA Threads ==
    ASSUME NEW p \in Procs, NEW l \in Workers[p]
    PROVE  /\ l \in AllWorkers /\ l \in LcoresOf(p) /\ l \in Lcores
           /\ ProcOf(l) = p /\ l # MainLcore[p]
           /\ \A q \in Procs : q # p => l \notin LcoresOf(q)
  <1>1. l \in LcoresOf(p)
    BY DEF LcoresOf
  <1>2. \A q \in Procs : q # p => l \notin LcoresOf(q)
    BY <1>1, LcoreAssumption DEF Procs
  <1>3. ProcOf(l) = p
    BY <1>1, <1>2 DEF ProcOf
  <1> QED BY <1>1, <1>2, <1>3, LcoreAssumption DEF AllWorkers, Lcores, Procs

\* Every receiving lcore belongs to a process.
LEMMA ThreadOf ==
    ASSUME NEW l \in AllWorkers
    PROVE  ProcOf(l) \in Procs /\ l \in Workers[ProcOf(l)]
  <1>1. PICK p \in Procs : l \in Workers[p]
    BY DEF AllWorkers, Procs
  <1> QED BY <1>1, Threads

\* A main lcore is not one of the receiving lcores.
LEMMA MainThread ==
    ASSUME NEW p \in Procs
    PROVE  /\ MainLcore[p] \in Lcores /\ MainLcore[p] \in LcoresOf(p)
           /\ MainLcore[p] \notin AllWorkers
  BY LcoreAssumption DEF Lcores, LcoresOf, AllWorkers, Procs

\* There are finitely many lcores.
LEMMA LcoresFinite ==
    /\ IsFiniteSet(Lcores)
    /\ \A p \in Procs :
          /\ IsFiniteSet(LcoresOf(p)) /\ Cardinality(LcoresOf(p)) \in Nat
          /\ IsFiniteSet(Workers[p]) /\ Cardinality(Workers[p]) \in Nat
  <1>1. \A p \in Procs : IsFiniteSet(LcoresOf(p)) /\ IsFiniteSet(Workers[p])
    BY LcoreAssumption, FS_AddElement DEF LcoresOf
  <1>2. IsFiniteSet(Lcores)
    BY <1>1, FS_Union DEF Lcores, Procs
  <1> QED BY <1>1, <1>2, FS_CardinalityType

-----------------------------------------------------------------------------
(* The buffers in the hands of a process.                                  *)

\* A process has at most one buffer for each lcore in hand.
LEMMA HandFinite ==
    ASSUME NEW p \in Procs
    PROVE  /\ IsFiniteSet(InHand(p)) /\ Cardinality(InHand(p)) \in Nat
           /\ Cardinality(InHand(p)) <= Cardinality(LcoresOf(p))
  <1>1. InHand(p) \subseteq LcoresOf(p)
    BY DEF InHand
  <1> QED BY <1>1, LcoresFinite, FS_Subset, FS_CardinalityType

\* Of a process whose main lcore has none, at most the workers have one.
LEMMA HandOfWorkers ==
    ASSUME NEW p \in Procs, main[p] \notin {"enqueue", "discard"}
    PROVE  Cardinality(InHand(p)) <= Cardinality(Workers[p])
  <1>1. InHand(p) \subseteq Workers[p]
    BY DEF InHand, LcoresOf
  <1> QED BY <1>1, LcoresFinite, FS_Subset

\* A step that changes no hand of a process.
LEMMA HandSame ==
    ASSUME NEW p \in Procs,
           main'[p] \in {"enqueue", "discard"} <=> main[p] \in {"enqueue", "discard"},
           \A l \in Workers[p] : msg'[l] # 0 <=> msg[l] # 0
    PROVE  InHand(p)' = InHand(p)
  BY DEF InHand, LcoresOf

\* One more lcore has a buffer.
LEMMA HandMore ==
    ASSUME NEW p \in Procs, NEW l, l \notin InHand(p), InHand(p)' = InHand(p) \cup {l}
    PROVE  Cardinality(InHand(p))' = Cardinality(InHand(p)) + 1
  BY HandFinite, FS_AddElement

\* One lcore fewer has a buffer.
LEMMA HandLess ==
    ASSUME NEW p \in Procs, NEW l, l \in InHand(p), InHand(p)' = InHand(p) \ {l}
    PROVE  /\ Cardinality(InHand(p))' = Cardinality(InHand(p)) - 1
           /\ Cardinality(InHand(p)) > 0
  <1>1. Cardinality(InHand(p))' = Cardinality(InHand(p)) - 1
    BY HandFinite, FS_RemoveElement
  <1>2. Cardinality(InHand(p)) # 0
    BY HandFinite, FS_EmptySet
  <1> QED BY <1>1, <1>2, HandFinite

\* main() takes a buffer in hand.
LEMMA HandTakes ==
    ASSUME NEW p \in Procs,
           main[p] \notin {"enqueue", "discard"}, main'[p] \in {"enqueue", "discard"},
           \A l \in Workers[p] : msg'[l] # 0 <=> msg[l] # 0
    PROVE  Cardinality(InHand(p))' = Cardinality(InHand(p)) + 1
  <1>1. MainLcore[p] \notin InHand(p)
    BY DEF InHand
  <1>2. InHand(p)' = InHand(p) \cup {MainLcore[p]}
    BY DEF InHand, LcoresOf
  <1> QED BY <1>1, <1>2, HandMore

\* main() gives its buffer away.
LEMMA HandGives ==
    ASSUME NEW p \in Procs,
           main[p] \in {"enqueue", "discard"}, main'[p] \notin {"enqueue", "discard"},
           \A l \in Workers[p] : msg'[l] # 0 <=> msg[l] # 0
    PROVE  /\ Cardinality(InHand(p))' = Cardinality(InHand(p)) - 1
           /\ Cardinality(InHand(p)) > 0
  <1>1. MainLcore[p] \in InHand(p)
    BY DEF InHand, LcoresOf
  <1>2. InHand(p)' = InHand(p) \ {MainLcore[p]}
    BY DEF InHand, LcoresOf
  <1> QED BY <1>1, <1>2, HandLess

\* A receiving lcore takes a buffer in hand.
LEMMA WorkerTakes ==
    ASSUME NEW p \in Procs, NEW l \in Workers[p],
           main' = main, msg[l] = 0, msg'[l] # 0,
           \A k \in Workers[p] : k # l => msg'[k] = msg[k]
    PROVE  Cardinality(InHand(p))' = Cardinality(InHand(p)) + 1
  <1>1. l \in LcoresOf(p) /\ l # MainLcore[p]
    BY Threads
  <1>2. l \notin InHand(p)
    BY <1>1 DEF InHand
  <1>3. InHand(p)' = InHand(p) \cup {l}
    BY <1>1 DEF InHand, LcoresOf
  <1> QED BY <1>2, <1>3, HandMore

\* A receiving lcore gives its buffer away.
LEMMA WorkerGives ==
    ASSUME NEW p \in Procs, NEW l \in Workers[p],
           main' = main, msg[l] # 0, msg'[l] = 0,
           \A k \in Workers[p] : k # l => msg'[k] = msg[k]
    PROVE  /\ Cardinality(InHand(p))' = Cardinality(InHand(p)) - 1
           /\ Cardinality(InHand(p)) > 0
  <1>1. l \in LcoresOf(p) /\ l # MainLcore[p]
    BY Threads
  <1>2. l \in InHand(p)
    BY <1>1 DEF InHand
  <1>3. InHand(p)' = InHand(p) \ {l}
    BY <1>1 DEF InHand, LcoresOf
  <1> QED BY <1>2, <1>3, HandLess

-----------------------------------------------------------------------------
(* The buffers all over.                                                   *)

\* These are counts in a state that is type correct.
LEMMA CountTypes ==
    ASSUME TypeOK
    PROVE  /\ Free \in Nat /\ SumFunction(cache) \in Nat
           /\ \A p \in Procs : InRing(p) \in Nat /\ Held(p) \in Nat
  <1>1. SumFunction(cache) \in Nat
    BY LcoresFinite, SumNat DEF TypeOK, SumFunction
  <1>2. pool \in Nat
    BY DEF TypeOK
  <1>3. \A p \in Procs : InRing(p) \in Nat
    BY DEF TypeOK, InRing
  <1> QED BY <1>1, <1>2, <1>3, HandFinite DEF Free, Held

\* The same after a step.
LEMMA CountTypesNext ==
    ASSUME TypeOK'
    PROVE  /\ Free' \in Nat /\ SumFunction(cache') \in Nat
           /\ \A p \in Procs : InRing(p)' \in Nat /\ Held(p)' \in Nat
  <1>1. SumFunction(cache') \in Nat
    BY LcoresFinite, SumNat DEF TypeOK, SumFunction
  <1>2. pool' \in Nat
    BY DEF TypeOK
  <1>3. \A p \in Procs : InRing(p)' \in Nat
    BY DEF TypeOK, InRing
  <1>4. \A p \in Procs : IsFiniteSet(InHand(p)')
    <2> TAKE p \in Procs
    <2>1. InHand(p)' \subseteq LcoresOf(p)
      BY DEF InHand
    <2> QED BY <2>1, LcoresFinite, FS_Subset
  <1> QED BY <1>1, <1>2, <1>3, <1>4, FS_CardinalityType DEF Free, Held

\* Conserved, seen from either process.
LEMMA Balance ==
    ASSUME TypeOK, TypeOK', Conserved, NEW p \in Procs, NEW q \in Procs, p # q,
           (Free' - Free) + (InRing(p)' - InRing(p)) + (InRing(q)' - InRing(q))
             + (Held(p)' - Held(p)) + (Held(q)' - Held(q)) + (lost' - lost) = 0
    PROVE  Conserved'
  <1>1. /\ lost \in Nat /\ lost' \in Nat /\ "pri" \in Procs /\ "sec" \in Procs
        /\ Free \in Nat /\ Free' \in Nat
        /\ InRing("pri") \in Nat /\ InRing("sec") \in Nat
        /\ InRing("pri")' \in Nat /\ InRing("sec")' \in Nat
        /\ Held("pri") \in Nat /\ Held("sec") \in Nat
        /\ Held("pri")' \in Nat /\ Held("sec")' \in Nat
    BY CountTypes, CountTypesNext, TwoProcs DEF TypeOK
  <1>2. (Free' - Free) + (InRing("pri")' - InRing("pri")) + (InRing("sec")' - InRing("sec"))
             + (Held("pri")' - Held("pri")) + (Held("sec")' - Held("sec")) + (lost' - lost) = 0
    <2>1. CASE p = "pri" /\ q = "sec"
      BY <2>1, Zenon
    <2>2. CASE p = "sec" /\ q = "pri"
      BY <1>1, <2>2
    <2> QED BY <2>1, <2>2 DEF Procs
  <1> QED BY <1>1, <1>2 DEF Conserved

\* rte_mempool_get() finds a buffer, whatever it fills the cache with.
LEMMA PoolGet ==
    ASSUME TypeOK, NEW l \in Lcores, CanGet(l), MempoolGet(l)
    PROVE  pool' \in Nat /\ cache' \in [Lcores -> Nat] /\ Free' = Free - 1
  <1> DEFINE n == IF cache[l] > 0 THEN 0 ELSE IF pool > CacheSize THEN CacheSize + 1 ELSE 1
  <1>1. /\ cache[l] \in Nat /\ pool \in Nat /\ CacheSize \in Nat
        /\ cache[l] > 0 \/ pool > 0
        /\ pool' = pool - n /\ cache' = [cache EXCEPT ![l] = @ + n - 1]
    BY SizeAssumption DEF TypeOK, CanGet, MempoolGet
  <1>2. n \in Nat /\ n <= pool /\ cache[l] + n - 1 \in Nat
    BY <1>1
  <1> HIDE DEF n
  <1>3. pool' \in Nat /\ cache' \in [Lcores -> Nat] /\ cache'[l] = cache[l] + n - 1
    BY <1>1, <1>2 DEF TypeOK
  <1>4. SumFunction(cache') = SumFunction(cache) + (cache'[l] - cache[l])
    <2>1. cache \in [Lcores -> Int] /\ cache' \in [Lcores -> Int]
      BY <1>3 DEF TypeOK
    <2>2. \A k \in Lcores : k # l => cache'[k] = cache[k]
      BY <1>1 DEF TypeOK
    <2> QED BY <2>1, <2>2, LcoresFinite, SumChange
  <1>5. SumFunction(cache) \in Nat
    BY CountTypes
  <1>6. (pool - n) + (SumFunction(cache) + ((cache[l] + n - 1) - cache[l]))
          = (pool + SumFunction(cache)) - 1
    <2>1. PICK s \in Nat : s = SumFunction(cache)
      BY <1>5, Zenon
    <2>2. (pool - n) + (s + ((cache[l] + n - 1) - cache[l])) = (pool + s) - 1
      BY <1>1, <1>2
    <2> QED BY <2>1, <2>2, Zenon
  <1>7. pool' + SumFunction(cache') = (pool + SumFunction(cache)) - 1
    BY <1>1, <1>3, <1>4, <1>6, Zenon
  <1> QED BY <1>3, <1>7 DEF Free

\* rte_mempool_put() loses none, when it flushes the cache and when not.
LEMMA PoolPut ==
    ASSUME TypeOK, NEW l \in Lcores, MempoolPut(l)
    PROVE  pool' \in Nat /\ cache' \in [Lcores -> Nat] /\ Free' = Free + 1
  <1>1. /\ cache[l] \in Nat /\ pool \in Nat
        /\ cache' = [cache EXCEPT ![l] = cache'[l]]
        /\ \/ cache'[l] = cache[l] + 1 /\ pool' = pool
           \/ cache'[l] = 1 /\ pool' = pool + cache[l]
    BY DEF TypeOK, MempoolPut
  <1>2. cache'[l] \in Nat /\ pool' \in Nat
    BY <1>1
  <1>3. cache' \in [Lcores -> Nat]
    BY <1>1, <1>2 DEF TypeOK
  <1>4. SumFunction(cache') = SumFunction(cache) + (cache'[l] - cache[l])
    <2>1. cache \in [Lcores -> Int] /\ cache' \in [Lcores -> Int]
      BY <1>3 DEF TypeOK
    <2>2. \A k \in Lcores : k # l => cache'[k] = cache[k]
      BY <1>1 DEF TypeOK
    <2> QED BY <2>1, <2>2, LcoresFinite, SumChange
  <1>5. pool' + SumFunction(cache') = (pool + SumFunction(cache)) + 1
    <2>1. PICK s \in Nat : s = SumFunction(cache)
      BY CountTypes, Zenon
    <2>2. pool' + (s + (cache'[l] - cache[l])) = (pool + s) + 1
      BY <1>1, <1>2
    <2> QED BY <1>4, <2>1, <2>2, Zenon
  <1> QED BY <1>2, <1>3, <1>5 DEF Free

-----------------------------------------------------------------------------
(* The end of a process.                                                   *)

\* IInv holds initially.
LEMMA InitInv == Init => IInv
  <1> SUFFICES ASSUME Init PROVE IInv
    OBVIOUS
  <1>1. /\ main = [p \in Procs |-> "off"] /\ named = {}
        /\ found = [p \in Procs |-> <<>>] /\ quit = [p \in Procs |-> FALSE]
        /\ pc = [l \in AllWorkers |-> "off"] /\ msg = [l \in AllWorkers |-> 0]
        /\ ring = [p \in Procs |-> <<>>] /\ pool = PoolSize
        /\ cache = [l \in Lcores |-> 0] /\ nmsgs = 0
        /\ printed = [p \in Procs |-> <<>>] /\ starts = 0 /\ lost = 0
    BY DEF Init
  <1>2. TypeOK
    BY <1>1, SizeAssumption, EmptySeq DEF TypeOK, Stages, Gone
  <1>3. ObjectInv
    BY <1>1 DEF ObjectInv, Running, Objects
  <1>4. ThreadInv
    <2>1. \A l \in AllWorkers : pc[l] = "off" /\ msg[l] = 0
      BY <1>1
    <2> QED BY <2>1, Threads DEF ThreadInv
  <1>5. LostInv
    <2>1. main["sec"] \in Gone /\ main["pri"] \in Gone
      BY <1>1, TwoProcs DEF Gone
    <2>2. /\ Cardinality(LcoresOf("sec")) \in Nat /\ Cardinality(Workers["pri"]) \in Nat
      BY LcoresFinite, TwoProcs
    <2>3. \A c, w \in Nat : 0 <= 0 * c + w
      OBVIOUS
    <2> QED BY <1>1, <2>1, <2>2, <2>3 DEF LostInv, Ended, PriTook
  <1>6. Conserved
    <2>1. SumFunction(cache) = 0
      <3>1. cache \in [Lcores -> Int] /\ \A l \in Lcores : cache[l] = 0
        BY <1>1
      <3> QED BY <3>1, LcoresFinite, SumZero
    <2>2. \A p \in Procs : InRing(p) = 0 /\ Held(p) = 0
      <3> TAKE p \in Procs
      <3>1. \A l \in Workers[p] : msg[l] = 0
        BY <1>1, Threads
      <3>2. InHand(p) = {}
        BY <1>1, <3>1 DEF InHand, LcoresOf
      <3> QED BY <1>1, <3>2, FS_EmptySet DEF InRing, Held
    <2> QED BY <1>1, <2>1, <2>2, TwoProcs, SizeAssumption DEF Conserved, Free
  <1> QED BY <1>2, <1>3, <1>4, <1>5, <1>6 DEF IInv

\* What the end of process p changes.
LEMMA DieFacts ==
    ASSUME IInv, NEW p \in Procs, NEW s \in {"exited", "panic"}, Die(p, s),
           UNCHANGED <<found, quit, starts, named, pool, cache, traffic>>
    PROVE  /\ TypeOK' /\ ThreadInv' /\ ObjectInv'
           /\ main'[p] = s /\ \A q \in Procs : q # p => main'[q] = main[q]
           /\ lost' = lost + Held(p)
           /\ Held(p)' = 0 /\ \A q \in Procs : q # p => Held(q)' = Held(q)
  <1>1. /\ main' = [main EXCEPT ![p] = s]
        /\ lost' = lost + Held(p)
        /\ pc' = [l \in AllWorkers |-> IF l \in Workers[p] THEN "off" ELSE pc[l]]
        /\ msg' = [l \in AllWorkers |-> IF l \in Workers[p] THEN 0 ELSE msg[l]]
    BY DEF Die, Goto, Held
  <1>2. UNCHANGED <<found, quit, starts, named, pool, cache, ring, nmsgs, printed>>
    BY DEF traffic
  <1>3. /\ main'[p] = s /\ \A q \in Procs : q # p => main'[q] = main[q]
        /\ main' \in [Procs -> Stages]
    BY <1>1 DEF IInv, TypeOK, Stages, Gone
  <1>4. TypeOK'
    <2>1. lost' \in Nat
      BY <1>1, CountTypes DEF IInv, TypeOK
    <2>2. /\ pc' \in [AllWorkers -> {"off", "top", "dequeue", "print", "put", "done"}]
          /\ msg' \in [AllWorkers -> Nat]
      BY <1>1 DEF IInv, TypeOK
    <2> QED BY <1>2, <1>3, <2>1, <2>2 DEF IInv, TypeOK
  <1>5. \A q \in Procs : q # p =>
            \A l \in Workers[q] : msg'[l] = msg[l] /\ pc'[l] = pc[l] /\ l \notin Workers[p]
    <2> TAKE q \in Procs
    <2> HAVE q # p
    <2> TAKE l \in Workers[q]
    <2>1. l \in AllWorkers /\ l \notin Workers[p]
      BY Threads DEF LcoresOf
    <2> QED BY <1>1, <2>1
  <1>6. \A l \in Workers[p] : msg'[l] = 0 /\ pc'[l] = "off"
    BY <1>1, Threads
  <1>7. Held(p)' = 0
    <2>1. main'[p] \notin {"enqueue", "discard"}
      BY <1>3
    <2>2. InHand(p)' = {}
      BY <1>6, <2>1 DEF InHand, LcoresOf
    <2> QED BY <2>2, FS_EmptySet DEF Held
  <1>8. \A q \in Procs : q # p => Held(q)' = Held(q)
    <2> TAKE q \in Procs
    <2> HAVE q # p
    <2>1. InHand(q)' = InHand(q)
      BY <1>3, <1>5, HandSame
    <2> QED BY <2>1 DEF Held
  <1>9. ThreadInv'
    <2>1. \A q \in Procs : \A l \in Workers[q] : pc'[l] # "off" => Running(q)'
      <3> TAKE q \in Procs
      <3> TAKE l \in Workers[q]
      <3>1. CASE q = p
        BY <3>1, <1>6
      <3>2. CASE q # p
        BY <3>2, <1>3, <1>5 DEF IInv, ThreadInv, Running
      <3> QED BY <3>1, <3>2
    <2>2. \A l \in AllWorkers : msg'[l] # 0 <=> pc'[l] \in {"print", "put"}
      BY <1>1 DEF IInv, ThreadInv
    <2> QED BY <2>1, <2>2 DEF ThreadInv
  <1>10. ObjectInv'
    <2>1. \A q \in Procs : Running(q)' => Running(q)
      BY <1>3 DEF Running
    <2> QED BY <1>2, <2>1 DEF IInv, ObjectInv
  <1> QED BY <1>1, <1>3, <1>4, <1>7, <1>8, <1>9, <1>10

\* The buffers of a process that ends are lost, and no others.
LEMMA DieStep ==
    ASSUME IInv, NEW p \in Procs, NEW s \in {"exited", "panic"}, Die(p, s),
           main[p] \notin Gone, p = "pri" => main[p] \notin {"enqueue", "discard"},
           UNCHANGED <<found, quit, starts, named, pool, cache, traffic>>
    PROVE  IInv'
  <1>1. /\ TypeOK' /\ ThreadInv' /\ ObjectInv'
        /\ main'[p] = s /\ \A q \in Procs : q # p => main'[q] = main[q]
        /\ lost' = lost + Held(p)
        /\ Held(p)' = 0 /\ \A q \in Procs : q # p => Held(q)' = Held(q)
    BY DieFacts
  <1>2. Conserved'
    <2>1. PICK q \in Procs : q # p
      BY TwoProcs
    <2>2. /\ Free' = Free /\ InRing(p)' = InRing(p) /\ InRing(q)' = InRing(q)
      BY DEF Free, InRing, traffic
    <2>3. /\ Free \in Nat /\ InRing(p) \in Nat /\ InRing(q) \in Nat
          /\ Held(p) \in Nat /\ Held(q) \in Nat /\ lost \in Nat
      BY CountTypes DEF IInv, TypeOK
    <2>4. (Free' - Free) + (InRing(p)' - InRing(p)) + (InRing(q)' - InRing(q))
             + (Held(p)' - Held(p)) + (Held(q)' - Held(q)) + (lost' - lost) = 0
      BY <1>1, <2>1, <2>2, <2>3
    <2> QED BY <1>1, <2>1, <2>4, Balance DEF IInv
  <1>3. /\ Held(p) \in Nat /\ lost \in Nat /\ starts \in Nat /\ starts' = starts
        /\ Held(p) <= Cardinality(LcoresOf(p)) /\ Cardinality(LcoresOf("sec")) \in Nat
        /\ Cardinality(Workers["pri"]) \in Nat
    BY CountTypes, HandFinite, LcoresFinite, TwoProcs DEF IInv, TypeOK, Held
  <1>4. LostInv'
    <2>1. CASE p = "sec"
      <3>1. /\ starts > 0 /\ Ended = starts - 1 /\ Ended' = starts /\ PriTook' = PriTook
        BY <1>1, <1>3, <2>1, TwoProcs DEF IInv, LostInv, Ended, PriTook, Gone
      <3>2. lost <= (starts - 1) * Cardinality(LcoresOf("sec")) + PriTook
        BY <3>1 DEF IInv, LostInv
      <3>3. PriTook \in Nat
        BY <1>3 DEF PriTook
      <3>4. \A a, b \in Nat : (a - 1) * b = a * b - b
        OBVIOUS
      <3>5. (starts - 1) * Cardinality(LcoresOf("sec"))
              = starts * Cardinality(LcoresOf("sec")) - Cardinality(LcoresOf("sec"))
        BY <1>3, <3>4, Zenon
      <3>6. starts * Cardinality(LcoresOf("sec")) \in Nat
        BY <1>3
      <3>7. lost + Held("sec") <= starts * Cardinality(LcoresOf("sec")) + PriTook
        <4>1. PICK a \in Nat : a = starts * Cardinality(LcoresOf("sec"))
          BY <3>6, Zenon
        <4>2. lost <= (a - Cardinality(LcoresOf("sec"))) + PriTook
          BY <3>2, <3>5, <4>1, Zenon
        <4>3. Held("sec") \in Nat /\ Held("sec") <= Cardinality(LcoresOf("sec"))
          BY <1>3, <2>1
        <4>4. lost + Held("sec") <= a + PriTook
          BY <1>3, <3>3, <4>2, <4>3
        <4> QED BY <4>1, <4>4, Zenon
      <3>8. lost' <= Ended' * Cardinality(LcoresOf("sec")) + PriTook'
        BY <1>1, <2>1, <3>1, <3>7
      <3>9. main'["pri"] # "off" /\ main'["sec"] \in Gone
        BY <1>1, <2>1, <3>1, TwoProcs DEF IInv, LostInv, Gone
      <3> QED BY <3>8, <3>9 DEF LostInv
    <2>2. CASE p = "pri"
      <3>1. /\ Ended' = Ended /\ PriTook = 0 /\ PriTook' = Cardinality(Workers["pri"])
        BY <1>1, <1>3, <2>2, TwoProcs DEF Ended, PriTook, Gone
      <3>2. Held("pri") <= Cardinality(Workers["pri"])
        BY <2>2, TwoProcs, HandOfWorkers DEF Held
      <3>3. lost <= Ended * Cardinality(LcoresOf("sec")) + 0
        BY <3>1 DEF IInv, LostInv
      <3>4. Ended * Cardinality(LcoresOf("sec")) \in Int
        <4>1. Ended \in Int
          BY <1>3 DEF Ended
        <4> QED BY <1>3, <4>1
      <3>5. lost + Held("pri")
              <= Ended * Cardinality(LcoresOf("sec")) + Cardinality(Workers["pri"])
        <4>1. PICK a \in Int : a = Ended * Cardinality(LcoresOf("sec"))
          BY <3>4, Zenon
        <4>2. lost <= a + 0
          BY <3>3, <4>1, Zenon
        <4>3. Held("pri") \in Nat
          BY <1>3, <2>2
        <4>4. lost + Held("pri") <= a + Cardinality(Workers["pri"])
          BY <1>3, <3>2, <4>2, <4>3
        <4> QED BY <4>1, <4>4, Zenon
      <3>6. lost' <= Ended' * Cardinality(LcoresOf("sec")) + PriTook'
        BY <1>1, <2>2, <3>1, <3>5
      <3>7. main'["pri"] # "off" /\ (main'["sec"] \notin Gone => starts' > 0)
        BY <1>1, <1>3, <2>2, TwoProcs DEF IInv, LostInv
      <3> QED BY <3>6, <3>7 DEF LostInv
    <2> QED BY <2>1, <2>2 DEF Procs
  <1> QED BY <1>1, <1>2, <1>4 DEF IInv

-----------------------------------------------------------------------------
(* The steps of main().                                                    *)

\* A step of main() that moves no buffer.
LEMMA QuietConserves ==
    ASSUME IInv, TypeOK',
           \A p \in Procs :
               main'[p] \in {"enqueue", "discard"} <=> main[p] \in {"enqueue", "discard"},
           UNCHANGED <<msg, ring, pool, cache, lost>>
    PROVE  Conserved'
  <1>1. \A p \in Procs : Held(p)' = Held(p)
    <2> TAKE p \in Procs
    <2>1. InHand(p)' = InHand(p)
      BY HandSame
    <2> QED BY <2>1 DEF Held
  <1>2. Held("pri")' = Held("pri") /\ Held("sec")' = Held("sec")
    BY <1>1, TwoProcs
  <1>3. Free' = Free /\ InRing("pri")' = InRing("pri") /\ InRing("sec")' = InRing("sec")
    BY DEF Free, InRing
  <1> QED BY <1>2, <1>3, Zenon DEF IInv, Conserved

\* A step that starts or ends no process.
LEMMA SameLost ==
    ASSUME IInv, \A p \in Procs : main'[p] \in Gone <=> main[p] \in Gone,
           main'["pri"] = "off" => main["pri"] = "off",
           UNCHANGED <<starts, lost>>
    PROVE  LostInv'
  <1>1. Ended' = Ended /\ PriTook' = PriTook
    BY TwoProcs DEF Ended, PriTook
  <1> QED BY <1>1, TwoProcs DEF IInv, LostInv

\* A step of main() after which the workers may go on.
LEMMA SameThreads ==
    ASSUME IInv, \A p \in Procs : Running(p) => Running(p)', UNCHANGED threads
    PROVE  ThreadInv'
  BY DEF IInv, ThreadInv, threads

\* A step that runs no main(), finds and creates no object.
LEMMA SameObjects ==
    ASSUME IInv, \A p \in Procs : Running(p)' => Running(p), UNCHANGED <<found, named>>
    PROVE  ObjectInv'
  BY DEF IInv, ObjectInv

\* main() of process p goes on to stage s.
LEMMA GotoFacts ==
    ASSUME IInv, NEW p \in Procs, NEW s \in Stages, Goto(p, s)
    PROVE  /\ main' \in [Procs -> Stages] /\ main'[p] = s
           /\ \A q \in Procs : q # p => main'[q] = main[q]
  BY DEF IInv, TypeOK, Goto

\* A step that only takes a running main() on to another stage.
LEMMA GotoStep ==
    ASSUME IInv, NEW p \in Procs, NEW s \in {"cmd", "wait", "discard"}, Goto(p, s),
           Running(p), main[p] \in {"enqueue", "discard"} <=> s = "discard",
           quit' \in [Procs -> BOOLEAN], nmsgs' \in Nat,
           UNCHANGED <<found, starts, named, threads, buffers, ring, printed>>
    PROVE  IInv'
  <1>1. /\ main' \in [Procs -> Stages] /\ main'[p] = s
        /\ \A q \in Procs : q # p => main'[q] = main[q]
    <2>1. s \in Stages
      BY DEF Stages
    <2> QED BY <2>1, GotoFacts
  <1>2. UNCHANGED <<pc, msg, pool, cache, lost>>
    BY DEF threads, buffers
  <1>3. TypeOK'
    BY <1>1, <1>2 DEF IInv, TypeOK
  <1>4. \A q \in Procs : Running(q)' <=> Running(q)
    BY <1>1 DEF Running
  <1>5. \A q \in Procs : main'[q] \in Gone <=> main[q] \in Gone
    BY <1>1 DEF Running, Gone
  <1>6. \A q \in Procs :
            main'[q] \in {"enqueue", "discard"} <=> main[q] \in {"enqueue", "discard"}
    BY <1>1
  <1>7. Conserved'
    BY <1>2, <1>3, <1>6, QuietConserves
  <1>8. LostInv'
    <2>1. main'["pri"] = "off" => main["pri"] = "off"
      BY <1>1, TwoProcs
    <2> QED BY <1>2, <1>5, <2>1, SameLost
  <1> QED BY <1>3, <1>4, <1>7, <1>8, SameThreads, SameObjects DEF IInv

\* Starting a process keeps the invariant, a secondary that was killed before
\* included.
LEMMA StartStep == ASSUME IInv, NEW p \in Procs, Start(p) PROVE IInv'
  <1>1. /\ main[p] \in Gone /\ Goto(p, "objects") /\ "objects" \in Stages
        /\ quit' = [quit EXCEPT ![p] = FALSE] /\ found' = [found EXCEPT ![p] = <<>>]
        /\ starts' = (IF p = "sec" THEN starts + 1 ELSE starts)
        /\ UNCHANGED <<named, pc, msg, ring, pool, cache, lost, nmsgs, printed>>
    BY DEF Start, Gone, Stages, threads, buffers, traffic
  <1>2. /\ main' \in [Procs -> Stages] /\ main'[p] = "objects"
        /\ \A q \in Procs : q # p => main'[q] = main[q]
    BY <1>1, GotoFacts
  <1>3. TypeOK'
    <2>1. starts' \in Nat /\ <<>> \in Seq(BOOLEAN)
      BY <1>1, EmptySeq DEF IInv, TypeOK
    <2>2. quit' \in [Procs -> BOOLEAN]
      BY <1>1 DEF IInv, TypeOK
    <2>3. found' \in [Procs -> Seq(BOOLEAN)]
      BY <1>1, <2>1 DEF IInv, TypeOK
    <2> QED BY <1>1, <1>2, <2>1, <2>2, <2>3 DEF IInv, TypeOK
  <1>4. /\ \A q \in Procs : Running(q)' <=> Running(q)
        /\ ~Running(p)
    BY <1>1, <1>2 DEF Running, Gone
  <1>5. ThreadInv'
    BY <1>1, <1>4 DEF IInv, ThreadInv
  <1>6. ObjectInv'
    <2>1. found'[p] = <<>> /\ Len(<<>>) = 0 /\ \A q \in Procs : q # p => found'[q] = found[q]
      BY <1>1 DEF IInv, TypeOK
    <2>2. Len(Objects) \in Nat
      BY DEF Objects
    <2> QED BY <1>1, <1>4, <2>1, <2>2 DEF IInv, ObjectInv
  <1>7. Conserved'
    <2>1. \A q \in Procs :
            main'[q] \in {"enqueue", "discard"} <=> main[q] \in {"enqueue", "discard"}
      BY <1>1, <1>2 DEF Gone
    <2> QED BY <1>1, <1>3, <2>1, QuietConserves
  <1>8. LostInv'
    <2>1. CASE p = "sec"
      <3>1. /\ main["pri"] \notin Gone /\ starts' = starts + 1
            /\ main'["pri"] = main["pri"] /\ main["sec"] \in Gone /\ main'["sec"] \notin Gone
        BY <1>1, <1>2, <2>1, TwoProcs DEF Start, Gone
      <3>2. Ended = starts /\ Ended' = starts /\ PriTook' = PriTook
        BY <3>1 DEF Ended, PriTook, IInv, TypeOK
      <3>3. starts' > 0 /\ lost' = lost /\ main'["pri"] # "off"
        BY <1>1, <3>1 DEF IInv, TypeOK, Gone
      <3> QED BY <3>2, <3>3 DEF IInv, LostInv
    <2>2. CASE p = "pri"
      <3>1. main["pri"] = "off" /\ main'["pri"] = "objects" /\ main'["sec"] = main["sec"]
        BY <1>2, <2>2, TwoProcs DEF Start
      <3>2. lost = 0 /\ starts = 0 /\ main["sec"] \in Gone /\ starts' = 0 /\ lost' = 0
        BY <1>1, <2>2, <3>1 DEF IInv, LostInv
      <3>3. Ended' = 0 /\ PriTook' = 0
        BY <3>1, <3>2 DEF Ended, PriTook, Gone
      <3>4. 0 <= 0 * Cardinality(LcoresOf("sec")) + 0
        <4>1. Cardinality(LcoresOf("sec")) \in Nat
          BY LcoresFinite, TwoProcs
        <4> QED BY <4>1
      <3> QED BY <3>1, <3>2, <3>3, <3>4 DEF LostInv, Gone
    <2> QED BY <2>1, <2>2 DEF Procs
  <1> QED BY <1>3, <1>5, <1>6, <1>7, <1>8 DEF IInv

\* Creating or finding an object keeps the invariant, and so does a failure.
LEMMA GetObjectStep == ASSUME IInv, NEW p \in Procs, GetObject(p) PROVE IInv'
  <1> DEFINE k == Len(found[p]) + 1
  <1>1. PICK ok \in BOOLEAN :
            /\ found' = [found EXCEPT ![p] = Append(@, ok)]
            /\ named' = IF ok THEN named \cup {Objects[k]} ELSE named
    BY DEF GetObject
  <1>2. /\ main[p] = "objects" /\ k <= Len(Objects)
        /\ UNCHANGED <<main, quit, starts, pc, msg, ring, pool, cache, lost, nmsgs, printed>>
    BY DEF GetObject, threads, buffers, traffic
  <1>3. /\ found[p] \in Seq(BOOLEAN) /\ Append(found[p], ok) \in Seq(BOOLEAN)
        /\ Len(found[p]) \in Nat /\ Len(Append(found[p], ok)) = k
        /\ \A i \in 1 .. Len(found[p]) : Append(found[p], ok)[i] = found[p][i]
        /\ Append(found[p], ok)[k] = ok
    BY AppendProperties, LenProperties DEF IInv, TypeOK
  <1>4. /\ found'[p] = Append(found[p], ok)
        /\ \A q \in Procs : q # p => found'[q] = found[q]
    BY <1>1 DEF IInv, TypeOK
  <1>5. found' \in [Procs -> Seq(BOOLEAN)]
    BY <1>1, <1>3 DEF IInv, TypeOK
  <1>6. TypeOK'
    BY <1>2, <1>5 DEF IInv, TypeOK
  <1> DEFINE all == {Objects[i] : i \in 1 .. Len(Objects)}
  <1>7. Objects[k] \in all
    BY <1>2, <1>3 DEF Objects
  <1>8. named \subseteq named' /\ named' \subseteq all
    BY <1>1, <1>7 DEF IInv, ObjectInv
  <1>9. ObjectInv'
    <2>1. ASSUME NEW q \in Procs
          PROVE  /\ Len(found'[q]) <= Len(Objects)
                 /\ \A i \in 1 .. Len(found'[q]) : found'[q][i] => Objects[i] \in named'
      <3>1. CASE q = p
        <4>1. Len(found'[q]) = k
          BY <3>1, <1>3, <1>4
        <4>2. ASSUME NEW i \in 1 .. k, found'[p][i] PROVE Objects[i] \in named'
          <5>1. CASE i = k
            BY <5>1, <4>2, <1>1, <1>3, <1>4
          <5>2. CASE i \in 1 .. Len(found[p])
            <6>1. found[p][i]
              BY <5>2, <4>2, <1>3, <1>4
            <6>2. Objects[i] \in named
              BY <6>1, <5>2 DEF IInv, ObjectInv
            <6> QED BY <6>2, <1>8
          <5> QED BY <5>1, <5>2, <1>3
        <4> QED BY <4>1, <4>2, <3>1, <1>2
      <3>2. CASE q # p
        BY <3>2, <1>4, <1>8 DEF IInv, ObjectInv
      <3> QED BY <3>1, <3>2
    <2>2. \A q \in Procs : Running(q)' => named' = all
      BY <1>2, <1>8 DEF IInv, ObjectInv, Running
    <2> QED BY <1>8, <2>1, <2>2 DEF ObjectInv
  <1>10. ThreadInv' /\ LostInv'
    BY <1>2 DEF IInv, ThreadInv, LostInv, Running, Ended, PriTook
  <1>11. Conserved'
    BY <1>2, <1>6, QuietConserves
  <1> QED BY <1>6, <1>9, <1>10, <1>11 DEF IInv

\* A process that finds all objects launches its workers, one that does not
\* ends before they run.
LEMMA LaunchStep == ASSUME IInv, NEW p \in Procs, Launch(p) PROVE IInv'
  <1>1. /\ main[p] = "objects" /\ Len(found[p]) = Len(Objects)
        /\ UNCHANGED <<found, quit, starts, named, msg, ring, pool, cache, lost, nmsgs, printed>>
    BY DEF Launch, buffers, traffic
  <1>2. /\ ~Running(p)
        /\ \A l \in Workers[p] : pc[l] = "off" /\ msg[l] = 0 /\ l \in AllWorkers
    <2>1. ~Running(p)
      BY <1>1 DEF Running
    <2> QED BY <2>1, Threads DEF IInv, ThreadInv
  <1>3. CASE HaveObjects(p)
    <2>1. /\ main' \in [Procs -> Stages] /\ main'[p] = "cmdline"
          /\ \A q \in Procs : q # p => main'[q] = main[q]
      <3>1. Goto(p, "cmdline") /\ "cmdline" \in Stages
        BY <1>3 DEF Launch, Stages
      <3> QED BY <3>1, GotoFacts
    <2>2. pc' = [l \in AllWorkers |-> IF l \in Workers[p] THEN "top" ELSE pc[l]]
      BY <1>3 DEF Launch
    <2>3. TypeOK'
      <3>1. pc' \in [AllWorkers -> {"off", "top", "dequeue", "print", "put", "done"}]
        BY <2>2 DEF IInv, TypeOK
      <3> QED BY <1>1, <2>1, <3>1 DEF IInv, TypeOK
    <2>4. /\ \A q \in Procs : q # p => (Running(q)' <=> Running(q))
          /\ Running(p)'
      BY <2>1 DEF Running
    <2>5. named = {Objects[i] : i \in 1 .. Len(Objects)}
      <3>1. Len(Objects) = 3
        BY DEF Objects
      <3>2. Objects[1] \in named /\ Objects[2] \in named /\ Objects[3] \in named
        BY <1>1, <1>3, <3>1 DEF HaveObjects, IInv, ObjectInv
      <3>3. \A i \in 1 .. 3 : i = 1 \/ i = 2 \/ i = 3
        OBVIOUS
      <3>4. {Objects[i] : i \in 1 .. Len(Objects)} \subseteq named
        BY <3>1, <3>2, <3>3
      <3> QED BY <3>4 DEF IInv, ObjectInv
    <2>6. ObjectInv'
      BY <1>1, <2>4, <2>5 DEF IInv, ObjectInv
    <2>7. ThreadInv'
      <3>1. \A q \in Procs : \A l \in Workers[q] : pc'[l] # "off" => Running(q)'
        <4> TAKE q \in Procs
        <4> TAKE l \in Workers[q]
        <4>1. CASE q = p
          BY <4>1, <2>4
        <4>2. CASE q # p
          <5>1. l \in AllWorkers /\ l \notin Workers[p]
            BY <4>2, Threads DEF LcoresOf
          <5>2. pc'[l] = pc[l]
            BY <5>1, <2>2
          <5> QED BY <5>2, <4>2, <2>4 DEF IInv, ThreadInv
        <4> QED BY <4>1, <4>2
      <3>2. \A l \in AllWorkers : msg'[l] # 0 <=> pc'[l] \in {"print", "put"}
        BY <1>1, <1>2, <2>2 DEF IInv, ThreadInv
      <3> QED BY <3>1, <3>2 DEF ThreadInv
    <2>8. LostInv'
      <3>1. \A q \in Procs : main'[q] \in Gone <=> main[q] \in Gone
        BY <1>1, <2>1 DEF Gone
      <3>2. main'["pri"] = "off" => main["pri"] = "off"
        BY <2>1, TwoProcs
      <3> QED BY <1>1, <3>1, <3>2, SameLost
    <2>9. Conserved'
      <3>1. \A q \in Procs :
              main'[q] \in {"enqueue", "discard"} <=> main[q] \in {"enqueue", "discard"}
        BY <1>1, <2>1
      <3> QED BY <1>1, <2>3, <3>1, QuietConserves
    <2> QED BY <2>3, <2>6, <2>7, <2>8, <2>9 DEF IInv
  <1>4. CASE ~HaveObjects(p)
    <2>1. /\ main' \in [Procs -> Stages] /\ main'[p] = "exited"
          /\ \A q \in Procs : q # p => main'[q] = main[q]
      <3>1. Goto(p, "exited") /\ "exited" \in Stages
        BY <1>4 DEF Launch, Stages, Gone
      <3> QED BY <3>1, GotoFacts
    <2>2. pc' = pc
      BY <1>4 DEF Launch
    <2>3. TypeOK'
      BY <1>1, <2>1, <2>2 DEF IInv, TypeOK
    <2>4. \A q \in Procs : Running(q)' <=> Running(q)
      BY <1>1, <2>1 DEF Running
    <2>5. ObjectInv' /\ ThreadInv'
      BY <1>1, <2>2, <2>4, SameObjects, SameThreads DEF threads
    <2>6. Conserved'
      <3>1. \A q \in Procs :
              main'[q] \in {"enqueue", "discard"} <=> main[q] \in {"enqueue", "discard"}
        BY <1>1, <2>1
      <3> QED BY <1>1, <2>3, <3>1, QuietConserves
    <2>7. LostInv'
      <3>1. /\ Cardinality(LcoresOf("sec")) \in Nat /\ Cardinality(Workers["pri"]) \in Nat
            /\ starts \in Nat /\ lost \in Nat
        BY LcoresFinite, TwoProcs DEF IInv, TypeOK
      <3>2. CASE p = "pri"
        <4>1. /\ Ended' = Ended /\ PriTook = 0 /\ PriTook' \in Nat /\ main'["pri"] # "off"
              /\ main'["sec"] = main["sec"]
          BY <1>1, <2>1, <3>1, <3>2, TwoProcs DEF Ended, PriTook, Gone
        <4>2. lost <= Ended * Cardinality(LcoresOf("sec")) + 0
          BY <4>1 DEF IInv, LostInv
        <4>3. Ended * Cardinality(LcoresOf("sec")) \in Int
          <5>1. Ended \in Int
            BY <3>1 DEF Ended
          <5> QED BY <5>1, <3>1
        <4>4. lost <= Ended * Cardinality(LcoresOf("sec")) + PriTook'
          <5>1. PICK a \in Int : a = Ended * Cardinality(LcoresOf("sec"))
            BY <4>3, Zenon
          <5>2. lost <= a + 0
            BY <4>2, <5>1, Zenon
          <5>3. PICK w \in Nat : w = PriTook'
            BY <4>1, Zenon
          <5>4. lost <= a + w
            BY <3>1, <5>2
          <5> QED BY <5>1, <5>3, <5>4, Zenon
        <4> QED BY <1>1, <4>1, <4>4 DEF IInv, LostInv
      <3>3. CASE p = "sec"
        <4>1. /\ Ended' = starts /\ Ended = starts - 1 /\ PriTook' = PriTook /\ PriTook \in Nat
              /\ main'["pri"] = main["pri"] /\ main'["sec"] \in Gone
          BY <1>1, <2>1, <3>1, <3>3, TwoProcs DEF Ended, PriTook, Gone
        <4>2. lost <= (starts - 1) * Cardinality(LcoresOf("sec")) + PriTook
          BY <4>1 DEF IInv, LostInv
        <4>3. \A a, b \in Nat : (a - 1) * b <= a * b /\ a * b \in Int /\ (a - 1) * b \in Int
          OBVIOUS
        <4>4. /\ (starts - 1) * Cardinality(LcoresOf("sec"))
                   <= starts * Cardinality(LcoresOf("sec"))
              /\ starts * Cardinality(LcoresOf("sec")) \in Int
              /\ (starts - 1) * Cardinality(LcoresOf("sec")) \in Int
          BY <3>1, <4>3, Zenon
        <4>5. lost <= starts * Cardinality(LcoresOf("sec")) + PriTook
          <5>1. PICK a \in Int : a = starts * Cardinality(LcoresOf("sec"))
            BY <4>4, Zenon
          <5>2. PICK b \in Int : b = (starts - 1) * Cardinality(LcoresOf("sec"))
            BY <4>4, Zenon
          <5>3. lost <= b + PriTook /\ b <= a
            BY <4>2, <4>4, <5>1, <5>2, Zenon
          <5>4. lost <= a + PriTook
            BY <3>1, <4>1, <5>3
          <5> QED BY <5>1, <5>4, Zenon
        <4>6. main'["pri"] = "off" => lost' = 0 /\ starts' = 0
          BY <1>1, <4>1 DEF IInv, LostInv
        <4>7. lost' <= Ended' * Cardinality(LcoresOf("sec")) + PriTook'
          BY <1>1, <4>1, <4>5
        <4> QED BY <4>1, <4>6, <4>7 DEF LostInv
      <3> QED BY <3>2, <3>3 DEF Procs
    <2> QED BY <2>3, <2>5, <2>6, <2>7 DEF IInv
  <1> QED BY <1>3, <1>4

\* cmdline_stdin_new() keeps the invariant; if it fails, the workers die with
\* the process.
LEMMA NewCmdlineStep == ASSUME IInv, NEW p \in Procs, NewCmdline(p) PROVE IInv'
  <1>1. /\ main[p] = "cmdline" /\ main[p] \notin Gone /\ Running(p)
        /\ UNCHANGED <<found, quit, starts, named, pool, cache, traffic>>
    BY DEF NewCmdline, Gone, Running
  <1>2. CASE Goto(p, "cmd") /\ UNCHANGED <<threads, lost, orphaned>>
    <2>1. quit' \in [Procs -> BOOLEAN] /\ nmsgs' \in Nat /\ UNCHANGED <<buffers, ring, printed>>
      BY <1>1, <1>2 DEF IInv, TypeOK, traffic, buffers
    <2> QED BY <1>1, <1>2, <2>1, GotoStep
  <1>3. CASE Die(p, "exited")
    BY <1>1, <1>3, DieStep
  <1> QED BY <1>2, <1>3 DEF NewCmdline

\* The end of the commands keeps the invariant.
LEMMA EndCommandsStep == ASSUME IInv, NEW p \in Procs, EndCommands(p) PROVE IInv'
  <1>1. /\ main[p] = "cmd" /\ Running(p) /\ Goto(p, "wait")
        /\ UNCHANGED <<found, starts, named, threads, buffers, traffic>>
    BY DEF EndCommands, Running
  <1>2. quit' \in [Procs -> BOOLEAN]
    BY DEF EndCommands, IInv, TypeOK
  <1>3. nmsgs' \in Nat /\ UNCHANGED <<ring, printed>>
    BY <1>1 DEF IInv, TypeOK, traffic
  <1> QED BY <1>1, <1>2, <1>3, GotoStep

\* The end of a process whose workers are done keeps the invariant.
LEMMA WaitLcoresStep == ASSUME IInv, NEW p \in Procs, WaitLcores(p) PROVE IInv'
  <1>1. /\ main[p] = "wait" /\ main[p] \notin Gone /\ Die(p, "exited")
        /\ UNCHANGED <<found, quit, starts, named, pool, cache, traffic>>
    BY DEF WaitLcores, Gone
  <1> QED BY <1>1, DieStep

\* Killing the secondary at any point keeps the invariant.
LEMMA KillStep == ASSUME IInv, Kill PROVE IInv'
  <1>1. /\ main["sec"] \notin Gone /\ Die("sec", "exited")
        /\ UNCHANGED <<found, quit, starts, named, pool, cache, traffic>>
    BY DEF Kill, Gone
  <1> QED BY <1>1, DieStep, TwoProcs

\* What a step of a running main() that moves a buffer changes otherwise.
LEMMA MainMoves ==
    ASSUME IInv, NEW p \in Procs, NEW s \in {"cmd", "enqueue", "discard"}, Goto(p, s),
           Running(p), UNCHANGED <<found, quit, starts, named, threads, lost>>
    PROVE  /\ main' \in [Procs -> Stages] /\ main'[p] = s
           /\ \A q \in Procs : q # p => main'[q] = main[q]
           /\ ObjectInv' /\ ThreadInv' /\ LostInv'
           /\ \A q \in Procs : q # p => Held(q)' = Held(q)
           /\ Held(p) \in Nat /\ Free \in Nat /\ lost \in Nat
           /\ \A q \in Procs : Held(q) \in Nat /\ InRing(q) \in Nat
  <1>1. /\ main' \in [Procs -> Stages] /\ main'[p] = s
        /\ \A q \in Procs : q # p => main'[q] = main[q]
    <2>1. s \in Stages
      BY DEF Stages
    <2> QED BY <2>1, GotoFacts
  <1>2. \A q \in Procs : Running(q)' <=> Running(q)
    BY <1>1 DEF Running
  <1>3. ObjectInv' /\ ThreadInv'
    BY <1>2, SameObjects, SameThreads
  <1>4. LostInv'
    <2>1. \A q \in Procs : main'[q] \in Gone <=> main[q] \in Gone
      BY <1>1 DEF Gone, Running
    <2>2. main'["pri"] = "off" => main["pri"] = "off"
      BY <1>1, TwoProcs
    <2> QED BY <2>1, <2>2, SameLost
  <1>5. \A q \in Procs : q # p => Held(q)' = Held(q)
    <2> TAKE q \in Procs
    <2> HAVE q # p
    <2>1. InHand(q)' = InHand(q)
      BY <1>1, HandSame DEF threads
    <2> QED BY <2>1 DEF Held
  <1> QED BY <1>1, <1>3, <1>4, <1>5, CountTypes DEF IInv, TypeOK

\* Taking a buffer keeps the invariant, from the cache or the pool; without one
\* the process panics.
LEMMA SendGetStep == ASSUME IInv, NEW p \in Procs, SendGet(p) PROVE IInv'
  <1>1. /\ main[p] = "cmd" /\ main[p] \notin Gone /\ Running(p)
        /\ UNCHANGED <<found, quit, starts, named, traffic>>
    BY DEF SendGet, Gone, Running
  <1>2. CASE CanGet(MainLcore[p])
    <2>1. /\ MempoolGet(MainLcore[p]) /\ Goto(p, "enqueue") /\ UNCHANGED <<threads, lost>>
      BY <1>2 DEF SendGet
    <2>2. /\ main' \in [Procs -> Stages] /\ main'[p] = "enqueue"
          /\ ObjectInv' /\ ThreadInv' /\ LostInv'
          /\ \A q \in Procs : q # p => Held(q)' = Held(q)
          /\ Free \in Nat /\ lost \in Nat
          /\ \A q \in Procs : Held(q) \in Nat /\ InRing(q) \in Nat
      BY <1>1, <2>1, MainMoves
    <2>3. pool' \in Nat /\ cache' \in [Lcores -> Nat] /\ Free' = Free - 1
      BY <1>2, <2>1, MainThread, PoolGet DEF IInv
    <2>4. TypeOK'
      BY <1>1, <2>1, <2>2, <2>3 DEF IInv, TypeOK, threads, traffic
    <2>5. Held(p)' = Held(p) + 1
      BY <1>1, <2>1, <2>2, HandTakes DEF Held, threads
    <2>6. Conserved'
      <3>1. PICK q \in Procs : q # p
        BY TwoProcs
      <3>2. InRing(p)' = InRing(p) /\ InRing(q)' = InRing(q) /\ lost' = lost
        BY <1>1, <2>1 DEF InRing, traffic
      <3>3. (Free' - Free) + (InRing(p)' - InRing(p)) + (InRing(q)' - InRing(q))
               + (Held(p)' - Held(p)) + (Held(q)' - Held(q)) + (lost' - lost) = 0
        BY <2>2, <2>3, <2>5, <3>1, <3>2
      <3> QED BY <2>4, <3>1, <3>3, Balance DEF IInv
    <2> QED BY <2>2, <2>4, <2>6 DEF IInv
  <1>3. CASE ~CanGet(MainLcore[p])
    <2>1. Die(p, "panic") /\ UNCHANGED <<pool, cache>>
      BY <1>3 DEF SendGet
    <2> QED BY <1>1, <2>1, DieStep
  <1> QED BY <1>2, <1>3

\* Sending a message keeps the invariant, to a ring that is full too.
LEMMA SendEnqueueStep == ASSUME IInv, NEW p \in Procs, SendEnqueue(p) PROVE IInv'
  <1> DEFINE q == Other(p)
  <1>1. /\ main[p] = "enqueue" /\ Running(p) /\ q \in Procs /\ q # p
        /\ nmsgs' = nmsgs + 1 /\ nmsgs \in Nat
        /\ UNCHANGED <<found, quit, starts, named, threads, buffers, printed>>
    BY TwoProcs DEF SendEnqueue, Running, IInv, TypeOK
  <1>2. CASE Len(ring[q]) < RingSize
    <2>1. /\ ring' = [ring EXCEPT ![q] = Append(@, nmsgs + 1)] /\ Goto(p, "cmd")
      BY <1>2 DEF SendEnqueue
    <2>2. /\ main' \in [Procs -> Stages] /\ main'[p] = "cmd"
          /\ ObjectInv' /\ ThreadInv' /\ LostInv'
          /\ \A r \in Procs : r # p => Held(r)' = Held(r)
          /\ Free \in Nat /\ lost \in Nat
          /\ \A r \in Procs : Held(r) \in Nat /\ InRing(r) \in Nat
      BY <1>1, <2>1, MainMoves DEF buffers
    <2> HIDE DEF q
    <2>3. /\ ring[q] \in Seq(Nat \ {0}) /\ nmsgs + 1 \in Nat \ {0}
          /\ Append(ring[q], nmsgs + 1) \in Seq(Nat \ {0})
          /\ Len(Append(ring[q], nmsgs + 1)) = Len(ring[q]) + 1
      BY <1>1, AppendProperties DEF IInv, TypeOK
    <2>4. ring' \in [Procs -> Seq(Nat \ {0})]
      BY <2>1, <2>3 DEF IInv, TypeOK
    <2>5. TypeOK'
      BY <1>1, <2>2, <2>4 DEF IInv, TypeOK, threads, buffers
    <2>6. Held(p)' = Held(p) - 1
      BY <1>1, <2>2, HandGives DEF Held, threads
    <2>7. InRing(q)' = InRing(q) + 1 /\ InRing(p)' = InRing(p)
      BY <1>1, <2>1, <2>3 DEF InRing, IInv, TypeOK
    <2>8. Conserved'
      <3>1. Free' = Free /\ lost' = lost
        BY <1>1 DEF Free, buffers
      <3>2. (Free' - Free) + (InRing(p)' - InRing(p)) + (InRing(q)' - InRing(q))
               + (Held(p)' - Held(p)) + (Held(q)' - Held(q)) + (lost' - lost) = 0
        BY <1>1, <2>2, <2>6, <2>7, <3>1
      <3> QED BY <1>1, <2>5, <3>2, Balance DEF IInv
    <2> QED BY <2>2, <2>5, <2>8 DEF IInv
  <1>3. CASE ~(Len(ring[q]) < RingSize)
    <2>1. Goto(p, "discard") /\ UNCHANGED ring
      BY <1>3 DEF SendEnqueue
    <2>2. quit' \in [Procs -> BOOLEAN] /\ nmsgs' \in Nat
      BY <1>1 DEF IInv, TypeOK
    <2> QED BY <1>1, <2>1, <2>2, GotoStep
  <1> QED BY <1>2, <1>3

\* Discarding a message keeps the invariant.
LEMMA SendDiscardStep == ASSUME IInv, NEW p \in Procs, SendDiscard(p) PROVE IInv'
  <1>1. /\ main[p] = "discard" /\ Running(p) /\ Goto(p, "cmd")
        /\ MempoolPut(MainLcore[p])
        /\ UNCHANGED <<found, quit, starts, named, threads, lost, traffic>>
    BY DEF SendDiscard, PutDiscarded, Running
  <1>2. /\ main' \in [Procs -> Stages] /\ main'[p] = "cmd"
        /\ ObjectInv' /\ ThreadInv' /\ LostInv'
        /\ \A q \in Procs : q # p => Held(q)' = Held(q)
        /\ Free \in Nat /\ lost \in Nat
        /\ \A q \in Procs : Held(q) \in Nat /\ InRing(q) \in Nat
    BY <1>1, MainMoves
  <1>3. pool' \in Nat /\ cache' \in [Lcores -> Nat] /\ Free' = Free + 1
    BY <1>1, MainThread, PoolPut DEF IInv
  <1>4. TypeOK'
    BY <1>1, <1>2, <1>3 DEF IInv, TypeOK, threads, traffic
  <1>5. Held(p)' = Held(p) - 1
    BY <1>1, <1>2, HandGives DEF Held, threads
  <1>6. Conserved'
    <2>1. PICK q \in Procs : q # p
      BY TwoProcs
    <2>2. InRing(p)' = InRing(p) /\ InRing(q)' = InRing(q) /\ lost' = lost
      BY <1>1 DEF InRing, traffic
    <2>3. (Free' - Free) + (InRing(p)' - InRing(p)) + (InRing(q)' - InRing(q))
             + (Held(p)' - Held(p)) + (Held(q)' - Held(q)) + (lost' - lost) = 0
      BY <1>2, <1>3, <1>5, <2>1, <2>2
    <2> QED BY <1>4, <2>1, <2>3, Balance DEF IInv
  <1> QED BY <1>2, <1>4, <1>6 DEF IInv

-----------------------------------------------------------------------------
(* The steps of lcore_recv().                                              *)

\* A step of worker l of process p.
LEMMA WorkerMoves ==
    ASSUME IInv, NEW l \in AllWorkers, NEW p \in Procs, p = ProcOf(l), pc[l] # "off",
           pc' = [pc EXCEPT ![l] = pc'[l]],
           pc'[l] \in {"top", "dequeue", "print", "put", "done"},
           msg' = [msg EXCEPT ![l] = msg'[l]], msg'[l] \in Nat,
           msg'[l] # 0 <=> pc'[l] \in {"print", "put"},
           UNCHANGED <<process, named, lost>>
    PROVE  /\ l \in Workers[p] /\ l \in Lcores
           /\ pc' \in [AllWorkers -> {"off", "top", "dequeue", "print", "put", "done"}]
           /\ msg' \in [AllWorkers -> Nat]
           /\ \A k \in Workers[p] : k # l => msg'[k] = msg[k]
           /\ ObjectInv' /\ ThreadInv' /\ LostInv'
           /\ \A q \in Procs : q # p => Held(q)' = Held(q)
           /\ Free \in Nat /\ \A q \in Procs : Held(q) \in Nat /\ InRing(q) \in Nat
  <1>1. l \in Workers[p] /\ l \in Lcores
    BY ThreadOf, Threads
  <1>2. /\ pc' \in [AllWorkers -> {"off", "top", "dequeue", "print", "put", "done"}]
        /\ msg' \in [AllWorkers -> Nat]
        /\ \A k \in AllWorkers : k # l => msg'[k] = msg[k] /\ pc'[k] = pc[k]
    BY DEF IInv, TypeOK
  <1>3. /\ \A q \in Procs : \A k \in Workers[q] : k \in AllWorkers /\ ProcOf(k) = q
        /\ UNCHANGED <<main, found, quit, starts>>
    BY Threads DEF process
  <1>4. ObjectInv' /\ LostInv'
    BY <1>3 DEF IInv, ObjectInv, LostInv, Running, Ended, PriTook
  <1>5. ThreadInv'
    <2>1. \A q \in Procs : \A k \in Workers[q] : pc'[k] # "off" => Running(q)'
      <3> TAKE q \in Procs
      <3> TAKE k \in Workers[q]
      <3>1. k \in AllWorkers /\ (k = l => q = p)
        BY <1>3
      <3>2. pc'[k] # "off" => pc[k] # "off"
        BY <1>2, <3>1
      <3> QED BY <1>3, <3>2 DEF IInv, ThreadInv, Running
    <2>2. \A k \in AllWorkers : msg'[k] # 0 <=> pc'[k] \in {"print", "put"}
      BY <1>2 DEF IInv, ThreadInv
    <2> QED BY <2>1, <2>2 DEF ThreadInv
  <1>6. \A q \in Procs : q # p => Held(q)' = Held(q)
    <2> TAKE q \in Procs
    <2> HAVE q # p
    <2>1. \A k \in Workers[q] : msg'[k] = msg[k]
      BY <1>2, <1>3
    <2>2. InHand(q)' = InHand(q)
      BY <1>3, <2>1, HandSame
    <2> QED BY <2>2 DEF Held
  <1> QED BY <1>1, <1>2, <1>3, <1>4, <1>5, <1>6, CountTypes DEF IInv

\* Looking at quit keeps the invariant.
LEMMA CheckQuitStep == ASSUME IInv, NEW l \in AllWorkers, CheckQuit(l) PROVE IInv'
  <1>1. /\ pc[l] = "top" /\ pc' = [pc EXCEPT ![l] = pc'[l]] /\ pc'[l] \in {"done", "dequeue"}
        /\ UNCHANGED <<process, named, msg, pool, cache, lost, ring, nmsgs, printed>>
    BY DEF CheckQuit, buffers, traffic, IInv, TypeOK
  <1>2. /\ msg' = [msg EXCEPT ![l] = msg'[l]] /\ msg'[l] \in Nat /\ msg'[l] = 0
    BY <1>1 DEF IInv, TypeOK, ThreadInv
  <1>3. ProcOf(l) \in Procs
    BY ThreadOf
  <1>4. /\ pc' \in [AllWorkers -> {"off", "top", "dequeue", "print", "put", "done"}]
        /\ ObjectInv' /\ ThreadInv' /\ LostInv'
    BY <1>1, <1>2, <1>3, WorkerMoves
  <1>5. TypeOK'
    BY <1>1, <1>4 DEF IInv, TypeOK, process
  <1>6. Conserved'
    BY <1>1, <1>5, QuietConserves DEF process
  <1> QED BY <1>4, <1>5, <1>6 DEF IInv

\* The oldest message of a ring, and the ring without it.
LEMMA DequeueFacts ==
    ASSUME NEW S, NEW s \in Seq(S), s # <<>>
    PROVE  /\ s[Oldest(s)] \in S /\ RemoveAt(s, Oldest(s)) = Tail(s)
           /\ Tail(s) \in Seq(S) /\ Len(Tail(s)) = Len(s) - 1 /\ Len(s) \in Nat \ {0}
           /\ s[Oldest(s)] = Head(s)
  <1>1. /\ Len(s) \in Nat \ {0} /\ Head(s) \in S /\ Head(s) = s[1]
        /\ Tail(s) \in Seq(S) /\ Len(Tail(s)) = Len(s) - 1
    BY HeadTailProperties, EmptySeq, LenProperties
  <1>2. RemoveAt(s, 1) = Tail(s)
    <2>1. SubSeq(s, 1, 1 - 1) = <<>>
      BY <1>1
    <2>2. SubSeq(s, 1 + 1, Len(s)) = Tail(s)
      BY <1>1
    <2>3. <<>> \o Tail(s) = Tail(s)
      BY <1>1
    <2> QED BY <2>1, <2>2, <2>3, Zenon DEF RemoveAt
  <1> QED BY <1>1, <1>2 DEF Oldest

\* Taking a message keeps the invariant.
LEMMA DequeueStep == ASSUME IInv, NEW l \in AllWorkers, Dequeue(l) PROVE IInv'
  <1> DEFINE p == ProcOf(l)
  <1>1. /\ pc[l] = "dequeue" /\ p \in Procs /\ msg[l] = 0
        /\ UNCHANGED <<process, named, pool, cache, lost, nmsgs, printed>>
    BY ThreadOf DEF Dequeue, buffers, IInv, ThreadInv
  <1>2. CASE ring[p] = <<>>
    <2>1. pc' = [pc EXCEPT ![l] = "top"] /\ UNCHANGED <<msg, ring>>
      BY <1>2 DEF Dequeue, AfterEmpty
    <2>2. /\ pc' = [pc EXCEPT ![l] = pc'[l]] /\ pc'[l] = "top"
          /\ msg' = [msg EXCEPT ![l] = msg'[l]] /\ msg'[l] = 0
      BY <1>1, <2>1 DEF IInv, TypeOK
    <2>3. /\ pc' \in [AllWorkers -> {"off", "top", "dequeue", "print", "put", "done"}]
          /\ ObjectInv' /\ ThreadInv' /\ LostInv'
      BY <1>1, <2>2, WorkerMoves
    <2>4. TypeOK'
      BY <1>1, <2>1, <2>3 DEF IInv, TypeOK, process
    <2>5. Conserved'
      BY <1>1, <2>1, <2>4, QuietConserves DEF process
    <2> QED BY <2>3, <2>4, <2>5 DEF IInv
  <1>3. CASE ring[p] # <<>>
    <2>1. ring[p] \in Seq(Nat \ {0})
      BY <1>1 DEF IInv, TypeOK
    <2>2. /\ ring[p][Oldest(ring[p])] \in Nat \ {0}
          /\ RemoveAt(ring[p], Oldest(ring[p])) = Tail(ring[p])
          /\ Tail(ring[p]) \in Seq(Nat \ {0}) /\ Len(Tail(ring[p])) = Len(ring[p]) - 1
          /\ Len(ring[p]) \in Nat \ {0}
      BY <1>3, <2>1, DequeueFacts
    <2>3. /\ msg' = [msg EXCEPT ![l] = ring[p][Oldest(ring[p])]]
          /\ ring' = [ring EXCEPT ![p] = RemoveAt(ring[p], Oldest(ring[p]))]
          /\ pc' = [pc EXCEPT ![l] = "print"]
      BY <1>3 DEF Dequeue
    <2>4. /\ pc' = [pc EXCEPT ![l] = pc'[l]] /\ pc'[l] = "print"
          /\ msg' = [msg EXCEPT ![l] = msg'[l]] /\ msg'[l] \in Nat /\ msg'[l] # 0
      BY <2>2, <2>3 DEF IInv, TypeOK
    <2>5. /\ l \in Workers[p]
          /\ pc' \in [AllWorkers -> {"off", "top", "dequeue", "print", "put", "done"}]
          /\ msg' \in [AllWorkers -> Nat]
          /\ \A k \in Workers[p] : k # l => msg'[k] = msg[k]
          /\ ObjectInv' /\ ThreadInv' /\ LostInv'
          /\ \A q \in Procs : q # p => Held(q)' = Held(q)
          /\ Free \in Nat /\ \A q \in Procs : Held(q) \in Nat /\ InRing(q) \in Nat
      BY <1>1, <2>4, WorkerMoves
    <2> HIDE DEF p
    <2>6. ring' \in [Procs -> Seq(Nat \ {0})]
      BY <2>2, <2>3 DEF IInv, TypeOK
    <2>7. TypeOK'
      BY <1>1, <2>5, <2>6 DEF IInv, TypeOK, process
    <2>8. Held(p)' = Held(p) + 1
      BY <1>1, <2>4, <2>5, WorkerTakes DEF Held, process
    <2>9. Conserved'
      <3>1. PICK q \in Procs : q # p
        BY TwoProcs
      <3>2. InRing(q)' = InRing(q)
        BY <2>3, <3>1 DEF InRing, IInv, TypeOK
      <3>3. InRing(p)' = InRing(p) - 1
        <4>1. ring'[p] = Tail(ring[p])
          BY <1>1, <2>2, <2>3 DEF IInv, TypeOK
        <4> QED BY <2>2, <4>1, Zenon DEF InRing
      <3>4. Free' = Free /\ lost' = lost /\ lost \in Nat
        BY <1>1 DEF Free, IInv, TypeOK
      <3>5. (Free' - Free) + (InRing(p)' - InRing(p)) + (InRing(q)' - InRing(q))
               + (Held(p)' - Held(p)) + (Held(q)' - Held(q)) + (lost' - lost) = 0
        <4>1. /\ Held(q)' = Held(q) /\ Held(q) \in Nat /\ Held(p) \in Nat
              /\ InRing(p) \in Nat /\ InRing(q) \in Nat /\ Free \in Nat
          BY <1>1, <2>5, <3>1
        <4> QED BY <2>8, <3>2, <3>3, <3>4, <4>1
      <3> QED BY <1>1, <2>7, <3>1, <3>5, Balance DEF IInv
    <2> QED BY <2>5, <2>7, <2>9 DEF IInv
  <1> QED BY <1>2, <1>3

\* Printing a message keeps the invariant.
LEMMA PrintStep == ASSUME IInv, NEW l \in AllWorkers, PrintMsg(l) PROVE IInv'
  <1> DEFINE p == ProcOf(l)
  <1>1. /\ pc[l] = "print" /\ p \in Procs /\ msg[l] # 0 /\ msg[l] \in Nat
        /\ printed' = [printed EXCEPT ![p] = Append(printed[p], msg[l])]
        /\ pc' = [pc EXCEPT ![l] = "put"]
        /\ UNCHANGED <<process, named, msg, pool, cache, lost, ring, nmsgs>>
    BY ThreadOf DEF PrintMsg, buffers, IInv, ThreadInv, TypeOK
  <1>2. /\ pc' = [pc EXCEPT ![l] = pc'[l]] /\ pc'[l] = "put"
        /\ msg' = [msg EXCEPT ![l] = msg'[l]] /\ msg'[l] = msg[l]
    BY <1>1 DEF IInv, TypeOK
  <1>3. /\ pc' \in [AllWorkers -> {"off", "top", "dequeue", "print", "put", "done"}]
        /\ ObjectInv' /\ ThreadInv' /\ LostInv'
    <2>1. /\ pc[l] # "off" /\ pc'[l] \in {"top", "dequeue", "print", "put", "done"}
          /\ msg'[l] \in Nat /\ (msg'[l] # 0 <=> pc'[l] \in {"print", "put"})
      BY <1>1, <1>2
    <2>2. UNCHANGED <<process, named, lost>> /\ p \in Procs
      BY <1>1
    <2> HIDE <1>1
    <2> QED BY <1>2, <2>1, <2>2, WorkerMoves
  <1> HIDE DEF p
  <1>4. printed' \in [Procs -> Seq(Nat)]
    <2>1. Append(printed[p], msg[l]) \in Seq(Nat)
      BY <1>1, AppendProperties DEF IInv, TypeOK
    <2> QED BY <1>1, <2>1 DEF IInv, TypeOK
  <1>5. TypeOK'
    BY <1>1, <1>3, <1>4 DEF IInv, TypeOK, process
  <1>6. Conserved'
    BY <1>1, <1>5, QuietConserves DEF process
  <1> QED BY <1>3, <1>5, <1>6 DEF IInv

\* Putting the buffer of a message back keeps the invariant.
LEMMA PutBackStep == ASSUME IInv, NEW l \in AllWorkers, PutBack(l) PROVE IInv'
  <1> DEFINE p == ProcOf(l)
  <1>1. /\ pc[l] = "put" /\ p \in Procs /\ msg[l] # 0 /\ msg[l] \in Nat
        /\ MempoolPut(l)
        /\ msg' = [msg EXCEPT ![l] = 0] /\ pc' = [pc EXCEPT ![l] = "top"]
        /\ UNCHANGED <<process, named, lost, ring, nmsgs, printed>>
    BY ThreadOf DEF PutBack, traffic, IInv, ThreadInv, TypeOK
  <1>2. /\ pc' = [pc EXCEPT ![l] = pc'[l]] /\ pc'[l] = "top"
        /\ msg' = [msg EXCEPT ![l] = msg'[l]] /\ msg'[l] = 0
    BY <1>1 DEF IInv, TypeOK
  <1>3. /\ l \in Workers[p] /\ l \in Lcores
        /\ pc' \in [AllWorkers -> {"off", "top", "dequeue", "print", "put", "done"}]
        /\ msg' \in [AllWorkers -> Nat]
        /\ \A k \in Workers[p] : k # l => msg'[k] = msg[k]
        /\ ObjectInv' /\ ThreadInv' /\ LostInv'
        /\ \A q \in Procs : q # p => Held(q)' = Held(q)
        /\ Free \in Nat /\ \A q \in Procs : Held(q) \in Nat /\ InRing(q) \in Nat
    <2>1. /\ pc[l] # "off" /\ pc'[l] \in {"top", "dequeue", "print", "put", "done"}
          /\ msg'[l] \in Nat /\ (msg'[l] # 0 <=> pc'[l] \in {"print", "put"})
      BY <1>1, <1>2
    <2>2. UNCHANGED <<process, named, lost>>
      BY <1>1
    <2> HIDE <1>1
    <2>3. p \in Procs
      BY <1>1
    <2> QED BY <1>2, <2>1, <2>2, <2>3, WorkerMoves
  <1> HIDE DEF p
  <1>4. pool' \in Nat /\ cache' \in [Lcores -> Nat] /\ Free' = Free + 1
    BY <1>1, <1>3, PoolPut DEF IInv
  <1>5. TypeOK'
    BY <1>1, <1>3, <1>4 DEF IInv, TypeOK, process
  <1>6. Held(p)' = Held(p) - 1
    BY <1>1, <1>2, <1>3, WorkerGives DEF Held, process
  <1>7. Conserved'
    <2>1. PICK q \in Procs : q # p
      BY TwoProcs
    <2>2. InRing(p)' = InRing(p) /\ InRing(q)' = InRing(q) /\ lost' = lost /\ lost \in Nat
      BY <1>1 DEF InRing, IInv, TypeOK
    <2>3. (Free' - Free) + (InRing(p)' - InRing(p)) + (InRing(q)' - InRing(q))
             + (Held(p)' - Held(p)) + (Held(q)' - Held(q)) + (lost' - lost) = 0
      <3>1. /\ Held(q)' = Held(q) /\ Held(q) \in Nat /\ Held(p) \in Nat
            /\ InRing(p) \in Nat /\ InRing(q) \in Nat
        BY <1>1, <1>3, <2>1
      <3> QED BY <1>3, <1>4, <1>6, <2>2, <3>1
    <2> QED BY <1>1, <1>5, <2>1, <2>3, Balance DEF IInv
  <1> QED BY <1>3, <1>5, <1>7 DEF IInv

\* Every step keeps the invariant.
LEMMA NextInv == IInv /\ [Next]_vars => IInv'
  <1> SUFFICES ASSUME IInv, [Next]_vars PROVE IInv'
    OBVIOUS
  <1>1. CASE \E p \in Procs : Start(p) \/ MainStep(p) \/ SendGet(p) \/ EndCommands(p)
    BY <1>1, StartStep, GetObjectStep, LaunchStep, NewCmdlineStep, SendEnqueueStep,
       SendDiscardStep, WaitLcoresStep, SendGetStep, EndCommandsStep DEF MainStep
  <1>2. CASE \E l \in AllWorkers : Recv(l)
    BY <1>2, CheckQuitStep, DequeueStep, PrintStep, PutBackStep DEF Recv
  <1>3. CASE Kill
    BY <1>3, KillStep
  <1>4. CASE UNCHANGED vars
    <2>1. /\ UNCHANGED <<main, found, quit, starts, named, pc, msg, pool, cache, lost>>
          /\ UNCHANGED <<ring, nmsgs, printed>>
      BY <1>4 DEF vars, process, threads, buffers, traffic
    <2>2. TypeOK' /\ ObjectInv' /\ ThreadInv' /\ LostInv'
      BY <2>1 DEF IInv, TypeOK, ObjectInv, ThreadInv, LostInv, Running, Ended, PriTook
    <2>3. Conserved'
      BY <2>1, <2>2, QuietConserves
    <2> QED BY <2>2, <2>3 DEF IInv
  <1> QED BY <1>1, <1>2, <1>3, <1>4 DEF Next

-----------------------------------------------------------------------------
\* IInv is an invariant of simple_mp.
THEOREM Invariance == Spec => []IInv
  BY InitInv, NextInv, PTL DEF Spec

\* Type correctness.
THEOREM Typing == Spec => []TypeOK
  <1>1. IInv => TypeOK
    BY DEF IInv
  <1> QED BY <1>1, Invariance, PTL

\* No buffer is lost or freed twice, for any number of lcores and of restarts;
\* processes that ended took at most one for each of their lcores along.
THEOREM BuffersKept == Spec => []BuffersAccounted
  <1>1. IInv => BuffersAccounted
    <2> SUFFICES ASSUME IInv PROVE BuffersAccounted
      OBVIOUS
    <2>1. pool + SumFunction(cache) + Len(ring["pri"]) + Len(ring["sec"])
             + Cardinality(InHand("pri")) + Cardinality(InHand("sec")) + lost = PoolSize
      BY Zenon DEF IInv, Conserved, Free, InRing, Held
    <2>2. /\ Cardinality(LcoresOf("sec")) \in Nat /\ Cardinality(Workers["pri"]) \in Nat
          /\ starts \in Nat /\ lost \in Nat
      BY LcoresFinite, TwoProcs DEF IInv, TypeOK
    <2>3. lost <= Ended * Cardinality(LcoresOf("sec")) + PriTook
      BY DEF IInv, LostInv
    <2>4. PriTook \in Nat /\ PriTook <= Cardinality(Workers["pri"])
      BY <2>2 DEF PriTook
    <2>5. \A a, b \in Nat : (a - 1) * b <= a * b /\ a * b \in Int /\ (a - 1) * b \in Int
      OBVIOUS
    <2>6. /\ Ended * Cardinality(LcoresOf("sec")) <= starts * Cardinality(LcoresOf("sec"))
          /\ Ended * Cardinality(LcoresOf("sec")) \in Int
          /\ starts * Cardinality(LcoresOf("sec")) \in Int
      <3>1. /\ (starts - 1) * Cardinality(LcoresOf("sec"))
                 <= starts * Cardinality(LcoresOf("sec"))
            /\ starts * Cardinality(LcoresOf("sec")) \in Int
            /\ (starts - 1) * Cardinality(LcoresOf("sec")) \in Int
        BY <2>2, <2>5, Zenon
      <3>2. CASE Ended = starts
        BY <3>1, <3>2
      <3>3. CASE Ended = starts - 1
        BY <3>1, <3>3, Zenon
      <3> QED BY <3>2, <3>3 DEF Ended
    <2>7. lost <= starts * Cardinality(LcoresOf("sec")) + Cardinality(Workers["pri"])
      <3>1. PICK a \in Int : a = starts * Cardinality(LcoresOf("sec"))
        BY <2>6, Zenon
      <3>2. PICK b \in Int : b = Ended * Cardinality(LcoresOf("sec"))
        BY <2>6, Zenon
      <3>3. lost <= b + PriTook /\ b <= a
        BY <2>3, <2>6, <3>1, <3>2, Zenon
      <3>4. lost <= a + Cardinality(Workers["pri"])
        BY <2>2, <2>4, <3>3
      <3> QED BY <3>1, <3>4, Zenon
    <2> QED BY <2>1, <2>7 DEF BuffersAccounted
  <1> QED BY <1>1, Invariance, PTL

\* No lcore uses a ring or a pool that was not created, however the two
\* processes start and fail.
THEOREM ObjectsThere == Spec => []ObjectsPresent
  <1>1. IInv => ObjectsPresent
    BY ThreadOf DEF IInv, ObjectInv, ThreadInv, ObjectsPresent
  <1> QED BY <1>1, Invariance, PTL

-----------------------------------------------------------------------------
(* When a send command panics.                                             *)

\* What the rings can hold, and the caches and hands of the lcores but one.
Parked == 2 * RingSize + (Cardinality(Lcores) - 1) * (FlushThresh + 1)

\* A send command that panics finds the cache of its lcore and the pool empty;
\* whatever the rings, the other caches and the other hands cannot hold has
\* gone with processes that ended.
PanicNeedsLosses == (\E p \in Procs : main[p] = "panic") => PoolSize <= Parked + lost

\* The rings and the caches keep to their sizes.
SizeInv ==
    /\ \A l \in Lcores : cache[l] <= FlushThresh
    /\ \A p \in Procs : Len(ring[p]) <= RingSize

\* The sizes of the caches are natural numbers.
LEMMA Thresh == FlushThresh \in Nat /\ CacheSize <= FlushThresh /\ 1 <= FlushThresh
  BY SizeAssumption DEF FlushThresh

\* A cache that is filled keeps to its size.
LEMMA GetKeepsSize ==
    ASSUME TypeOK, SizeInv, NEW l \in Lcores, MempoolGet(l), CanGet(l)
    PROVE  \A k \in Lcores : cache'[k] <= FlushThresh
  <1>1. /\ \A k \in Lcores : k # l => cache'[k] = cache[k]
        /\ cache'[l] = cache[l] - 1 \/ cache'[l] = CacheSize \/ cache'[l] = 0
    <2>1. cache[l] \in Nat /\ pool \in Nat /\ CacheSize \in Nat
      BY SizeAssumption DEF TypeOK
    <2> QED BY <2>1 DEF TypeOK, MempoolGet
  <1>2. cache[l] \in Nat /\ cache[l] <= FlushThresh
    BY DEF SizeInv, TypeOK
  <1>3. cache'[l] <= FlushThresh
    BY <1>1, <1>2, Thresh, SizeAssumption
  <1> QED BY <1>1, <1>3 DEF SizeInv

\* So does one that takes a buffer back.
LEMMA PutKeepsSize ==
    ASSUME TypeOK, SizeInv, NEW l \in Lcores, MempoolPut(l)
    PROVE  \A k \in Lcores : cache'[k] <= FlushThresh
  <1>1. /\ \A k \in Lcores : k # l => cache'[k] = cache[k]
        /\ \/ cache[l] < FlushThresh /\ cache'[l] = cache[l] + 1
           \/ cache'[l] = 1
    BY DEF TypeOK, MempoolPut
  <1>2. cache[l] \in Nat
    BY DEF TypeOK
  <1>3. cache'[l] <= FlushThresh
    BY <1>1, <1>2, Thresh
  <1> QED BY <1>1, <1>3 DEF SizeInv

\* Every step keeps the rings and the caches to their sizes.
LEMMA SizeNext == ASSUME IInv, SizeInv, [Next]_vars PROVE SizeInv'
  <1> USE DEF IInv
  <1>1. ASSUME UNCHANGED <<cache, ring>> PROVE SizeInv'
    BY <1>1 DEF SizeInv
  <1>2. ASSUME NEW p \in Procs, SendGet(p) PROVE SizeInv'
    <2>1. UNCHANGED ring
      BY <1>2 DEF SendGet, traffic
    <2>2. CASE CanGet(MainLcore[p])
      <3>1. MempoolGet(MainLcore[p])
        BY <1>2, <2>2 DEF SendGet
      <3> QED BY <2>1, <2>2, <3>1, MainThread, GetKeepsSize DEF SizeInv
    <2>3. CASE ~CanGet(MainLcore[p])
      BY <1>1, <1>2, <2>1, <2>3 DEF SendGet
    <2> QED BY <2>2, <2>3
  <1>3. ASSUME NEW p \in Procs, SendEnqueue(p) PROVE SizeInv'
    <2> DEFINE q == Other(p)
    <2>1. /\ q \in Procs /\ nmsgs + 1 \in Nat \ {0} /\ UNCHANGED cache
          /\ RingSize \in Nat
      BY <1>3, TwoProcs, SizeAssumption DEF SendEnqueue, buffers, TypeOK
    <2>2. CASE Len(ring[q]) < RingSize
      <3>1. ring' = [ring EXCEPT ![q] = Append(@, nmsgs + 1)]
        BY <1>3, <2>2 DEF SendEnqueue
      <3> HIDE DEF q
      <3>2. /\ ring[q] \in Seq(Nat \ {0})
            /\ Len(Append(ring[q], nmsgs + 1)) = Len(ring[q]) + 1 /\ Len(ring[q]) \in Nat
        BY <2>1, AppendProperties DEF TypeOK
      <3>3. \A r \in Procs : ring'[r] = IF r = q THEN Append(ring[q], nmsgs + 1) ELSE ring[r]
        BY <3>1 DEF TypeOK
      <3>4. \A r \in Procs : Len(ring'[r]) <= RingSize
        <4>1. Len(ring[q]) + 1 <= RingSize
          BY <2>1, <2>2, <3>2
        <4> QED BY <3>2, <3>3, <4>1 DEF SizeInv
      <3> QED BY <2>1, <3>4 DEF SizeInv
    <2>3. CASE ~(Len(ring[q]) < RingSize)
      BY <1>1, <1>3, <2>1, <2>3 DEF SendEnqueue
    <2> QED BY <2>2, <2>3
  <1>4. ASSUME NEW p \in Procs, SendDiscard(p) PROVE SizeInv'
    <2>1. UNCHANGED ring /\ MempoolPut(MainLcore[p])
      BY <1>4 DEF SendDiscard, PutDiscarded, traffic
    <2> QED BY <2>1, MainThread, PutKeepsSize DEF SizeInv
  <1>5. ASSUME NEW l \in AllWorkers, Dequeue(l) PROVE SizeInv'
    <2> DEFINE p == ProcOf(l)
    <2>1. p \in Procs /\ UNCHANGED cache
      BY <1>5, ThreadOf DEF Dequeue, buffers
    <2>2. CASE ring[p] = <<>>
      BY <1>1, <1>5, <2>1, <2>2 DEF Dequeue
    <2>3. CASE ring[p] # <<>>
      <3>1. ring' = [ring EXCEPT ![p] = RemoveAt(ring[p], Oldest(ring[p]))]
        BY <1>5, <2>3 DEF Dequeue
      <3> HIDE DEF p
      <3>2. /\ Len(RemoveAt(ring[p], Oldest(ring[p]))) = Len(ring[p]) - 1
            /\ Len(ring[p]) \in Nat
        BY <2>1, <2>3, DequeueFacts DEF TypeOK
      <3>3. \A r \in Procs : ring'[r] =
                IF r = p THEN RemoveAt(ring[p], Oldest(ring[p])) ELSE ring[r]
        BY <3>1 DEF TypeOK
      <3>4. \A r \in Procs : Len(ring'[r]) <= RingSize
        <4>1. Len(ring[p]) - 1 <= RingSize
          BY <2>1, <3>2, SizeAssumption DEF SizeInv
        <4> QED BY <3>2, <3>3, <4>1 DEF SizeInv
      <3> QED BY <2>1, <3>4 DEF SizeInv
    <2> QED BY <2>2, <2>3
  <1>6. ASSUME NEW l \in AllWorkers, PutBack(l) PROVE SizeInv'
    <2>1. UNCHANGED ring /\ MempoolPut(l) /\ l \in Lcores
      BY <1>6, ThreadOf, Threads DEF PutBack, traffic
    <2> QED BY <2>1, PutKeepsSize DEF SizeInv
  <1>7. CASE UNCHANGED vars
    BY <1>1, <1>7 DEF vars, buffers, traffic
  <1>8. CASE \E l \in AllWorkers : CheckQuit(l) \/ PrintMsg(l)
    BY <1>1, <1>8 DEF CheckQuit, PrintMsg, buffers, traffic
  <1>9. CASE Kill
    BY <1>1, <1>9 DEF Kill, traffic
  <1>10. ASSUME NEW p \in Procs,
                Start(p) \/ GetObject(p) \/ Launch(p) \/ NewCmdline(p)
                  \/ EndCommands(p) \/ WaitLcores(p)
         PROVE  SizeInv'
    BY <1>1, <1>10 DEF Start, GetObject, Launch, NewCmdline, EndCommands, WaitLcores,
       buffers, traffic
  <1> QED BY <1>2, <1>3, <1>4, <1>5, <1>6, <1>7, <1>8, <1>9, <1>10 DEF Next, MainStep, Recv

\* The lcores but one hold this many buffers in their caches and hands.
LEMMA OthersHold ==
    ASSUME IInv, SizeInv, NEW p \in Procs,
           main[p] = "cmd", cache[MainLcore[p]] = 0
    PROVE  SumFunction(cache) + Held("pri") + Held("sec")
             <= (Cardinality(Lcores) - 1) * (FlushThresh + 1)
  <1> DEFINE m == MainLcore[p]
             R == Lcores \ {m}
             K == Cardinality(Lcores) - 1
  <1>1. /\ m \in Lcores /\ IsFiniteSet(R) /\ Cardinality(R) = K /\ K \in Nat
    <2>1. m \in Lcores /\ IsFiniteSet(Lcores)
      BY MainThread, LcoresFinite
    <2>2. IsFiniteSet(R) /\ Cardinality(R) = K
      BY <2>1, FS_RemoveElement
    <2> QED BY <2>1, <2>2, FS_CardinalityType
  <1>2. SumFunction(cache) <= K * FlushThresh /\ SumFunction(cache) \in Nat
    <2>1. /\ DOMAIN cache = Lcores /\ \A l \in Lcores : cache[l] \in Nat
          /\ \A l \in R : cache[l] \in Nat /\ cache[l] <= FlushThresh
      BY DEF IInv, TypeOK, SizeInv
    <2>2. SumFunctionOnSet(cache, R) <= Cardinality(R) * FlushThresh
      BY <1>1, <2>1, Thresh, SumAtMost
    <2>3. SumFunctionOnSet(cache, Lcores) = cache[m] + SumFunctionOnSet(cache, R)
      BY <1>1, <2>1, LcoresFinite, SumRemove
    <2>4. SumFunctionOnSet(cache, R) \in Nat
      BY <1>1, <2>1, SumNat
    <2>5. SumFunction(cache) = SumFunctionOnSet(cache, R)
      <3> HIDE DEF R
      <3> QED BY <2>1, <2>3, <2>4 DEF SumFunction
    <2> QED BY <1>1, <2>2, <2>4, <2>5
  <1>3. Held("pri") + Held("sec") <= K /\ Held("pri") \in Nat /\ Held("sec") \in Nat
    <2> DEFINE A == InHand("pri")
               B == InHand("sec")
    <2>1. A \subseteq R /\ B \subseteq R
      <3>1. \A q \in Procs : InHand(q) \subseteq Lcores
        BY DEF InHand, Lcores, Procs
      <3>2. \A q \in Procs : m \notin InHand(q)
        <4> TAKE q \in Procs
        <4>1. CASE q = p
          BY <4>1 DEF InHand
        <4>2. CASE q # p
          BY <4>2, MainThread, LcoreAssumption DEF InHand, Procs
        <4> QED BY <4>1, <4>2
      <3> QED BY <3>1, <3>2, TwoProcs
    <2>2. A \cap B = {}
      BY LcoreAssumption DEF InHand
    <2>3. IsFiniteSet(A) /\ IsFiniteSet(B) /\ Cardinality(A) \in Nat /\ Cardinality(B) \in Nat
      BY HandFinite, TwoProcs
    <2>4. Cardinality(A \cup B) = Cardinality(A) + Cardinality(B)
      <3>1. Cardinality(A \cup B) = Cardinality(A) + Cardinality(B) - Cardinality(A \cap B)
        BY <2>3, FS_Union
      <3>2. Cardinality(A \cap B) = 0
        BY <2>2, FS_EmptySet
      <3> HIDE DEF A, B
      <3> QED BY <2>3, <3>1, <3>2
    <2>5. Cardinality(A \cup B) <= Cardinality(R)
      BY <1>1, <2>1, FS_Subset
    <2> QED BY <1>1, <2>3, <2>4, <2>5 DEF Held
  <1> HIDE DEF K
  <1>4. K * FlushThresh + K = K * (FlushThresh + 1) /\ K * FlushThresh \in Int
    BY <1>1, Thresh
  <1>5. PICK v \in Int : v = K * FlushThresh
    BY <1>4
  <1>6. SumFunction(cache) + Held("pri") + Held("sec") <= v + K
    <2>1. PICK s \in Nat : s = SumFunction(cache)
      BY <1>2
    <2> QED BY <1>1, <1>2, <1>3, <1>5, <2>1
  <1>7. SumFunction(cache) + Held("pri") + Held("sec") <= K * (FlushThresh + 1)
    BY <1>4, <1>5, <1>6
  <1> QED BY <1>7 DEF K

\* A send command that finds no buffer.
LEMMA PanicStep ==
    ASSUME IInv, SizeInv, NEW p \in Procs, main[p] = "cmd", ~CanGet(MainLcore[p])
    PROVE  PoolSize <= Parked + lost
  <1>1. pool = 0 /\ cache[MainLcore[p]] = 0
    BY MainThread DEF CanGet, IInv, TypeOK
  <1>2. SumFunction(cache) + Held("pri") + Held("sec")
             <= (Cardinality(Lcores) - 1) * (FlushThresh + 1)
    BY <1>1, OthersHold
  <1>3. pool + SumFunction(cache) + InRing("pri") + InRing("sec")
           + Held("pri") + Held("sec") + lost = PoolSize
    BY Zenon DEF IInv, Conserved, Free
  <1>4. /\ InRing("pri") \in Nat /\ InRing("sec") \in Nat
        /\ InRing("pri") <= RingSize /\ InRing("sec") <= RingSize
    BY CountTypes, TwoProcs DEF IInv, SizeInv, InRing
  <1>5. /\ SumFunction(cache) \in Nat /\ Held("pri") \in Nat /\ Held("sec") \in Nat
        /\ lost \in Nat /\ RingSize \in Nat
    BY CountTypes, TwoProcs, SizeAssumption DEF IInv, TypeOK
  <1>6. (Cardinality(Lcores) - 1) * (FlushThresh + 1) \in Int
    BY LcoresFinite, FS_CardinalityType, Thresh
  <1>7. PICK v \in Int : v = (Cardinality(Lcores) - 1) * (FlushThresh + 1)
    BY <1>6
  <1>8. PICK s \in Nat : s = SumFunction(cache)
    BY <1>5
  <1>9. PoolSize <= 2 * RingSize + v + lost
    BY <1>1, <1>2, <1>3, <1>4, <1>5, <1>7, <1>8
  <1> QED BY <1>7, <1>9 DEF Parked

\* The buffers that are lost stay so.
LEMMA LostGrows == ASSUME IInv, [Next]_vars PROVE lost <= lost' /\ lost \in Nat /\ lost' \in Nat
  <1>1. IInv'
    BY NextInv
  <1>2. lost \in Nat /\ lost' \in Nat
    BY <1>1 DEF IInv, TypeOK
  <1> SUFFICES lost <= lost'
    BY <1>2
  <1>3. ASSUME NEW p \in Procs, NEW s, Die(p, s) PROVE lost <= lost'
    BY <1>2, <1>3, HandFinite DEF Die
  <1>4. CASE UNCHANGED lost
    BY <1>2, <1>4
  <1>5. CASE Kill
    BY <1>3, <1>5, TwoProcs DEF Kill
  <1>6. ASSUME NEW p \in Procs, SendGet(p) \/ NewCmdline(p) \/ WaitLcores(p)
        PROVE  lost <= lost'
    BY <1>3, <1>4, <1>6 DEF SendGet, NewCmdline, WaitLcores
  <1>7. ASSUME NEW p \in Procs,
               Start(p) \/ GetObject(p) \/ Launch(p) \/ SendEnqueue(p) \/ SendDiscard(p)
                 \/ EndCommands(p)
        PROVE  lost <= lost'
    BY <1>4, <1>7 DEF Start, GetObject, Launch, SendEnqueue, SendDiscard, EndCommands, buffers
  <1>8. ASSUME NEW l \in AllWorkers, Recv(l) PROVE lost <= lost'
    BY <1>4, <1>8 DEF Recv, CheckQuit, Dequeue, PrintMsg, PutBack, buffers
  <1>9. CASE UNCHANGED vars
    BY <1>4, <1>9 DEF vars, buffers
  <1>10. CASE Next
    BY <1>5, <1>6, <1>7, <1>8, <1>10 DEF Next, MainStep
  <1> QED BY <1>2, <1>9, <1>10

\* A process comes to panic only in a send command that finds no buffer.
LEMMA PanicIs ==
    ASSUME IInv, [Next]_vars, NEW p \in Procs, main[p] # "panic", main'[p] = "panic"
    PROVE  main[p] = "cmd" /\ ~CanGet(MainLcore[p])
  <1> SUFFICES ASSUME ~(SendGet(p) /\ ~CanGet(MainLcore[p])) PROVE FALSE
    BY DEF SendGet
  <1> USE DEF IInv, TypeOK, Stages, Gone
  <1>1. ASSUME NEW q \in Procs, NEW s, s # "panic", Goto(q, s) PROVE FALSE
    BY <1>1 DEF Goto
  <1>2. ASSUME NEW q \in Procs, Die(q, "exited") PROVE FALSE
    BY <1>1, <1>2 DEF Die
  <1>3. CASE UNCHANGED main
    BY <1>3
  <1>4. CASE Kill
    BY <1>2, <1>4, TwoProcs DEF Kill
  <1>5. ASSUME NEW q \in Procs, NewCmdline(q) \/ WaitLcores(q) PROVE FALSE
    BY <1>1, <1>2, <1>5 DEF NewCmdline, WaitLcores
  <1>6. ASSUME NEW q \in Procs,
               Start(q) \/ Launch(q) \/ SendEnqueue(q) \/ SendDiscard(q) \/ EndCommands(q)
        PROVE  FALSE
    BY <1>1, <1>6 DEF Start, Launch, SendEnqueue, SendDiscard, EndCommands
  <1>7. ASSUME NEW q \in Procs, SendGet(q) PROVE FALSE
    <2>1. CASE CanGet(MainLcore[q])
      BY <1>1, <1>7, <2>1 DEF SendGet
    <2>2. CASE ~CanGet(MainLcore[q])
      <3>1. q # p
        BY <1>7, <2>2
      <3> QED BY <1>7, <2>2, <3>1 DEF SendGet, Die, Goto
    <2> QED BY <2>1, <2>2
  <1>8. ASSUME NEW q \in Procs, GetObject(q) PROVE FALSE
    BY <1>3, <1>8 DEF GetObject
  <1>9. ASSUME NEW l \in AllWorkers, Recv(l) PROVE FALSE
    BY <1>3, <1>9 DEF Recv, CheckQuit, Dequeue, PrintMsg, PutBack, process
  <1>10. CASE UNCHANGED vars
    BY <1>3, <1>10 DEF vars, process
  <1> QED BY <1>4, <1>5, <1>6, <1>7, <1>8, <1>9, <1>10 DEF Next, MainStep

\* A send command panics only when what the rings and the caches of the other
\* lcores cannot hold was lost with processes that ended, for any sizes.
THEOREM PanicExplained == Spec => []PanicNeedsLosses
  <1>1. Init => SizeInv /\ PanicNeedsLosses
    <2> SUFFICES ASSUME Init PROVE SizeInv /\ PanicNeedsLosses
      OBVIOUS
    <2>1. \A l \in Lcores : cache[l] = 0
      BY DEF Init
    <2>2. \A p \in Procs : Len(ring[p]) = 0 /\ main[p] = "off"
      BY DEF Init
    <2> QED BY <2>1, <2>2, Thresh, SizeAssumption DEF SizeInv, PanicNeedsLosses
  <1>2. ASSUME IInv, SizeInv, PanicNeedsLosses, [Next]_vars
        PROVE  SizeInv' /\ PanicNeedsLosses'
    <2>1. SizeInv'
      BY <1>2, SizeNext
    <2>2. ASSUME NEW p \in Procs, main'[p] = "panic" PROVE PoolSize <= Parked + lost
      BY <1>2, <2>2, PanicIs, PanicStep DEF PanicNeedsLosses
    <2>3. Parked \in Int /\ PoolSize \in Nat
      <3>1. (Cardinality(Lcores) - 1) * (FlushThresh + 1) \in Int
        BY LcoresFinite, FS_CardinalityType, Thresh
      <3> QED BY <3>1, SizeAssumption DEF Parked
    <2>4. PanicNeedsLosses'
      BY <1>2, <2>2, <2>3, LostGrows DEF PanicNeedsLosses
    <2> QED BY <2>1, <2>4
  <1> QED BY <1>1, <1>2, Invariance, PTL DEF Spec

\* With the sizes in main() of the lab and its four lcores (rings of 63, 1024
\* buffers, caches of 32), no process panics before 751 buffers have gone with
\* processes that ended, the one that panics included: the secondary must have
\* started 375 times.
THEOREM LabSizesSuffice ==
    ASSUME RingSize = 63, PoolSize = 1024, CacheSize = 32,
           \A p \in Procs : Cardinality(Workers[p]) = 1
    PROVE  Spec => []((\E p \in Procs : main[p] = "panic") => lost >= 751 /\ starts >= 375)
  <1>1. Cardinality(LcoresOf("sec")) = 2 /\ Cardinality(LcoresOf("pri")) = 2
    <2>1. \A p \in Procs : Cardinality(LcoresOf(p)) = 2
      <3> TAKE p \in Procs
      <3>1. MainLcore[p] \notin Workers[p] /\ IsFiniteSet(Workers[p])
        BY LcoreAssumption
      <3>2. Cardinality(Workers[p] \cup {MainLcore[p]}) = Cardinality(Workers[p]) + 1
        BY <3>1, FS_AddElement
      <3>3. LcoresOf(p) = Workers[p] \cup {MainLcore[p]}
        BY DEF LcoresOf
      <3> QED BY <3>2, <3>3
    <2> QED BY <2>1, TwoProcs
  <1>2. Cardinality(Lcores) = 4
    <2>1. Cardinality(Lcores) = Cardinality(LcoresOf("pri")) + Cardinality(LcoresOf("sec"))
                                  - Cardinality(LcoresOf("pri") \cap LcoresOf("sec"))
      BY LcoresFinite, TwoProcs, FS_Union DEF Lcores
    <2> QED BY <1>1, <2>1, LcoreAssumption, FS_EmptySet
  <1>3. FlushThresh = 48
    BY DEF FlushThresh
  <1>4. Parked = 273
    BY <1>2, <1>3 DEF Parked
  <1>5. TypeOK /\ BuffersAccounted /\ PanicNeedsLosses
          => ((\E p \in Procs : main[p] = "panic") => lost >= 751 /\ starts >= 375)
    <2> SUFFICES ASSUME TypeOK, BuffersAccounted, PanicNeedsLosses,
                        \E p \in Procs : main[p] = "panic"
                 PROVE  lost >= 751 /\ starts >= 375
      OBVIOUS
    <2>1. lost \in Nat /\ starts \in Nat
      BY DEF TypeOK
    <2>2. lost >= 751
      BY <1>4, <2>1 DEF PanicNeedsLosses
    <2>3. lost <= starts * 2 + 1
      BY <1>1, TwoProcs DEF BuffersAccounted
    <2> QED BY <2>1, <2>2, <2>3
  <1> QED BY <1>5, Typing, BuffersKept, PanicExplained, PTL

-----------------------------------------------------------------------------
(* The channel between the processes.                                      *)

\* One lcore of each process runs lcore_recv(), as the lab starts them.
OneReceiver == \A p \in Procs : \E l : Workers[p] = {l}

\* The send commands under way do not exceed the bound on their number.
Enqueuing(p) == IF main[p] = "enqueue" THEN 1 ELSE 0

\* The send commands do not exceed their bound, the ones under way included.
CountInv == nmsgs + Enqueuing("pri") + Enqueuing("sec") <= MaxMsgs

\* The guard of the send command in terms of CountInv.
LEMMA CountEnqueuing ==
    Cardinality({q \in Procs : main[q] = "enqueue"}) = Enqueuing("pri") + Enqueuing("sec")
  <1> DEFINE E == {q \in Procs : main[q] = "enqueue"}
  <1>1. /\ Cardinality({}) = 0 /\ Cardinality({"pri"}) = 1 /\ Cardinality({"sec"}) = 1
    BY FS_EmptySet, FS_Singleton
  <1>2. Cardinality({"pri", "sec"}) = 2
    <2>1. Cardinality({"pri"} \cup {"sec"}) = Cardinality({"pri"}) + 1
      BY FS_Singleton, FS_AddElement
    <2>2. {"pri"} \cup {"sec"} = {"pri", "sec"}
      OBVIOUS
    <2> QED BY <1>1, <2>1, <2>2
  <1>3. CASE main["pri"] = "enqueue" /\ main["sec"] = "enqueue"
    <2>1. E = {"pri", "sec"}
      BY <1>3 DEF Procs
    <2> QED BY <1>2, <1>3, <2>1 DEF Enqueuing
  <1>4. CASE main["pri"] = "enqueue" /\ main["sec"] # "enqueue"
    <2>1. E = {"pri"}
      BY <1>4 DEF Procs
    <2> QED BY <1>1, <1>4, <2>1 DEF Enqueuing
  <1>5. CASE main["pri"] # "enqueue" /\ main["sec"] = "enqueue"
    <2>1. E = {"sec"}
      BY <1>5 DEF Procs
    <2> QED BY <1>1, <1>5, <2>1 DEF Enqueuing
  <1>6. CASE main["pri"] # "enqueue" /\ main["sec"] # "enqueue"
    <2>1. E = {}
      BY <1>6 DEF Procs
    <2> QED BY <1>1, <1>6, <2>1 DEF Enqueuing
  <1> QED BY <1>3, <1>4, <1>5, <1>6

\* The bound holds initially.
LEMMA CountInit == Init => CountInv
  <1> SUFFICES ASSUME Init PROVE CountInv
    OBVIOUS
  <1>1. Enqueuing("pri") = 0 /\ Enqueuing("sec") = 0 /\ nmsgs = 0
    BY TwoProcs DEF Init, Enqueuing
  <1> QED BY <1>1, SizeAssumption DEF CountInv

\* A step that enqueues nothing and does not come to it.
LEMMA CountSame ==
    ASSUME IInv, CountInv, nmsgs' = nmsgs,
           \A p \in Procs : main'[p] = "enqueue" => main[p] = "enqueue"
    PROVE  CountInv'
  <1>1. /\ Enqueuing("pri")' <= Enqueuing("pri") /\ Enqueuing("sec")' <= Enqueuing("sec")
        /\ Enqueuing("pri") \in Nat /\ Enqueuing("sec") \in Nat
        /\ Enqueuing("pri")' \in Nat /\ Enqueuing("sec")' \in Nat
    BY TwoProcs DEF Enqueuing
  <1> QED BY <1>1, SizeAssumption DEF CountInv, IInv, TypeOK

\* Every step keeps the bound.
LEMMA CountNext == ASSUME IInv, CountInv, [Next]_vars PROVE CountInv'
  <1>0. /\ nmsgs \in Nat /\ MaxMsgs \in Nat /\ main \in [Procs -> Stages]
        /\ "pri" \in Procs /\ "sec" \in Procs
        /\ \A q \in Procs : q = "pri" \/ q = "sec"
    BY SizeAssumption, TwoProcs DEF IInv, TypeOK, Procs
  <1>1. ASSUME NEW p \in Procs, NEW s, s # "enqueue", Goto(p, s), nmsgs' = nmsgs
        PROVE  CountInv'
    <2>1. \A q \in Procs : main'[q] = "enqueue" => main[q] = "enqueue"
      BY <1>0, <1>1 DEF Goto
    <2> QED BY <1>1, <2>1, CountSame
  <1>2. ASSUME NEW p \in Procs, Start(p) \/ GetObject(p) \/ Launch(p) \/ NewCmdline(p)
                                  \/ SendDiscard(p) \/ EndCommands(p) \/ WaitLcores(p)
        PROVE  CountInv'
    <2>1. nmsgs' = nmsgs
      BY <1>2 DEF Start, GetObject, Launch, NewCmdline, SendDiscard, EndCommands, WaitLcores,
                  traffic
    <2>2. main' = main \/ \E s \in {"objects", "cmdline", "exited", "cmd", "wait"} : Goto(p, s)
      BY <1>2 DEF Start, GetObject, Launch, NewCmdline, SendDiscard, EndCommands, WaitLcores,
                  Die
    <2>3. CASE main' = main
      BY <2>1, <2>3, CountSame
    <2>4. CASE \E s \in {"objects", "cmdline", "exited", "cmd", "wait"} : Goto(p, s)
      BY <1>1, <2>1, <2>4
    <2> QED BY <2>2, <2>3, <2>4
  <1>3. ASSUME NEW p \in Procs, SendGet(p) PROVE CountInv'
    <2>1. nmsgs' = nmsgs /\ main[p] = "cmd"
          /\ nmsgs + Enqueuing("pri") + Enqueuing("sec") < MaxMsgs
      <3>1. /\ nmsgs' = nmsgs /\ main[p] = "cmd"
            /\ nmsgs + Cardinality({q \in Procs : main[q] = "enqueue"}) < MaxMsgs
        BY <1>3 DEF SendGet, traffic
      <3>2. nmsgs + (Enqueuing("pri") + Enqueuing("sec")) < MaxMsgs
        BY <3>1, CountEnqueuing
      <3>3. Enqueuing("pri") \in Nat /\ Enqueuing("sec") \in Nat
        BY DEF Enqueuing
      <3> QED BY <1>0, <3>1, <3>2, <3>3
    <2>2. CASE Goto(p, "enqueue")
      <3>1. CASE p = "pri"
        <4>1. /\ Enqueuing("pri") = 0 /\ Enqueuing("pri")' = 1
              /\ Enqueuing("sec")' = Enqueuing("sec") /\ Enqueuing("sec") \in Nat
          BY <1>0, <2>1, <2>2, <3>1, TwoProcs DEF Goto, Enqueuing
        <4> QED BY <1>0, <2>1, <4>1 DEF CountInv
      <3>2. CASE p = "sec"
        <4>1. /\ Enqueuing("sec") = 0 /\ Enqueuing("sec")' = 1
              /\ Enqueuing("pri")' = Enqueuing("pri") /\ Enqueuing("pri") \in Nat
          BY <1>0, <2>1, <2>2, <3>2, TwoProcs DEF Goto, Enqueuing
        <4> QED BY <1>0, <2>1, <4>1 DEF CountInv
      <3> QED BY <1>0, <3>1, <3>2
    <2>3. CASE Die(p, "panic")
      BY <1>1, <2>1, <2>3 DEF Die
    <2> QED BY <1>3, <2>2, <2>3 DEF SendGet
  <1>4. ASSUME NEW p \in Procs, SendEnqueue(p) PROVE CountInv'
    <2>1. /\ nmsgs' = nmsgs + 1 /\ main[p] = "enqueue"
          /\ Goto(p, "cmd") \/ Goto(p, "discard")
      BY <1>4 DEF SendEnqueue
    <2>2. CASE p = "pri"
      <3>1. /\ Enqueuing("pri") = 1 /\ Enqueuing("pri")' = 0
            /\ Enqueuing("sec")' = Enqueuing("sec") /\ Enqueuing("sec") \in Nat
        BY <1>0, <2>1, <2>2, TwoProcs DEF Goto, Enqueuing
      <3> QED BY <1>0, <2>1, <3>1 DEF CountInv
    <2>3. CASE p = "sec"
      <3>1. /\ Enqueuing("sec") = 1 /\ Enqueuing("sec")' = 0
            /\ Enqueuing("pri")' = Enqueuing("pri") /\ Enqueuing("pri") \in Nat
        BY <1>0, <2>1, <2>3, TwoProcs DEF Goto, Enqueuing
      <3> QED BY <1>0, <2>1, <3>1 DEF CountInv
    <2> QED BY <1>0, <2>2, <2>3
  <1>5. CASE Kill
    <2>1. Goto("sec", "exited") /\ nmsgs' = nmsgs
      BY <1>5 DEF Kill, Die, traffic
    <2> QED BY <1>0, <1>1, <2>1
  <1>6. CASE (\E l \in AllWorkers : Recv(l)) \/ UNCHANGED vars
    <2>1. main' = main /\ nmsgs' = nmsgs
      BY <1>6 DEF Recv, CheckQuit, Dequeue, PrintMsg, PutBack, process, vars, traffic
    <2> QED BY <2>1, CountSame
  <1> QED BY <1>2, <1>3, <1>4, <1>5, <1>6 DEF Next, MainStep

\* With one receiving lcore: its message, then the ring.
LEMMA InFlightIs ==
    ASSUME NEW p \in Procs, NEW l, Workers[p] = {l}, ring[p] \in Seq(Nat)
    PROVE  InFlight[p] = IF pc[l] = "print" THEN <<msg[l]>> \o ring[p] ELSE ring[p]
  <1> DEFINE h == {k \in Workers[p] : pc[k] = "print"}
  <1>1. InFlight[p] = (IF h = {} THEN <<>> ELSE <<msg[CHOOSE k \in h : TRUE]>>) \o ring[p]
    BY DEF InFlight, UnderWay
  <1>2. CASE pc[l] # "print"
    <2>1. h = {}
      BY <1>2
    <2>2. <<>> \o ring[p] = ring[p]
      OBVIOUS
    <2> QED BY <1>1, <1>2, <2>1, <2>2, Zenon
  <1>3. CASE pc[l] = "print"
    <2>1. h = {l}
      BY <1>3
    <2>2. (CHOOSE k \in {l} : TRUE) = l
      OBVIOUS
    <2>3. h # {}
      BY <2>1
    <2>4. (CHOOSE k \in h : TRUE) = l
      BY <2>1, <2>2, Zenon
    <2> HIDE DEF h
    <2> QED BY <1>1, <1>3, <2>3, <2>4, Zenon
  <1> QED BY <1>2, <1>3

\* The same after a step.
LEMMA InFlightNext ==
    ASSUME NEW p \in Procs, NEW l, Workers[p] = {l}, ring'[p] \in Seq(Nat)
    PROVE  InFlight'[p] = IF pc'[l] = "print" THEN <<msg'[l]>> \o ring'[p] ELSE ring'[p]
  <1> DEFINE h == {k \in Workers[p] : pc'[k] = "print"}
  <1>1. InFlight'[p] = (IF h = {} THEN <<>> ELSE <<msg'[CHOOSE k \in h : TRUE]>>) \o ring'[p]
    BY DEF InFlight, UnderWay
  <1>2. CASE pc'[l] # "print"
    <2>1. h = {}
      BY <1>2
    <2>2. <<>> \o ring'[p] = ring'[p]
      OBVIOUS
    <2> QED BY <1>1, <1>2, <2>1, <2>2, Zenon
  <1>3. CASE pc'[l] = "print"
    <2>1. h = {l}
      BY <1>3
    <2>2. (CHOOSE k \in {l} : TRUE) = l
      OBVIOUS
    <2>3. h # {}
      BY <2>1
    <2>4. (CHOOSE k \in h : TRUE) = l
      BY <2>1, <2>2, Zenon
    <2> HIDE DEF h
    <2> QED BY <1>1, <1>3, <2>3, <2>4, Zenon
  <1> QED BY <1>2, <1>3

\* A step of no account to the message that worker l has yet to print.
SameHand(l) ==
    /\ pc'[l] = "print" <=> pc[l] = "print"
    /\ pc[l] = "print" => msg'[l] = msg[l]

\* A process whose ring and messages to print do not change.
LEMMA InFlightSame ==
    ASSUME NEW p \in Procs, ring'[p] = ring[p], \A l \in Workers[p] : SameHand(l)
    PROVE  InFlight'[p] = InFlight[p]
  <1> USE DEF SameHand
  <1>1. {l \in Workers[p] : pc'[l] = "print"} = {l \in Workers[p] : pc[l] = "print"}
    OBVIOUS
  <1> DEFINE h == {l \in Workers[p] : pc[l] = "print"}
  <1>2. CASE h = {}
    BY <1>1, <1>2 DEF InFlight, UnderWay
  <1>3. CASE h # {}
    <2>1. (CHOOSE l \in h : TRUE) \in h
      BY <1>3
    <2>2. msg'[CHOOSE l \in h : TRUE] = msg[CHOOSE l \in h : TRUE]
      BY <2>1
    <2>3. /\ InFlight'[p] = <<msg'[CHOOSE l \in h : TRUE]>> \o ring'[p]
          /\ InFlight[p] = <<msg[CHOOSE l \in h : TRUE]>> \o ring[p]
      BY <1>1, <1>3 DEF InFlight, UnderWay
    <2> QED BY <2>2, <2>3
  <1> QED BY <1>2, <1>3

\* What is under way is a function of the process.
LEMMA InFlightFunction ==
    /\ InFlight = [p \in Procs |-> InFlight[p]]
    /\ InFlight' = [p \in Procs |-> InFlight'[p]]
  BY DEF InFlight

\* A step that touches no message is a stutter of the channel.
LEMMA InFlightStutter ==
    ASSUME UNCHANGED <<ring, nmsgs, printed>>, \A l \in AllWorkers : SameHand(l)
    PROVE  UNCHANGED Sent!vars
  <1>1. InFlight' = InFlight
    <2>1. \A p \in Procs : InFlight'[p] = InFlight[p]
      BY Threads, InFlightSame
    <2> QED BY <2>1, InFlightFunction
  <1> QED BY <1>1 DEF Sent!vars

\* The channel is empty initially.
LEMMA SentInit == Init => Sent!Init
  <1> SUFFICES ASSUME Init PROVE Sent!Init
    OBVIOUS
  <1>1. \A p \in Procs : InFlight[p] = <<>>
    <2> TAKE p \in Procs
    <2>1. {l \in Workers[p] : pc[l] = "print"} = {}
      BY Threads DEF Init
    <2> QED BY <2>1 DEF InFlight, UnderWay, Init
  <1>2. InFlight = [p \in Procs |-> <<>>]
    BY <1>1, Zenon DEF InFlight
  <1> QED BY <1>2 DEF Init, Sent!Init

\* A message that leaves a ring's head with k = 1 is printed, with k = 0 lost.
LEMMA HeadReleased ==
    ASSUME NEW p \in Procs, NEW m \in Nat, NEW r \in Seq(Nat), NEW k \in {0, 1},
           InFlight[p] = <<m>> \o r, InFlight'[p] = r,
           \A q \in Procs : q # p => InFlight'[q] = InFlight[q],
           printed' = [printed EXCEPT ![p] = @ \o SubSeq(<<m>> \o r, 1, k)],
           nmsgs' = nmsgs
    PROVE  Sent!Next
  <1> DEFINE c == <<m>> \o r
             n == Len(r)
             g == [i \in 1 .. n |-> i + 1]
  <1>1. /\ n \in Nat /\ c \in Seq(Nat) /\ Len(c) = n + 1
        /\ \A i \in 1 .. n : c[i + 1] = r[i]
    <2>1. /\ <<m>> \in Seq(Nat) /\ Len(<<m>>) = 1 /\ n \in Nat
      OBVIOUS
    <2>2. /\ c \in Seq(Nat) /\ Len(c) = 1 + n
          /\ \A i \in 1 .. Len(c) : c[i] = IF i <= 1 THEN <<m>>[i] ELSE r[i - 1]
      BY <2>1, ConcatProperties
    <2>3. ASSUME NEW i \in 1 .. n PROVE c[i + 1] = r[i]
      <3>1. i + 1 \in 1 .. Len(c) /\ ~(i + 1 <= 1) /\ (i + 1) - 1 = i
        BY <2>1, <2>2
      <3> QED BY <2>2, <3>1
    <2> QED BY <2>1, <2>2, <2>3
  <1>2. /\ k \in 0 .. Len(c) /\ n \in 0 .. Len(c) - k
        /\ g \in [1 .. n -> k + 1 .. Len(c)]
    BY <1>1
  <1>3. Sent!Increasing(g, n)
    BY <1>1 DEF Sent!Increasing
  <1>4. r = [i \in 1 .. n |-> c[g[i]]]
    <2>1. \A i \in 1 .. n : c[g[i]] = r[i]
      BY <1>1
    <2>2. r = [i \in 1 .. n |-> r[i]]
      OBVIOUS
    <2> HIDE DEF g, c
    <2> QED BY <2>1, <2>2
  <1> HIDE DEF g, n
  <1>5. InFlight' = [InFlight EXCEPT ![p] = [i \in 1 .. n |-> InFlight[p][g[i]]]]
    <2>1. InFlight'[p] = [i \in 1 .. n |-> InFlight[p][g[i]]]
      BY <1>4, Zenon
    <2> DEFINE v == [i \in 1 .. n |-> InFlight[p][g[i]]]
    <2> HIDE DEF v, c
    <2>2. \A q \in Procs : InFlight'[q] = [InFlight EXCEPT ![p] = v][q]
      BY <2>1, InFlightFunction DEF v
    <2>3. [InFlight EXCEPT ![p] = v] = [q \in Procs |-> [InFlight EXCEPT ![p] = v][q]]
      BY InFlightFunction
    <2>4. InFlight' = [InFlight EXCEPT ![p] = v]
      BY <2>2, <2>3, InFlightFunction
    <2> QED BY <2>4, Zenon DEF v
  <1>6. Sent!Release(p, k, n, g)
    BY <1>3, <1>5, Zenon DEF Sent!Release
  <1>7. k \in 0 .. Len(InFlight[p]) /\ n \in 0 .. Len(InFlight[p]) - k
        /\ g \in [1 .. n -> k + 1 .. Len(InFlight[p])]
    BY <1>2, Zenon
  <1> QED BY <1>6, <1>7, Zenon DEF Sent!Next

\* The end of a process loses at most the message in its receiver's hand.
LEMMA SentDie ==
    ASSUME OneReceiver, IInv, NEW p \in Procs, NEW s, Die(p, s), UNCHANGED traffic
    PROVE  [Sent!Next]_Sent!vars
  <1>1. PICK l : Workers[p] = {l}
    BY DEF OneReceiver
  <1>2. /\ ring' = ring /\ nmsgs' = nmsgs /\ printed' = printed
        /\ msg' = [k \in AllWorkers |-> IF k \in Workers[p] THEN 0 ELSE msg[k]]
        /\ pc' = [k \in AllWorkers |-> IF k \in Workers[p] THEN "off" ELSE pc[k]]
    BY DEF Die, traffic
  <1>3. l \in AllWorkers /\ pc'[l] = "off" /\ msg[l] \in Nat
    BY <1>1, <1>2, Threads DEF IInv, TypeOK
  <1>4. ring[p] \in Seq(Nat) /\ printed \in [Procs -> Seq(Nat)]
    <2>1. ring[p] \in Seq(Nat \ {0}) /\ Nat \ {0} \subseteq Nat
      BY DEF IInv, TypeOK
    <2> QED BY <2>1, SeqMonotonic DEF IInv, TypeOK
  <1>5. \A q \in Procs : q # p => InFlight'[q] = InFlight[q]
    <2> TAKE q \in Procs
    <2> HAVE q # p
    <2>1. \A k \in Workers[q] : SameHand(k)
      <3> TAKE k \in Workers[q]
      <3>1. k \in AllWorkers /\ k \notin Workers[p]
        BY Threads DEF LcoresOf
      <3> QED BY <1>2, <3>1 DEF SameHand
    <2> QED BY <1>2, <2>1, InFlightSame
  <1>6. InFlight'[p] = ring[p]
    <2>1. ring'[p] \in Seq(Nat)
      BY <1>2, <1>4
    <2> QED BY <1>1, <1>2, <1>3, <2>1, InFlightNext
  <1>7. CASE pc[l] # "print"
    <2>1. InFlight[p] = ring[p]
      BY <1>1, <1>4, <1>7, InFlightIs
    <2>2. InFlight' = InFlight
      <3>1. \A q \in Procs : InFlight'[q] = InFlight[q]
        BY <1>5, <1>6, <2>1
      <3> QED BY <3>1, InFlightFunction
    <2> QED BY <1>2, <2>2 DEF Sent!vars
  <1>8. CASE pc[l] = "print"
    <2>1. InFlight[p] = <<msg[l]>> \o ring[p]
      BY <1>1, <1>4, <1>8, InFlightIs
    <2>2. printed' = [printed EXCEPT ![p] = @ \o SubSeq(<<msg[l]>> \o ring[p], 1, 0)]
      <3>1. SubSeq(<<msg[l]>> \o ring[p], 1, 0) = <<>>
        BY <1>3, <1>4
      <3>2. printed[p] \o <<>> = printed[p]
        BY <1>4
      <3> QED BY <1>2, <1>4, <3>1, <3>2
    <2>3. Sent!Next
      BY <1>2, <1>3, <1>4, <1>5, <1>6, <2>1, <2>2, HeadReleased
    <2> QED BY <2>3
  <1> QED BY <1>7, <1>8

\* A message that enters a ring arrives, one that a full ring refuses is lost.
LEMMA SentEnqueue ==
    ASSUME OneReceiver, IInv, CountInv, NEW p \in Procs, SendEnqueue(p)
    PROVE  Sent!Next
  <1> DEFINE q == Other(p)
  <1>1. /\ main[p] = "enqueue" /\ q \in Procs /\ nmsgs' = nmsgs + 1 /\ nmsgs \in Nat
        /\ printed' = printed /\ msg' = msg /\ pc' = pc
        /\ \A k : SameHand(k)
    BY TwoProcs DEF SendEnqueue, threads, IInv, TypeOK, SameHand
  <1>2. nmsgs < MaxMsgs
    <2>1. /\ Enqueuing("pri") \in Nat /\ Enqueuing("sec") \in Nat
          /\ Enqueuing("pri") = 1 \/ Enqueuing("sec") = 1
      BY <1>1 DEF Enqueuing, Procs
    <2> QED BY <1>1, <2>1, SizeAssumption DEF CountInv
  <1>3. CASE Len(ring[q]) < RingSize
    <2>1. ring' = [ring EXCEPT ![q] = Append(@, nmsgs + 1)]
      BY <1>3 DEF SendEnqueue
    <2> HIDE DEF q
    <2>2. PICK l : Workers[q] = {l}
      BY <1>1 DEF OneReceiver
    <2>3. ring[q] \in Seq(Nat) /\ nmsgs + 1 \in Nat /\ l \in AllWorkers /\ msg[l] \in Nat
      <3>1. ring[q] \in Seq(Nat \ {0}) /\ Nat \ {0} \subseteq Nat
        BY <1>1 DEF IInv, TypeOK
      <3>2. l \in AllWorkers
        BY <1>1, <2>2, Threads
      <3> QED BY <1>1, <3>1, <3>2, SeqMonotonic DEF IInv, TypeOK
    <2>4. ring'[q] = Append(ring[q], nmsgs + 1) /\ ring'[q] \in Seq(Nat)
      BY <1>1, <2>1, <2>3, AppendProperties DEF IInv, TypeOK
    <2>5. InFlight'[q] = Append(InFlight[q], nmsgs + 1)
      <3>1. InFlight[q] = IF pc[l] = "print" THEN <<msg[l]>> \o ring[q] ELSE ring[q]
        BY <1>1, <2>2, <2>3, InFlightIs
      <3>2. InFlight'[q] = IF pc[l] = "print" THEN <<msg[l]>> \o ring'[q] ELSE ring'[q]
        BY <1>1, <2>2, <2>4, InFlightNext
      <3>3. <<msg[l]>> \o Append(ring[q], nmsgs + 1)
              = Append(<<msg[l]>> \o ring[q], nmsgs + 1)
        BY <2>3
      <3> QED BY <2>4, <3>1, <3>2, <3>3, Zenon
    <2>6. InFlight' = [InFlight EXCEPT ![q] = Append(@, nmsgs + 1)]
      <3>1. \A r \in Procs : r # q => InFlight'[r] = InFlight[r]
        <4> TAKE r \in Procs
        <4> HAVE r # q
        <4>1. ring'[r] = ring[r]
          BY <2>1 DEF IInv, TypeOK
        <4> QED BY <1>1, <4>1, InFlightSame
      <3> DEFINE v == Append(InFlight[q], nmsgs + 1)
      <3>2. InFlight'[q] = v
        BY <2>5
      <3> HIDE DEF v
      <3>3. \A r \in Procs : InFlight'[r] = [InFlight EXCEPT ![q] = v][r]
        BY <3>1, <3>2, InFlightFunction
      <3>4. [InFlight EXCEPT ![q] = v] = [r \in Procs |-> [InFlight EXCEPT ![q] = v][r]]
        BY InFlightFunction
      <3>5. InFlight' = [InFlight EXCEPT ![q] = v]
        BY <3>3, <3>4, InFlightFunction
      <3> QED BY <3>5, Zenon DEF v
    <2>7. Sent!Accept(q)
      BY <1>1, <1>2, <2>6 DEF Sent!Accept
    <2> QED BY <1>1, <2>7, Zenon DEF Sent!Next
  <1>4. CASE ~(Len(ring[q]) < RingSize)
    <2>1. ring' = ring
      BY <1>4 DEF SendEnqueue
    <2>2. InFlight' = InFlight
      <3>1. \A r \in Procs : InFlight'[r] = InFlight[r]
        BY <1>1, <2>1, InFlightSame
      <3> QED BY <3>1, InFlightFunction
    <2>3. Sent!Refuse
      BY <1>1, <1>2, <2>2 DEF Sent!Refuse
    <2> QED BY <2>3 DEF Sent!Next
  <1> QED BY <1>3, <1>4

\* A message taken off the ring is in a hand, still ahead of the others.
LEMMA SentDequeue ==
    ASSUME OneReceiver, IInv, NEW l \in AllWorkers, Dequeue(l)
    PROVE  UNCHANGED Sent!vars
  <1> DEFINE p == ProcOf(l)
  <1>1. /\ pc[l] = "dequeue" /\ p \in Procs /\ l \in Workers[p] /\ msg[l] = 0
        /\ nmsgs' = nmsgs /\ printed' = printed
    BY ThreadOf DEF Dequeue, IInv, ThreadInv
  <1>2. CASE ring[p] = <<>>
    <2>1. UNCHANGED ring /\ pc' = [pc EXCEPT ![l] = "top"] /\ UNCHANGED msg
      BY <1>2 DEF Dequeue, AfterEmpty
    <2>2. \A k \in AllWorkers : SameHand(k)
      BY <1>1, <2>1 DEF SameHand, IInv, TypeOK
    <2> QED BY <1>1, <2>1, <2>2, InFlightStutter
  <1>3. CASE ring[p] # <<>>
    <2>1. ring[p] \in Seq(Nat \ {0}) /\ ring[p] \in Seq(Nat)
      <3>1. ring[p] \in Seq(Nat \ {0}) /\ Nat \ {0} \subseteq Nat
        BY <1>1 DEF IInv, TypeOK
      <3> QED BY <3>1, SeqMonotonic
    <2>2. /\ ring[p][Oldest(ring[p])] \in Nat \ {0}
          /\ ring[p][Oldest(ring[p])] = Head(ring[p])
          /\ RemoveAt(ring[p], Oldest(ring[p])) = Tail(ring[p])
          /\ Tail(ring[p]) \in Seq(Nat)
      <3>1. Tail(ring[p]) \in Seq(Nat)
        BY <1>3, <2>1, DequeueFacts
      <3> QED BY <1>3, <2>1, <3>1, DequeueFacts
    <2>3. /\ msg' = [msg EXCEPT ![l] = Head(ring[p])]
          /\ ring' = [ring EXCEPT ![p] = Tail(ring[p])]
          /\ pc' = [pc EXCEPT ![l] = "print"]
      BY <1>3, <2>2 DEF Dequeue
    <2>4. Workers[p] = {l}
      BY <1>1 DEF OneReceiver
    <2> HIDE DEF p
    <2>5. msg'[l] = Head(ring[p]) /\ pc'[l] = "print" /\ ring'[p] = Tail(ring[p])
      BY <1>1, <2>2, <2>3 DEF IInv, TypeOK
    <2>6. InFlight[p] = ring[p]
      BY <1>1, <2>1, <2>4, InFlightIs
    <2>7. InFlight'[p] = <<Head(ring[p])>> \o Tail(ring[p])
      <3>1. ring'[p] \in Seq(Nat)
        BY <2>2, <2>5
      <3>2. InFlight'[p] = IF pc'[l] = "print" THEN <<msg'[l]>> \o ring'[p] ELSE ring'[p]
        BY <1>1, <2>4, <3>1, InFlightNext
      <3> QED BY <2>5, <3>2, Zenon
    <2>8. <<Head(ring[p])>> \o Tail(ring[p]) = ring[p]
      BY <1>3, <2>1
    <2>9. \A q \in Procs : q # p => InFlight'[q] = InFlight[q]
      <3> TAKE q \in Procs
      <3> HAVE q # p
      <3>1. ring'[q] = ring[q]
        BY <2>3 DEF IInv, TypeOK
      <3>2. \A k \in Workers[q] : SameHand(k)
        <4> TAKE k \in Workers[q]
        <4>1. k \in AllWorkers /\ k # l
          BY <1>1, Threads DEF LcoresOf
        <4> QED BY <2>3, <4>1 DEF SameHand, IInv, TypeOK
      <3> QED BY <3>1, <3>2, InFlightSame
    <2>10. InFlight' = InFlight
      <3>1. \A q \in Procs : InFlight'[q] = InFlight[q]
        BY <2>6, <2>7, <2>8, <2>9
      <3> QED BY <3>1, InFlightFunction
    <2> QED BY <1>1, <2>10 DEF Sent!vars
  <1> QED BY <1>2, <1>3

\* The first of a sequence with one more message in front; one more at the end.
LEMMA FirstOf ==
    ASSUME NEW m \in Nat, NEW r \in Seq(Nat)
    PROVE  SubSeq(<<m>> \o r, 1, 1) = <<m>> /\ Append(r, m) = r \o <<m>>
  <1>1. <<m>> \in Seq(Nat) /\ Len(<<m>>) = 1 /\ <<m>>[1] = m
    OBVIOUS
  <1>2. /\ <<m>> \o r \in Seq(Nat) /\ Len(<<m>> \o r) = 1 + Len(r) /\ Len(r) \in Nat
        /\ (<<m>> \o r)[1] = m
    BY <1>1, ConcatProperties, LenProperties
  <1> DEFINE c == <<m>> \o r
  <1> HIDE DEF c
  <1>3. SubSeq(c, 1, 1) = <<m>>
    <2>1. c \in Seq(Nat) /\ Len(c) >= 1 /\ c[1] = m
      BY <1>2 DEF c
    <2>2. /\ SubSeq(c, 1, 1) \in Seq(Nat) /\ Len(SubSeq(c, 1, 1)) = 1
          /\ SubSeq(c, 1, 1)[1] = m
      BY <2>1, SubSeqProperties
    <2>3. ASSUME NEW q \in Seq(Nat), Len(q) = 1, q[1] = m PROVE q = <<m>>
      BY <1>1, <2>3
    <2> QED BY <2>2, <2>3, Zenon
  <1>4. Append(r, m) = r \o <<m>>
    BY AppendIsConcat
  <1> QED BY <1>3, <1>4 DEF c

\* The message printed is the one that is due.
LEMMA SentPrint ==
    ASSUME OneReceiver, IInv, NEW l \in AllWorkers, PrintMsg(l)
    PROVE  Sent!Next
  <1> DEFINE p == ProcOf(l)
  <1>1. /\ p \in Procs /\ l \in Workers[p] /\ pc[l] = "print" /\ msg[l] \in Nat
        /\ printed' = [printed EXCEPT ![p] = Append(@, msg[l])]
        /\ pc' = [pc EXCEPT ![l] = "put"] /\ msg' = msg
        /\ ring' = ring /\ nmsgs' = nmsgs
    BY ThreadOf DEF PrintMsg, IInv, TypeOK
  <1>2. Workers[p] = {l}
    BY <1>1 DEF OneReceiver
  <1> HIDE DEF p
  <1>3. ring[p] \in Seq(Nat) /\ ring'[p] \in Seq(Nat) /\ printed[p] \in Seq(Nat)
    <2>1. ring[p] \in Seq(Nat \ {0}) /\ Nat \ {0} \subseteq Nat
      BY <1>1 DEF IInv, TypeOK
    <2> QED BY <1>1, <2>1, SeqMonotonic DEF IInv, TypeOK
  <1>4. InFlight[p] = <<msg[l]>> \o ring[p]
    BY <1>1, <1>2, <1>3, InFlightIs
  <1>5. InFlight'[p] = ring[p]
    <2>1. pc'[l] # "print"
      BY <1>1 DEF IInv, TypeOK
    <2> QED BY <1>1, <1>2, <1>3, <2>1, InFlightNext
  <1>6. \A q \in Procs : q # p => InFlight'[q] = InFlight[q]
    <2> TAKE q \in Procs
    <2> HAVE q # p
    <2>1. \A k \in Workers[q] : SameHand(k)
      <3> TAKE k \in Workers[q]
      <3>1. k \in AllWorkers /\ k # l
        BY <1>1, Threads DEF LcoresOf
      <3> QED BY <1>1, <3>1 DEF SameHand, IInv, TypeOK
    <2> QED BY <1>1, <2>1, InFlightSame
  <1>7. printed' = [printed EXCEPT ![p] = @ \o SubSeq(<<msg[l]>> \o ring[p], 1, 1)]
    <2>1. SubSeq(<<msg[l]>> \o ring[p], 1, 1) = <<msg[l]>>
      BY <1>1, <1>3, FirstOf
    <2>2. Append(printed[p], msg[l]) = printed[p] \o <<msg[l]>>
      BY <1>1, <1>3, FirstOf
    <2> QED BY <1>1, <2>1, <2>2, Zenon
  <1> QED BY <1>1, <1>3, <1>4, <1>5, <1>6, <1>7, HeadReleased

\* Steps of lcore_recv() that the channel does not see: a message that was
\* printed has left it before its buffer is put back.
LEMMA SentUnseen ==
    ASSUME IInv, NEW l \in AllWorkers, CheckQuit(l) \/ PutBack(l)
    PROVE  UNCHANGED Sent!vars
  <1>1. UNCHANGED <<ring, nmsgs, printed>>
    BY DEF CheckQuit, PutBack, traffic
  <1>2. ASSUME NEW k \in AllWorkers PROVE SameHand(k)
    <2>1. pc \in [AllWorkers -> {"off", "top", "dequeue", "print", "put", "done"}]
          /\ msg \in [AllWorkers -> Nat]
      BY DEF IInv, TypeOK
    <2>2. CASE CheckQuit(l)
      BY <2>1, <2>2 DEF CheckQuit, SameHand
    <2>3. CASE PutBack(l)
      BY <2>1, <2>3 DEF PutBack, SameHand
    <2> QED BY <2>2, <2>3
  <1> QED BY <1>1, <1>2, InFlightStutter

\* Nor does it see a process that launches its workers, or does not.
LEMMA SentLaunch ==
    ASSUME IInv, NEW p \in Procs, Launch(p) PROVE UNCHANGED Sent!vars
  <1>1. UNCHANGED <<msg, ring, nmsgs, printed>> /\ ~Running(p)
    BY DEF Launch, traffic, Running
  <1>2. \A l \in Workers[p] : pc[l] = "off"
    BY <1>1 DEF IInv, ThreadInv
  <1>3. pc' = pc \/ pc' = [l \in AllWorkers |-> IF l \in Workers[p] THEN "top" ELSE pc[l]]
    BY DEF Launch
  <1>4. \A l \in AllWorkers : SameHand(l)
    BY <1>1, <1>2, <1>3 DEF SameHand
  <1> QED BY <1>1, <1>4, InFlightStutter

\* Every step is one of the channel or a stutter.
LEMMA SentNext == ASSUME OneReceiver, IInv, CountInv, [Next]_vars PROVE [Sent!Next]_Sent!vars
  <1>0. ASSUME UNCHANGED <<pc, msg, ring, nmsgs, printed>> PROVE UNCHANGED Sent!vars
    BY <1>0, InFlightStutter DEF SameHand
  <1>1. ASSUME NEW p \in Procs, Start(p) \/ GetObject(p) \/ SendDiscard(p) \/ EndCommands(p)
        PROVE  UNCHANGED Sent!vars
    <2>1. UNCHANGED <<pc, msg, ring, nmsgs, printed>>
      BY <1>1 DEF Start, GetObject, SendDiscard, EndCommands, threads, traffic
    <2> QED BY <2>1, <1>0
  <1>2. ASSUME NEW p \in Procs, NewCmdline(p) \/ SendGet(p) \/ WaitLcores(p)
        PROVE  [Sent!Next]_Sent!vars
    <2>1. UNCHANGED traffic
      BY <1>2 DEF NewCmdline, SendGet, WaitLcores
    <2>2. CASE UNCHANGED threads
      <3>1. UNCHANGED <<pc, msg, ring, nmsgs, printed>>
        BY <2>1, <2>2 DEF threads, traffic
      <3> QED BY <3>1, <1>0
    <2>3. CASE \E s : Die(p, s)
      BY <2>1, <2>3, SentDie
    <2> QED BY <1>2, <2>2, <2>3 DEF NewCmdline, SendGet, WaitLcores
  <1>3. ASSUME Kill PROVE [Sent!Next]_Sent!vars
    BY <1>3, SentDie, TwoProcs DEF Kill
  <1>4. CASE UNCHANGED vars
    <2>1. UNCHANGED <<pc, msg, ring, nmsgs, printed>>
      BY <1>4 DEF vars, threads, traffic
    <2> QED BY <2>1, <1>0
  <1>5. CASE Next
    <2>1. CASE \E p \in Procs : Start(p) \/ MainStep(p) \/ SendGet(p) \/ EndCommands(p)
      BY <1>1, <1>2, <2>1, SentLaunch, SentEnqueue DEF MainStep
    <2>2. CASE \E l \in AllWorkers : Recv(l)
      BY <2>2, SentUnseen, SentDequeue, SentPrint DEF Recv
    <2> QED BY <1>3, <1>5, <2>1, <2>2 DEF Next
  <1> QED BY <1>4, <1>5

\* What a process prints is what the other one sent, in order and without
\* repeats, whatever a full ring, a quit or a kill loses: with one receiving
\* lcore in each process, as the lab runs them, simple_mp implements the lossy
\* channel. Two receiving lcores could print out of order.
THEOREM OrderImplemented == ASSUME OneReceiver PROVE Spec => ImplementsLossyFifo
  <1>1. IInv /\ CountInv /\ [Next]_vars => CountInv'
    BY CountNext
  <1>2. IInv /\ CountInv /\ [Next]_vars => [Sent!Next]_Sent!vars
    BY SentNext
  <1> QED BY <1>1, <1>2, CountInit, SentInit, Invariance, PTL
          DEF Spec, ImplementsLossyFifo, Sent!Spec
=============================================================================
