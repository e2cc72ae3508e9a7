----------------------------- MODULE DataLemmas -----------------------------
(***************************************************************************)
(* Lemmas about the data of the forwarder models: induction over the       *)
(* subsets of a finite set and over the numbers, sums of a function over a *)
(* finite set, minima, bursts taken off a queue, the frames that Select()  *)
(* picks out of a sequence, and what a lossy channel may do to a sequence  *)
(* of numbers. A sum and a selection are functions on a well-founded       *)
(* domain, chosen by CHOOSE: the lemmas first show that the function       *)
(* exists and is unique, then what it does.                                *)
(***************************************************************************)
EXTENDS Packets, FiniteSetTheorems, SequenceTheorems, WellFoundedInduction, TLAPS

\* The member of a set that the folds of FiniteSetsExt take next.
Pick(s) == CHOOSE x \in s : TRUE

\* g sums f over every subset of S, the way SumFunctionOnSet() goes about it.
Sums(g, f, S) ==
    g = [s \in SUBSET S |-> IF s = {} THEN 0 ELSE f[Pick(s)] + g[s \ {Pick(s)}]]

\* Induction over the subsets of a finite set: a collection of them to which
\* every set belongs whose proper subsets all do.
LEMMA SubsetInduction ==
    ASSUME NEW S, IsFiniteSet(S), NEW G,
           \A T \in SUBSET S : (\A U \in SUBSET T : U # T => U \in G) => T \in G
    PROVE  S \in G
  <1> SUFFICES ASSUME S \notin G PROVE FALSE
    OBVIOUS
  <1> DEFINE Bad == {T \in SUBSET S : T \notin G}
  <1>1. IsWellFoundedOn(StrictSubsetOrdering(S), SUBSET S)
    <2>1. IsWellFoundedOn(StrictSubsetOrdering(S), FiniteSubsetsOf(S))
      BY FS_StrictSubsetOrderingWellFounded
    <2>2. FiniteSubsetsOf(S) = SUBSET S
      BY FS_FiniteSubsetsOfFinite
    <2> QED BY <2>1, <2>2
  <1>2. Bad \subseteq SUBSET S /\ Bad # {}
    OBVIOUS
  <1>3. PICK T \in Bad : \A U \in Bad : ~(<<U, T>> \in StrictSubsetOrdering(S))
    <2> HIDE DEF Bad
    <2> QED BY <1>1, <1>2, WFMin
  <1>4. \A U \in SUBSET T : U # T => U \in G
    <2> SUFFICES ASSUME NEW U \in SUBSET T, U # T, U \notin G PROVE FALSE
      OBVIOUS
    <2>1. U \in Bad /\ <<U, T>> \in (SUBSET S) \X (SUBSET S)
      OBVIOUS
    <2>2. <<U, T>> \in StrictSubsetOrdering(S)
      BY <2>1 DEF StrictSubsetOrdering
    <2> QED BY <1>3, <2>1, <2>2
  <1> QED BY <1>4

\* Pick() takes a member of the set.
LEMMA PickIn == ASSUME NEW s, s # {} PROVE Pick(s) \in s
  BY DEF Pick

\* A sum over a set is that of one member and of the rest.
LEMMA SumsStep ==
    ASSUME NEW f, NEW S, NEW g, Sums(g, f, S), NEW s \in SUBSET S
    PROVE  g[s] = IF s = {} THEN 0 ELSE f[Pick(s)] + g[s \ {Pick(s)}]
  BY DEF Sums

\* Two functions that sum f agree on every set both are defined on.
LEMMA SumsUnique ==
    ASSUME NEW f, NEW S, NEW T, NEW g, NEW h, Sums(g, f, S), Sums(h, f, T),
           NEW R, R \subseteq S, R \subseteq T, IsFiniteSet(R)
    PROVE  g[R] = h[R]
  <1> DEFINE G == {s \in SUBSET R : g[s] = h[s]}
  <1>1. ASSUME NEW s \in SUBSET R, \A u \in SUBSET s : u # s => u \in G
        PROVE  s \in G
    <2>1. CASE s = {}
      BY <2>1, SumsStep
    <2>2. CASE s # {}
      <3>1. Pick(s) \in s /\ s \ {Pick(s)} \in SUBSET s /\ s \ {Pick(s)} # s
        BY <2>2, PickIn
      <3>2. g[s \ {Pick(s)}] = h[s \ {Pick(s)}]
        BY <3>1, <1>1
      <3>3. s \in SUBSET S /\ s \in SUBSET T
        OBVIOUS
      <3>4. g[s] = f[Pick(s)] + g[s \ {Pick(s)}]
        BY <2>2, <3>3, SumsStep
      <3>5. h[s] = f[Pick(s)] + h[s \ {Pick(s)}]
        BY <2>2, <3>3, SumsStep
      <3> QED BY <3>2, <3>4, <3>5
    <2> QED BY <2>1, <2>2
  <1>2. R \in G
    <2> HIDE DEF G
    <2> QED BY <1>1, SubsetInduction
  <1> QED BY <1>2

\* SumFunctionOnSet() is the value of a function that sums f over the subsets.
LEMMA SumUnfold ==
    ASSUME NEW f, NEW S
    PROVE  SumFunctionOnSet(f, S) = (CHOOSE g : Sums(g, f, S))[S]
  BY DEF SumFunctionOnSet, FoldFunctionOnSet, MapThenFoldSet, Sums, Pick

\* There is such a function for every finite set.
LEMMA SumsExist ==
    ASSUME NEW f, NEW S, IsFiniteSet(S)
    PROVE  \E g : Sums(g, f, S)
  <1> DEFINE G == {T \in SUBSET S : \E g : Sums(g, f, T)}
             V(s) == SumFunctionOnSet(f, s)
  <1>1. ASSUME NEW T \in SUBSET S, \A U \in SUBSET T : U # T => U \in G
        PROVE  T \in G
    <2> DEFINE h == [s \in SUBSET T |->
                        IF s = {} THEN 0
                        ELSE f[Pick(s)] + V(s \ {Pick(s)})]
    <2>1. \A s \in SUBSET T : s # T => h[s] = V(s)
      <3> SUFFICES ASSUME NEW s \in SUBSET T, s # T PROVE h[s] = V(s)
        OBVIOUS
      <3> DEFINE gs == CHOOSE g : Sums(g, f, s)
      <3>1. Sums(gs, f, s) /\ V(s) = gs[s]
        BY <1>1, SumUnfold
      <3>2. gs[s] = IF s = {} THEN 0 ELSE f[Pick(s)] + gs[s \ {Pick(s)}]
        <4> HIDE DEF gs
        <4> QED BY <3>1, SumsStep
      <3>3. CASE s = {}
        BY <3>1, <3>2, <3>3
      <3>4. CASE s # {}
        <4> DEFINE u  == s \ {Pick(s)}
                   gu == CHOOSE g : Sums(g, f, u)
        <4>1. u \in SUBSET T /\ u # T /\ u \subseteq s /\ IsFiniteSet(u)
          BY <3>4, PickIn, FS_Subset
        <4>2. Sums(gu, f, u) /\ V(u) = gu[u]
          <5> HIDE DEF u
          <5> QED BY <1>1, <4>1, SumUnfold
        <4>3. gu[u] = gs[u]
          <5> HIDE DEF gu, gs, u
          <5> QED BY <3>1, <4>1, <4>2, SumsUnique
        <4>4. h[s] = f[Pick(s)] + V(u)
          BY <3>4
        <4> QED BY <3>1, <3>2, <3>4, <4>2, <4>3, <4>4
      <3> QED BY <3>3, <3>4
    <2>2. Sums(h, f, T)
      <3>1. \A s \in SUBSET T : s # {} => /\ s \ {Pick(s)} \in SUBSET T
                                          /\ s \ {Pick(s)} # T
        BY PickIn
      <3>2. \A s \in SUBSET T : s # {} => V(s \ {Pick(s)}) = h[s \ {Pick(s)}]
        BY <2>1, <3>1
      <3>3. h = [s \in SUBSET T |-> IF s = {} THEN 0
                                    ELSE f[Pick(s)] + h[s \ {Pick(s)}]]
        BY <3>2
      <3> HIDE DEF h
      <3> QED BY <3>3 DEF Sums
    <2> QED BY <2>2
  <1>2. S \in G
    <2> HIDE DEF G
    <2> QED BY <1>1, SubsetInduction
  <1> QED BY <1>2

\* SumFunctionOnSet() is that of the member picked and of the rest.
LEMMA SumStep ==
    ASSUME NEW f, NEW S, IsFiniteSet(S)
    PROVE  SumFunctionOnSet(f, S) =
             IF S = {} THEN 0
             ELSE f[Pick(S)] + SumFunctionOnSet(f, S \ {Pick(S)})
  <1> DEFINE g == CHOOSE k : Sums(k, f, S)
             T == S \ {Pick(S)}
             h == CHOOSE k : Sums(k, f, T)
  <1>1. Sums(g, f, S) /\ SumFunctionOnSet(f, S) = g[S]
    BY SumsExist, SumUnfold
  <1>2. IsFiniteSet(T)
    BY FS_Subset
  <1>3. Sums(h, f, T) /\ SumFunctionOnSet(f, T) = h[T]
    <2> HIDE DEF T
    <2> QED BY <1>2, SumsExist, SumUnfold
  <1>4. g[T] = h[T]
    <2>1. T \subseteq S OBVIOUS
    <2> HIDE DEF g, h, T
    <2> QED BY <1>1, <1>2, <1>3, <2>1, SumsUnique
  <1>5. g[S] = IF S = {} THEN 0 ELSE f[Pick(S)] + g[T]
    <2> HIDE DEF g
    <2> QED BY <1>1, SumsStep
  <1> QED BY <1>1, <1>3, <1>4, <1>5

\* A sum of integers is an integer, and its first element may be any.
LEMMA SumRemove ==
    ASSUME NEW S, IsFiniteSet(S), NEW f, \A x \in S : f[x] \in Int
    PROVE  /\ SumFunctionOnSet(f, S) \in Int
           /\ \A x \in S : SumFunctionOnSet(f, S) =
                             f[x] + SumFunctionOnSet(f, S \ {x})
  <1> DEFINE V(s) == SumFunctionOnSet(f, s)
             Good(s) == V(s) \in Int /\ \A x \in s : V(s) = f[x] + V(s \ {x})
             G == {s \in SUBSET S : Good(s)}
  <1>1. ASSUME NEW T \in SUBSET S, \A U \in SUBSET T : U # T => U \in G
        PROVE  T \in G
    <2>0. IsFiniteSet(T) /\ \A x : IsFiniteSet(T \ {x})
      BY FS_Subset
    <2>1. CASE T = {}
      BY <2>0, <2>1, SumStep
    <2>2. CASE T # {}
      <3> DEFINE p == Pick(T)
      <3>1. p \in T
        BY <2>2, PickIn
      <3>2. V(T) = f[p] + V(T \ {p})
        BY <2>0, <2>2, SumStep
      <3> HIDE DEF p
      <3>3. \A x \in T : Good(T \ {x})
        BY <1>1
      <3>4. V(T) \in Int
        BY <3>1, <3>2, <3>3
      <3>5. ASSUME NEW x \in T PROVE V(T) = f[x] + V(T \ {x})
        <4>1. CASE x = p
          BY <3>2, <4>1
        <4>2. CASE x # p
          <5>1. (T \ {p}) \ {x} = (T \ {x}) \ {p}
            OBVIOUS
          <5>2. V(T \ {p}) = f[x] + V((T \ {p}) \ {x})
            BY <3>1, <3>3, <4>2
          <5>3. V(T \ {x}) = f[p] + V((T \ {x}) \ {p})
            BY <3>1, <3>3, <4>2
          <5>4. V((T \ {x}) \ {p}) \in Int
            BY <1>1, <3>1, <4>2
          <5>5. f[x] \in Int /\ f[p] \in Int
            BY <3>1
          <5>6. \A a, b, c : a \in Int /\ b \in Int /\ c \in Int =>
                  a + (b + c) = b + (a + c)
            OBVIOUS
          <5>7. V(T) = f[p] + (f[x] + V((T \ {x}) \ {p}))
            BY <3>2, <5>1, <5>2
          <5>8. V(T) = f[x] + (f[p] + V((T \ {x}) \ {p}))
            BY <5>4, <5>5, <5>6, <5>7
          <5> QED BY <5>3, <5>8
        <4> QED BY <4>1, <4>2
      <3> QED BY <3>4, <3>5
    <2> QED BY <2>1, <2>2
  <1>2. S \in G
    <2> HIDE DEF G
    <2> QED BY <1>1, SubsetInduction
  <1> QED BY <1>2

\* The sum over the empty set.
LEMMA SumEmpty == \A f : SumFunctionOnSet(f, {}) = 0
  BY SumStep, FS_EmptySet

\* Functions that agree on a set have the same sum there.
LEMMA SumSame ==
    ASSUME NEW S, IsFiniteSet(S), NEW f, NEW g, \A x \in S : f[x] = g[x]
    PROVE  SumFunctionOnSet(f, S) = SumFunctionOnSet(g, S)
  <1> DEFINE G == {s \in SUBSET S : SumFunctionOnSet(f, s) = SumFunctionOnSet(g, s)}
  <1>1. ASSUME NEW T \in SUBSET S, \A U \in SUBSET T : U # T => U \in G
        PROVE  T \in G
    <2>1. IsFiniteSet(T)
      BY FS_Subset
    <2>2. CASE T = {}
      BY <2>2, SumEmpty
    <2>3. CASE T # {}
      <3>1. Pick(T) \in T
        BY <2>3, PickIn
      <3>2. SumFunctionOnSet(f, T \ {Pick(T)}) = SumFunctionOnSet(g, T \ {Pick(T)})
        BY <1>1, <3>1
      <3> QED BY <2>1, <2>3, <3>1, <3>2, SumStep
    <2> QED BY <2>2, <2>3
  <1>2. S \in G
    <2> HIDE DEF G
    <2> QED BY <1>1, SubsetInduction
  <1> QED BY <1>2

\* A sum of natural numbers is one.
LEMMA SumNat ==
    ASSUME NEW S, IsFiniteSet(S), NEW f, \A x \in S : f[x] \in Nat
    PROVE  SumFunctionOnSet(f, S) \in Nat
  <1> DEFINE G == {s \in SUBSET S : SumFunctionOnSet(f, s) \in Nat}
  <1>1. ASSUME NEW T \in SUBSET S, \A U \in SUBSET T : U # T => U \in G
        PROVE  T \in G
    <2>1. IsFiniteSet(T)
      BY FS_Subset
    <2>2. CASE T = {}
      BY <2>2, SumEmpty
    <2>3. CASE T # {}
      <3>1. Pick(T) \in T
        BY <2>3, PickIn
      <3>2. SumFunctionOnSet(f, T \ {Pick(T)}) \in Nat
        BY <1>1, <3>1
      <3> QED BY <2>1, <2>3, <3>1, <3>2, SumStep
    <2> QED BY <2>2, <2>3
  <1>2. S \in G
    <2> HIDE DEF G
    <2> QED BY <1>1, SubsetInduction
  <1> QED BY <1>2

\* No summand exceeds the sum.
LEMMA SumAtLeast ==
    ASSUME NEW S, IsFiniteSet(S), NEW f, \A x \in S : f[x] \in Nat, NEW x \in S
    PROVE  f[x] <= SumFunctionOnSet(f, S)
  <1>1. SumFunctionOnSet(f, S) = f[x] + SumFunctionOnSet(f, S \ {x})
    BY SumRemove
  <1>2. SumFunctionOnSet(f, S \ {x}) \in Nat
    BY FS_Subset, SumNat
  <1> QED BY <1>1, <1>2

\* A sum of numbers that do not exceed b.
LEMMA SumAtMost ==
    ASSUME NEW S, IsFiniteSet(S), NEW f, NEW b \in Nat,
           \A x \in S : f[x] \in Nat /\ f[x] <= b
    PROVE  SumFunctionOnSet(f, S) <= Cardinality(S) * b
  <1> DEFINE G == {s \in SUBSET S : SumFunctionOnSet(f, s) <= Cardinality(s) * b}
  <1>1. ASSUME NEW T \in SUBSET S, \A U \in SUBSET T : U # T => U \in G
        PROVE  T \in G
    <2>1. IsFiniteSet(T)
      BY FS_Subset
    <2>2. CASE T = {}
      BY <2>2, SumEmpty, FS_EmptySet
    <2>3. CASE T # {}
      <3> DEFINE U == T \ {Pick(T)}
      <3>1. Pick(T) \in T
        BY <2>3, PickIn
      <3>2. /\ Cardinality(T) \in Nat /\ Cardinality(U) = Cardinality(T) - 1
        BY <2>1, <3>1, FS_RemoveElement, FS_CardinalityType
      <3>3. SumFunctionOnSet(f, U) <= Cardinality(U) * b
        BY <1>1, <3>1
      <3>4. SumFunctionOnSet(f, U) \in Nat
        BY <2>1, FS_Subset, SumNat
      <3>5. SumFunctionOnSet(f, T) = f[Pick(T)] + SumFunctionOnSet(f, U)
        BY <2>1, <2>3, SumStep
      <3>6. f[Pick(T)] \in Nat /\ f[Pick(T)] <= b
        BY <3>1
      <3>7. /\ Cardinality(T) * b \in Int /\ (Cardinality(T) - 1) * b \in Int
            /\ (Cardinality(T) - 1) * b + b = Cardinality(T) * b
        <4>1. \A n \in Nat : n * b \in Int /\ (n - 1) * b \in Int /\ (n - 1) * b + b = n * b
          OBVIOUS
        <4> QED BY <3>2, <4>1
      <3>8. SumFunctionOnSet(f, U) <= (Cardinality(T) - 1) * b
        BY <3>2, <3>3
      <3>9. SumFunctionOnSet(f, T) <= Cardinality(T) * b
        <4>1. PICK v \in Int : v = Cardinality(T) * b
          BY <3>7
        <4>2. PICK u \in Int : u = (Cardinality(T) - 1) * b
          BY <3>7
        <4> QED BY <3>4, <3>5, <3>6, <3>7, <3>8, <4>1, <4>2
      <3> QED BY <3>9
    <2> QED BY <2>2, <2>3
  <1>2. S \in G
    <2> HIDE DEF G
    <2> QED BY <1>1, SubsetInduction
  <1> QED BY <1>2

\* The sum changes by as much as one summand does.
LEMMA SumChange ==
    ASSUME NEW S, IsFiniteSet(S), NEW f \in [S -> Int], NEW g \in [S -> Int],
           NEW x \in S, \A y \in S : y # x => g[y] = f[y]
    PROVE  SumFunction(g) = SumFunction(f) + (g[x] - f[x])
  <1> DEFINE F == SumFunctionOnSet(f, S \ {x})
  <1>1. SumFunction(f) = f[x] + F /\ SumFunction(f) \in Int
    BY SumRemove DEF SumFunction
  <1>2. SumFunction(g) = g[x] + SumFunctionOnSet(g, S \ {x})
    BY SumRemove DEF SumFunction
  <1>3. SumFunctionOnSet(g, S \ {x}) = F
    <2>1. IsFiniteSet(S \ {x})
      BY FS_Subset
    <2> QED BY <2>1, SumSame
  <1>4. F \in Int
    BY FS_Subset, SumRemove
  <1>5. f[x] \in Int /\ g[x] \in Int
    OBVIOUS
  <1> HIDE DEF F
  <1> QED BY <1>1, <1>2, <1>3, <1>4, <1>5

\* A sum of integers.
LEMMA SumInt ==
    ASSUME NEW S, IsFiniteSet(S), NEW f \in [S -> Int]
    PROVE  SumFunction(f) \in Int
  BY SumRemove DEF SumFunction

\* The sum of zeros.
LEMMA SumZero ==
    ASSUME NEW S, IsFiniteSet(S), NEW f \in [S -> Int], \A x \in S : f[x] = 0
    PROVE  SumFunction(f) = 0
  <1> DEFINE G == {s \in SUBSET S : SumFunctionOnSet(f, s) = 0}
  <1>1. ASSUME NEW T \in SUBSET S, \A U \in SUBSET T : U # T => U \in G
        PROVE  T \in G
    <2>1. IsFiniteSet(T)
      BY FS_Subset
    <2>2. CASE T = {}
      BY <2>2, SumEmpty
    <2>3. CASE T # {}
      <3>1. Pick(T) \in T
        BY <2>3, PickIn
      <3>2. SumFunctionOnSet(f, T \ {Pick(T)}) = 0
        BY <1>1, <3>1
      <3> QED BY <2>1, <2>3, <3>1, <3>2, SumStep
    <2> QED BY <2>2, <2>3
  <1>2. S \in G
    <2> HIDE DEF G
    <2> QED BY <1>1, SubsetInduction
  <1> QED BY <1>2 DEF SumFunction

-----------------------------------------------------------------------------
(* The devices.                                                            *)

\* The smaller of two numbers.
LEMMA MinOfTwo ==
    ASSUME NEW a \in Nat, NEW b \in Nat
    PROVE  Min({a, b}) \in {a, b} /\ Min({a, b}) <= a /\ Min({a, b}) <= b
  <1>1. \E x \in {a, b} : \A y \in {a, b} : x <= y
    <2>1. CASE a <= b BY <2>1
    <2>2. CASE b <= a BY <2>2
    <2> QED BY <2>1, <2>2
  <1> QED BY <1>1 DEF Min

\* What rte_eth_rx_burst() returns and takes.
LEMMA RxCountFacts ==
    ASSUME NEW len \in Nat, NEW size \in Nat, NEW free \in Nat
    PROVE  /\ RxCount(len, size, free) \in 0 .. len
           /\ RxCount(len, size, free) <= size /\ RxCount(len, size, free) <= free
           /\ RxTaken(len, size, free) \in RxCount(len, size, free) .. len
  <1>1. /\ Min({len, size}) \in {len, size}
        /\ Min({len, size}) <= len /\ Min({len, size}) <= size
    BY MinOfTwo
  <1>2. /\ Min({len, size, free}) \in {len, size, free}
        /\ Min({len, size, free}) <= len /\ Min({len, size, free}) <= size
        /\ Min({len, size, free}) <= free
    <2>1. \E x \in {len, size, free} : \A y \in {len, size, free} : x <= y
      <3>1. CASE len <= size /\ len <= free BY <3>1
      <3>2. CASE size <= len /\ size <= free BY <3>2
      <3>3. CASE free <= len /\ free <= size BY <3>3
      <3> QED BY <3>1, <3>2, <3>3
    <2> QED BY <2>1 DEF Min
  <1> QED BY <1>1, <1>2 DEF RxCount, RxTaken

\* A prefix and a rest of a sequence of frames.
LEMMA TakenFacts ==
    ASSUME NEW F, NEW fs \in Seq(F), NEW n \in 0 .. Len(fs)
    PROVE  /\ Taken(fs, n) \in Seq(F) /\ Len(Taken(fs, n)) = n
           /\ \A i \in 1 .. n : Taken(fs, n)[i] = fs[i]
           /\ Rest(fs, n) \in Seq(F) /\ Len(Rest(fs, n)) = Len(fs) - n
           /\ \A i \in 1 .. Len(fs) - n : Rest(fs, n)[i] = fs[n + i]
  BY SubSeqProperties DEF Taken, Rest

\* What the kernel holds for a port stays a queue of frames of its kind.
LEMMA ArriveFacts ==
    ASSUME NEW F, NEW q \in Seq(F), NEW fs \in Seq(F), NEW cap \in Nat
    PROVE  Arrive(q, fs, cap) \in Seq(F) /\ Len(Arrive(q, fs, cap)) <= cap
  <1> DEFINE all == q \o fs
             n == Min({Len(all), cap})
  <1>1. all \in Seq(F)
    BY ConcatProperties
  <1>2. n \in 0 .. Len(all) /\ n <= cap
    <2> HIDE DEF all
    <2>1. Len(all) \in Nat
      BY <1>1, LenProperties
    <2>2. \A k \in Nat : Min({k, cap}) \in 0 .. k /\ Min({k, cap}) <= cap
      <3> TAKE k \in Nat
      <3>1. Min({k, cap}) \in {k, cap} /\ Min({k, cap}) <= k /\ Min({k, cap}) <= cap
        BY MinOfTwo
      <3> QED BY <3>1
    <2> QED BY <2>1, <2>2
  <1> HIDE DEF all, n
  <1>3. SubSeq(all, 1, n) \in Seq(F) /\ Len(SubSeq(all, 1, n)) = n
    BY <1>1, <1>2, SubSeqProperties
  <1> QED BY <1>2, <1>3 DEF Arrive, all, n

-----------------------------------------------------------------------------
(* Numbers.                                                                *)

\* A set of numbers has a least member.
LEMMA Least ==
    ASSUME NEW S \in SUBSET Nat, S # {}
    PROVE  \E x \in S : \A y \in S : x <= y
  <1>1. IsWellFoundedOn(OpToRel(<, Nat), Nat)
    BY NatLessThanWellFounded
  <1>2. PICK x \in S : \A y \in S : ~(<<y, x>> \in OpToRel(<, Nat))
    BY <1>1, WFMin
  <1>3. \A y \in S : ~(y < x)
    BY <1>2 DEF OpToRel
  <1> QED BY <1>3

\* Min() is it.
LEMMA MinOfNats ==
    ASSUME NEW S \in SUBSET Nat, S # {}
    PROVE  Min(S) \in S /\ \A y \in S : Min(S) <= y
  BY Least DEF Min

\* Induction over the numbers in a set.
LEMMA NumberInduction ==
    ASSUME NEW G, 0 \in G, \A n \in Nat : n \in G => n + 1 \in G
    PROVE  Nat \subseteq G
  <1> SUFFICES ASSUME NEW m \in Nat, m \notin G PROVE FALSE
    OBVIOUS
  <1>1. PICK x \in Nat \ G : \A y \in Nat \ G : x <= y
    BY Least
  <1>2. x # 0 /\ x - 1 \in Nat
    BY <1>1
  <1>3. x - 1 \in G
    BY <1>1, <1>2
  <1>4. (x - 1) + 1 = x
    BY <1>1
  <1> QED BY <1>1, <1>2, <1>3, <1>4

\* The sum over two sequences, one after the other.
LEMMA SumConcat ==
    ASSUME NEW s \in Seq(Int), NEW t \in Seq(Int)
    PROVE  SumFunction(s \o t) = SumFunction(s) + SumFunction(t)
  <1>1. /\ Len(s) \in Nat /\ Len(t) \in Nat
        /\ DOMAIN s = 1 .. Len(s) /\ DOMAIN t = 1 .. Len(t)
    BY LenProperties
  <1>2. PICK n \in Nat : n = Len(s)
    BY <1>1
  <1>3. PICK m \in Nat : m = Len(t)
    BY <1>1
  <1>4. PICK u : u = s \o t
    OBVIOUS
  <1>5. /\ u \in Seq(Int) /\ Len(u) = n + m
        /\ \A i \in 1 .. n + m : u[i] = IF i <= n THEN s[i] ELSE t[i - n]
    BY <1>2, <1>3, <1>4, ConcatProperties
  <1>6. DOMAIN u = 1 .. n + m
    BY <1>5, LenProperties
  <1>7. /\ \A i \in 1 .. n : s[i] \in Int /\ u[i] = s[i]
        /\ \A i \in 1 .. m : t[i] \in Int /\ u[n + i] = t[i]
        /\ \A i \in 1 .. n + m : u[i] \in Int
    <2>1. \A i \in 1 .. n : s[i] \in Int
      BY <1>2, ElementOfSeq
    <2>2. \A i \in 1 .. m : t[i] \in Int
      BY <1>3, ElementOfSeq
    <2>3. \A i \in 1 .. n + m : u[i] \in Int
      BY <1>5, ElementOfSeq
    <2>4. \A i \in 1 .. n : u[i] = s[i]
      BY <1>5
    <2>5. \A i \in 1 .. m : u[n + i] = t[i]
      <3> TAKE i \in 1 .. m
      <3>1. n + i \in 1 .. n + m /\ ~(n + i <= n) /\ (n + i) - n = i
        OBVIOUS
      <3> QED BY <1>5, <3>1
    <2> QED BY <2>1, <2>2, <2>3, <2>4, <2>5
  <1> DEFINE U(k) == SumFunctionOnSet(u, 1 .. n + k)
             T(k) == SumFunctionOnSet(t, 1 .. k)
             S == SumFunctionOnSet(s, 1 .. n)
             G == {k \in Nat : k <= m => U(k) = S + T(k)}
  <1>8. \A k \in Nat : /\ IsFiniteSet(1 .. k) /\ IsFiniteSet(1 .. n + k)
                       /\ (1 .. k + 1) \ {k + 1} = 1 .. k
                       /\ (1 .. n + (k + 1)) \ {n + (k + 1)} = 1 .. n + k
    <2> TAKE k \in Nat
    <2>1. n + k \in Nat /\ 1 \in Int
      OBVIOUS
    <2>2. IsFiniteSet(1 .. k) /\ IsFiniteSet(1 .. n + k)
      BY <2>1, FS_Interval
    <2>3. (1 .. k + 1) \ {k + 1} = 1 .. k
      OBVIOUS
    <2>4. (1 .. n + (k + 1)) \ {n + (k + 1)} = 1 .. n + k
      OBVIOUS
    <2> QED BY <2>2, <2>3, <2>4
  <1>9. S \in Int
    BY <1>7, <1>8, SumRemove
  <1>10. 0 \in G
    <2>1. U(0) = S
      <3>1. n + 0 = n /\ IsFiniteSet(1 .. n) /\ \A i \in 1 .. n : u[i] = s[i]
        BY <1>7, <1>8
      <3>2. SumFunctionOnSet(u, 1 .. n) = S
        BY <3>1, SumSame
      <3> QED BY <3>1, <3>2
    <2>2. T(0) = 0
      BY SumEmpty
    <2> QED BY <1>9, <2>1, <2>2
  <1>11. ASSUME NEW k \in Nat, k \in G PROVE k + 1 \in G
    <2> SUFFICES ASSUME k + 1 <= m PROVE U(k + 1) = S + T(k + 1)
      OBVIOUS
    <2>1. U(k) = S + T(k)
      BY <1>11
    <2>2. U(k + 1) = u[n + (k + 1)] + U(k)
      <3>1. \A i \in 1 .. n + (k + 1) : u[i] \in Int
        BY <1>7
      <3>2. n + (k + 1) \in 1 .. n + (k + 1) /\ IsFiniteSet(1 .. n + (k + 1))
        BY <1>8
      <3>3. SumFunctionOnSet(u, 1 .. n + (k + 1))
              = u[n + (k + 1)] + SumFunctionOnSet(u, (1 .. n + (k + 1)) \ {n + (k + 1)})
        BY <3>1, <3>2, SumRemove
      <3> QED BY <1>8, <3>3
    <2>3. T(k + 1) = t[k + 1] + T(k) /\ T(k) \in Int
      <3>1. \A i \in 1 .. k + 1 : t[i] \in Int
        BY <1>7
      <3>2. k + 1 \in 1 .. k + 1 /\ IsFiniteSet(1 .. k + 1) /\ IsFiniteSet(1 .. k)
        BY <1>8
      <3>3. T(k) \in Int
        <4>1. \A i \in 1 .. k : t[i] \in Int
          BY <1>7
        <4> QED BY <3>2, <4>1, SumRemove
      <3>4. SumFunctionOnSet(t, 1 .. k + 1)
              = t[k + 1] + SumFunctionOnSet(t, (1 .. k + 1) \ {k + 1})
        BY <3>1, <3>2, SumRemove
      <3>5. T(k + 1) = t[k + 1] + T(k)
        BY <1>8, <3>4
      <3> QED BY <3>3, <3>5
    <2>4. u[n + (k + 1)] = t[k + 1] /\ t[k + 1] \in Int
      BY <1>7
    <2> HIDE DEF U, T, S
    <2> QED BY <1>9, <2>1, <2>2, <2>3, <2>4
  <1>12. Nat \subseteq G
    <2> HIDE DEF G
    <2> QED BY <1>10, <1>11, NumberInduction
  <1>13. U(m) = S + T(m)
    BY <1>12
  <1>14. SumFunction(u) = U(m) /\ SumFunction(s) = S /\ SumFunction(t) = T(m)
    BY <1>1, <1>2, <1>3, <1>6 DEF SumFunction
  <1> QED BY <1>4, <1>13, <1>14

\* Concatenation is associative.
Associate(x, y, z) == (x \o y) \o z = x \o (y \o z)

\* It is, for sequences over one set.
LEMMA Associates ==
    ASSUME NEW F, NEW x \in Seq(F), NEW y \in Seq(F), NEW z \in Seq(F)
    PROVE  Associate(x, y, z)
  <1>1. (x \o y) \o z = x \o (y \o z)
    BY ConcatAssociative, SMT
  <1> QED BY <1>1 DEF Associate

-----------------------------------------------------------------------------
(* Select() picks the frames of a set out of a sequence.                   *)

\* The prefixes of the selection, up to n frames of s.
Selects(g, s, S, n) ==
    g = [i \in 0 .. n |->
            IF i = 0 THEN <<>>
            ELSE IF s[i] \in S THEN Append(g[i - 1], s[i]) ELSE g[i - 1]]

\* The selections of all prefixes of a sequence.
LEMMA SelectsExist ==
    ASSUME NEW s, NEW S, NEW n \in Nat
    PROVE  \E g : Selects(g, s, S, n)
  <1> DEFINE G == {k \in Nat : \E g : Selects(g, s, S, k)}
  <1>1. 0 \in G
    <2>1. Selects([i \in 0 .. 0 |-> <<>>], s, S, 0)
      BY DEF Selects
    <2> QED BY <2>1
  <1>2. ASSUME NEW k \in Nat, k \in G PROVE k + 1 \in G
    <2>1. PICK g : Selects(g, s, S, k)
      BY <1>2
    <2> DEFINE m == k + 1
               h == [i \in 0 .. m |->
                       IF i = m
                       THEN IF s[m] \in S THEN Append(g[k], s[m]) ELSE g[k]
                       ELSE g[i]]
    <2>2. \A i \in 0 .. k : g[i] = IF i = 0 THEN <<>>
                                 ELSE IF s[i] \in S THEN Append(g[i - 1], s[i]) ELSE g[i - 1]
      BY <2>1 DEF Selects
    <2>3. \A i \in 0 .. k : h[i] = g[i]
      OBVIOUS
    <2>4. h[m] = IF s[m] \in S THEN Append(g[k], s[m]) ELSE g[k]
      OBVIOUS
    <2>5. \A i \in 0 .. m : h[i] = IF i = 0 THEN <<>>
                                 ELSE IF s[i] \in S THEN Append(h[i - 1], s[i]) ELSE h[i - 1]
      <3> SUFFICES ASSUME NEW i \in 0 .. m
                   PROVE h[i] = IF i = 0 THEN <<>>
                                ELSE IF s[i] \in S THEN Append(h[i - 1], s[i]) ELSE h[i - 1]
        OBVIOUS
      <3> HIDE DEF h
      <3>1. CASE i = m
        <4>1. i # 0 /\ i - 1 = k /\ k \in 0 .. k
          BY <3>1
        <4>2. h[i - 1] = g[k]
          BY <2>3, <4>1
        <4> QED BY <2>4, <3>1, <4>1, <4>2
      <3>2. CASE i = 0
        BY <2>2, <2>3, <3>2
      <3>3. CASE i # m /\ i # 0
        <4>1. i \in 0 .. k /\ i - 1 \in 0 .. k
          BY <3>3
        <4>2. h[i] = g[i] /\ h[i - 1] = g[i - 1]
          BY <2>3, <4>1
        <4> QED BY <2>2, <3>3, <4>1, <4>2
      <3> QED BY <3>1, <3>2, <3>3
    <2>6. h = [i \in 0 .. m |-> h[i]]
      OBVIOUS
    <2> HIDE DEF h
    <2>7. Selects(h, s, S, m)
      BY <2>5, <2>6 DEF Selects
    <2> QED BY <2>7
  <1>3. Nat \subseteq G
    <2> HIDE DEF G
    <2> QED BY <1>1, <1>2, NumberInduction
  <1> QED BY <1>3

\* Select() is the selection of the whole sequence.
LEMMA SelectIs ==
    ASSUME NEW s, NEW S, Len(s) \in Nat
    PROVE  \E g : Selects(g, s, S, Len(s)) /\ Select(s, S) = g[Len(s)]
  <1> DEFINE g == CHOOSE h : Selects(h, s, S, Len(s))
  <1>1. Selects(g, s, S, Len(s))
    BY SelectsExist
  <1>2. Select(s, S) = g[Len(s)]
    BY DEF Select, Selects
  <1> QED BY <1>1, <1>2

\* The selection of a prefix has frames of the set only, and no more than the
\* prefix.
LEMMA SelectPrefix ==
    ASSUME NEW F, NEW s \in Seq(F), NEW S, NEW g, Selects(g, s, S, Len(s)),
           NEW i \in 0 .. Len(s)
    PROVE  g[i] \in Seq(F \cap S) /\ Len(g[i]) \in 0 .. i
  <1> DEFINE G == {k \in Nat : k <= Len(s) => g[k] \in Seq(F \cap S) /\ Len(g[k]) \in 0 .. k}
  <1>0. \A k \in 0 .. Len(s) : g[k] = IF k = 0 THEN <<>>
                     ELSE IF s[k] \in S THEN Append(g[k - 1], s[k]) ELSE g[k - 1]
    BY DEF Selects
  <1>1. 0 \in G
    <2>1. 0 \in 0 .. Len(s) /\ g[0] = <<>>
      BY <1>0, LenProperties
    <2>2. <<>> \in Seq(F \cap S) /\ Len(<<>>) = 0
      BY EmptySeq
    <2>3. g[0] \in Seq(F \cap S) /\ Len(g[0]) \in 0 .. 0
      BY <2>1, <2>2
    <2> QED BY <2>3, Zenon
  <1>2. ASSUME NEW k \in Nat, k \in G PROVE k + 1 \in G
    <2> SUFFICES ASSUME k + 1 <= Len(s)
                 PROVE  g[k + 1] \in Seq(F \cap S) /\ Len(g[k + 1]) \in 0 .. k + 1
      OBVIOUS
    <2>1. k + 1 \in 1 .. Len(s) /\ k + 1 # 0 /\ (k + 1) - 1 = k /\ k <= Len(s)
      BY LenProperties
    <2>2. g[k] \in Seq(F \cap S) /\ Len(g[k]) \in 0 .. k
      BY <1>2, <2>1
    <2>3. s[k + 1] \in F
      BY <2>1, ElementOfSeq
    <2>4. g[k + 1] = IF s[k + 1] \in S THEN Append(g[k], s[k + 1]) ELSE g[k]
      BY <1>0, <2>1
    <2> HIDE DEF G
    <2>5. CASE s[k + 1] \in S
      <3>1. s[k + 1] \in F \cap S /\ g[k + 1] = Append(g[k], s[k + 1])
        BY <2>3, <2>4, <2>5
      <3>2. g[k + 1] \in Seq(F \cap S) /\ Len(g[k + 1]) = Len(g[k]) + 1
        BY <2>2, <3>1, AppendProperties
      <3> QED BY <2>2, <3>2
    <2>6. CASE s[k + 1] \notin S
      BY <2>2, <2>4, <2>6
    <2> QED BY <2>5, <2>6
  <1>3. Nat \subseteq G
    <2> HIDE DEF G
    <2> QED BY <1>1, <1>2, NumberInduction
  <1> QED BY <1>3, LenProperties

\* Select() returns a sequence of frames of the set, no longer than the one it
\* selects from.
LEMMA SelectFacts ==
    ASSUME NEW F, NEW s \in Seq(F), NEW S
    PROVE  Select(s, S) \in Seq(F \cap S) /\ Len(Select(s, S)) \in 0 .. Len(s)
  <1>1. Len(s) \in Nat
    BY LenProperties
  <1>2. PICK g : Selects(g, s, S, Len(s)) /\ Select(s, S) = g[Len(s)]
    BY <1>1, SelectIs
  <1>3. Len(s) \in 0 .. Len(s)
    BY <1>1
  <1>4. \A i \in 0 .. Len(s) : \A h : Selects(h, s, S, Len(s)) =>
            h[i] \in Seq(F \cap S) /\ Len(h[i]) \in 0 .. i
    BY SelectPrefix
  <1> QED BY <1>2, <1>3, <1>4, Zenon

\* A frame goes to one of two complementary selections: together they have as
\* many as the sequence.
LEMMA SelectSplit ==
    ASSUME NEW F, NEW s \in Seq(F), NEW S, NEW T,
           \A i \in 1 .. Len(s) : s[i] \in S <=> s[i] \notin T
    PROVE  Len(Select(s, S)) + Len(Select(s, T)) = Len(s)
  <1>1. Len(s) \in Nat
    BY LenProperties
  <1>2. PICK g : Selects(g, s, S, Len(s)) /\ Select(s, S) = g[Len(s)]
    BY <1>1, SelectIs
  <1>3. PICK h : Selects(h, s, T, Len(s)) /\ Select(s, T) = h[Len(s)]
    BY <1>1, SelectIs
  <1> DEFINE n == Len(s)
             A(k) == Len(g[k])
             B(k) == Len(h[k])
             G == {k \in Nat : k <= n => A(k) + B(k) = k}
  <1>4. \A k \in 0 .. Len(s) : g[k] = IF k = 0 THEN <<>>
                     ELSE IF s[k] \in S THEN Append(g[k - 1], s[k]) ELSE g[k - 1]
    BY <1>2 DEF Selects
  <1>5. \A k \in 0 .. Len(s) : h[k] = IF k = 0 THEN <<>>
                     ELSE IF s[k] \in T THEN Append(h[k - 1], s[k]) ELSE h[k - 1]
    BY <1>3 DEF Selects
  <1>6. 0 \in G
    <2>1. g[0] = <<>> /\ h[0] = <<>>
      BY <1>1, <1>4, <1>5
    <2>2. A(0) = 0 /\ B(0) = 0
      BY <2>1, EmptySeq
    <2> HIDE DEF A, B
    <2> QED BY <2>2
  <1>7. ASSUME NEW k \in Nat, k \in G PROVE k + 1 \in G
    <2> HIDE DEF A, B, n
    <2> SUFFICES ASSUME k + 1 <= n PROVE A(k + 1) + B(k + 1) = k + 1
      OBVIOUS
    <2>1. k + 1 \in 1 .. n /\ k + 1 # 0 /\ (k + 1) - 1 = k /\ k \in 0 .. n
              /\ k + 1 \in 0 .. n
      BY <1>1 DEF n
    <2>2. A(k) + B(k) = k
      BY <1>7, <2>1
    <2>3. g[k] \in Seq(F \cap S) /\ h[k] \in Seq(F \cap T)
      BY <1>2, <1>3, <2>1, SelectPrefix DEF n
    <2>4. s[k + 1] \in F
      BY <2>1, ElementOfSeq DEF n
    <2>5. /\ g[k + 1] = IF s[k + 1] \in S THEN Append(g[k], s[k + 1]) ELSE g[k]
          /\ h[k + 1] = IF s[k + 1] \in T THEN Append(h[k], s[k + 1]) ELSE h[k]
      BY <1>4, <1>5, <2>1 DEF n
    <2>6. A(k) \in Nat /\ B(k) \in Nat
      BY <2>3, LenProperties DEF A, B
    <2> HIDE DEF G
    <2>7. CASE s[k + 1] \in S
      <3>1. s[k + 1] \in F \cap S /\ s[k + 1] \notin T
        BY <2>1, <2>4, <2>7 DEF n
      <3>2. A(k + 1) = A(k) + 1 /\ B(k + 1) = B(k)
        BY <2>3, <2>5, <3>1, AppendProperties DEF A, B
      <3> QED BY <2>2, <2>6, <3>2
    <2>8. CASE s[k + 1] \notin S
      <3>1. s[k + 1] \in F \cap T
        BY <2>1, <2>4, <2>8 DEF n
      <3>2. B(k + 1) = B(k) + 1 /\ A(k + 1) = A(k)
        BY <2>3, <2>5, <2>8, <3>1, AppendProperties DEF A, B
      <3> QED BY <2>2, <2>6, <3>2
    <2> QED BY <2>7, <2>8
  <1>8. Nat \subseteq G
    <2> HIDE DEF G
    <2> QED BY <1>6, <1>7, NumberInduction
  <1>9. A(n) + B(n) = n
    <2> HIDE DEF A, B
    <2> QED BY <1>1, <1>8
  <1> QED BY <1>2, <1>3, <1>9

\* A set that holds none of the frames selects nothing, and one that holds all
\* of them selects as many.
LEMMA SelectNone ==
    ASSUME NEW F, NEW s \in Seq(F), NEW S, \A i \in 1 .. Len(s) : s[i] \notin S
    PROVE  Len(Select(s, S)) = 0
  <1>1. Select(s, S) \in Seq((F \ S) \cap S)
    <2>1. s \in Seq(F \ S)
      BY LenProperties, ElementOfSeq
    <2> QED BY <2>1, SelectFacts
  <1>2. (F \ S) \cap S = {}
    OBVIOUS
  <1>3. Select(s, S) \in Seq({})
    BY <1>1, <1>2
  <1> HIDE DEF Select
  <1> QED BY <1>3, LenProperties, ElementOfSeq

\* A sequence of frames of the set is selected as a whole.
LEMMA SelectAll ==
    ASSUME NEW F, NEW s \in Seq(F), NEW S, \A i \in 1 .. Len(s) : s[i] \in S
    PROVE  Len(Select(s, S)) = Len(s)
  <1>1. Len(Select(s, S)) + Len(Select(s, {})) = Len(s)
    BY SelectSplit
  <1>2. Len(Select(s, {})) = 0
    BY SelectNone
  <1>3. Len(Select(s, S)) \in Nat
    BY SelectFacts, LenProperties
  <1> QED BY <1>1, <1>2, <1>3

\* The selections of two prefixes of equal length agree when the two sequences
\* have frames of the set at the same places there, and the same frames.
LEMMA SelectsAgree ==
    ASSUME NEW s, NEW t, NEW S, NEW T, NEW n \in Nat, NEW m \in Nat, NEW g, NEW h,
           Selects(g, s, S, n), Selects(h, t, T, m), NEW k \in Nat, k <= n, k <= m,
           \A i \in 1 .. k : (s[i] \in S => s[i] = t[i]) /\ (s[i] \in S <=> t[i] \in T)
    PROVE  g[k] = h[k]
  <1> DEFINE G == {j \in Nat : j <= k => g[j] = h[j]}
  <1>1. \A i \in 0 .. n : g[i] = IF i = 0 THEN <<>>
                              ELSE IF s[i] \in S THEN Append(g[i - 1], s[i]) ELSE g[i - 1]
    BY DEF Selects
  <1>2. \A i \in 0 .. m : h[i] = IF i = 0 THEN <<>>
                              ELSE IF t[i] \in T THEN Append(h[i - 1], t[i]) ELSE h[i - 1]
    BY DEF Selects
  <1>3. 0 \in G
    BY <1>1, <1>2
  <1>4. ASSUME NEW j \in Nat, j \in G PROVE j + 1 \in G
    <2> SUFFICES ASSUME j + 1 <= k PROVE g[j + 1] = h[j + 1]
      OBVIOUS
    <2>1. /\ j + 1 \in 0 .. n /\ j + 1 \in 0 .. m /\ j + 1 \in 1 .. k
          /\ j + 1 # 0 /\ (j + 1) - 1 = j /\ j <= k
      OBVIOUS
    <2>2. g[j] = h[j]
      BY <1>4, <2>1
    <2>3. /\ g[j + 1] = IF s[j + 1] \in S THEN Append(g[j], s[j + 1]) ELSE g[j]
          /\ h[j + 1] = IF t[j + 1] \in T THEN Append(h[j], t[j + 1]) ELSE h[j]
      BY <1>1, <1>2, <2>1
    <2>4. (s[j + 1] \in S => s[j + 1] = t[j + 1]) /\ (s[j + 1] \in S <=> t[j + 1] \in T)
      BY <2>1
    <2> HIDE DEF G
    <2> QED BY <2>2, <2>3, <2>4, Zenon
  <1>5. Nat \subseteq G
    <2> HIDE DEF G
    <2> QED BY <1>3, <1>4, NumberInduction
  <1> QED BY <1>5

\* Select() only asks which of the frames of the sequence are in the set.
LEMMA SelectSame ==
    ASSUME NEW F, NEW s \in Seq(F), NEW S, NEW T, \A i \in 1 .. Len(s) : s[i] \in S <=> s[i] \in T
    PROVE  Select(s, S) = Select(s, T)
  <1>1. Len(s) \in Nat
    BY LenProperties
  <1>2. PICK n \in Nat : n = Len(s)
    BY <1>1
  <1>3. PICK g : Selects(g, s, S, n) /\ Select(s, S) = g[n]
    BY <1>1, <1>2, SelectIs
  <1>4. PICK h : Selects(h, s, T, n) /\ Select(s, T) = h[n]
    BY <1>1, <1>2, SelectIs
  <1>5. n <= n /\ \A i \in 1 .. n : s[i] = s[i] /\ (s[i] \in S <=> s[i] \in T)
    BY <1>2
  <1>6. g[n] = h[n]
    BY <1>3, <1>4, <1>5, SelectsAgree
  <1> QED BY <1>3, <1>4, <1>6

\* Two sequences with the same frames of the set, at the same places.
LEMMA SelectAlike ==
    ASSUME NEW F, NEW s \in Seq(F), NEW t \in Seq(F), NEW n \in Nat, Len(s) = n, Len(t) = n,
           NEW S, \A i \in 1 .. n : (s[i] \in S => s[i] = t[i]) /\ (s[i] \in S <=> t[i] \in S)
    PROVE  Select(s, S) = Select(t, S)
  <1>1. PICK g : Selects(g, s, S, n) /\ Select(s, S) = g[n]
    BY SelectIs
  <1>2. PICK h : Selects(h, t, S, n) /\ Select(t, S) = h[n]
    BY SelectIs
  <1>3. n <= n
    OBVIOUS
  <1>4. g[n] = h[n]
    BY <1>1, <1>2, <1>3, SelectsAgree
  <1> QED BY <1>1, <1>2, <1>4

\* Nothing is selected from nothing.
LEMMA SelectEmpty == \A S : Select(<<>>, S) = <<>>
  <1> TAKE S
  <1>1. Len(<<>>) = 0
    BY EmptySeq
  <1>2. PICK g : Selects(g, <<>>, S, 0) /\ Select(<<>>, S) = g[0]
    BY <1>1, SelectIs
  <1>3. g[0] = <<>>
    BY <1>2 DEF Selects
  <1> QED BY <1>2, <1>3

\* The selection from one frame.
LEMMA SelectOne ==
    ASSUME NEW F, NEW f \in F, NEW S
    PROVE  Select(<<f>>, S) = IF f \in S THEN <<f>> ELSE <<>>
  <1>1. Len(<<f>>) = 1 /\ <<f>>[1] = f /\ Append(<<>>, f) = <<f>>
    OBVIOUS
  <1>2. PICK g : Selects(g, <<f>>, S, 1) /\ Select(<<f>>, S) = g[1]
    BY <1>1, SelectIs
  <1>3. g[0] = <<>>
    BY <1>2 DEF Selects
  <1>4. g[1] = IF <<f>>[1] \in S THEN Append(g[0], <<f>>[1]) ELSE g[0]
    <2>1. \A i \in 0 .. 1 : g[i] = IF i = 0 THEN <<>>
             ELSE IF <<f>>[i] \in S THEN Append(g[i - 1], <<f>>[i]) ELSE g[i - 1]
      BY <1>2 DEF Selects
    <2>2. 1 \in 0 .. 1 /\ 1 # 0 /\ 1 - 1 = 0
      OBVIOUS
    <2> QED BY <2>1, <2>2, Zenon
  <1> QED BY <1>1, <1>2, <1>3, <1>4, Zenon

\* The selection from one sequence after another.
LEMMA SelectConcat ==
    ASSUME NEW F, NEW s \in Seq(F), NEW t \in Seq(F), NEW S
    PROVE  Select(s \o t, S) = Select(s, S) \o Select(t, S)
  <1>1. PICK n \in Nat : n = Len(s)
    BY LenProperties
  <1>2. PICK m \in Nat : m = Len(t)
    BY LenProperties
  <1>3. PICK u : u = s \o t
    OBVIOUS
  <1>4. /\ u \in Seq(F) /\ Len(u) = n + m
        /\ \A i \in 1 .. n + m : u[i] = IF i <= n THEN s[i] ELSE t[i - n]
    BY <1>1, <1>2, <1>3, ConcatProperties
  <1>5. PICK g : Selects(g, s, S, n) /\ Select(s, S) = g[n]
    BY <1>1, SelectIs
  <1>6. PICK h : Selects(h, t, S, m) /\ Select(t, S) = h[m]
    BY <1>2, SelectIs
  <1>7. PICK e : Selects(e, u, S, n + m) /\ Select(u, S) = e[n + m]
    BY <1>4, SelectIs
  <1>8. e[n] = g[n]
    <2>1. n <= n /\ n <= n + m /\ \A i \in 1 .. n : u[i] = s[i] /\ (u[i] \in S <=> s[i] \in S)
      BY <1>4
    <2>2. n + m \in Nat
      OBVIOUS
    <2> QED BY <1>5, <1>7, <2>1, <2>2, SelectsAgree
  <1> DEFINE R(k) == e[n + k] = g[n] \o h[k]
             G == {k \in Nat : k <= m => R(k)}
  <1>9. \A i \in 0 .. n + m : e[i] = IF i = 0 THEN <<>>
                      ELSE IF u[i] \in S THEN Append(e[i - 1], u[i]) ELSE e[i - 1]
    BY <1>7 DEF Selects
  <1>10. \A i \in 0 .. m : h[i] = IF i = 0 THEN <<>>
                      ELSE IF t[i] \in S THEN Append(h[i - 1], t[i]) ELSE h[i - 1]
    BY <1>6 DEF Selects
  <1>11. g[n] \in Seq(F) /\ \A k \in 0 .. m : h[k] \in Seq(F)
    <2>1. n \in 0 .. n /\ F \cap S \subseteq F
      OBVIOUS
    <2>2. g[n] \in Seq(F \cap S)
      BY <1>1, <1>5, <2>1, SelectPrefix
    <2>3. \A k \in 0 .. m : h[k] \in Seq(F \cap S)
      BY <1>2, <1>6, SelectPrefix
    <2> QED BY <2>1, <2>2, <2>3, SeqMonotonic
  <1>12. 0 \in G
    <2>1. h[0] = <<>>
      BY <1>10
    <2>2. g[n] \o <<>> = g[n] /\ n + 0 = n
      BY <1>11, ConcatEmptySeq
    <2> QED BY <1>8, <2>1, <2>2
  <1>13. ASSUME NEW k \in Nat, k \in G PROVE k + 1 \in G
    <2> HIDE DEF R
    <2> SUFFICES ASSUME k + 1 <= m PROVE R(k + 1)
      OBVIOUS
    <2>1. /\ k <= m /\ k \in 0 .. m /\ k + 1 \in 0 .. m /\ k + 1 # 0 /\ (k + 1) - 1 = k
          /\ k + 1 \in 1 .. m
          /\ n + (k + 1) \in 0 .. n + m /\ n + (k + 1) \in 1 .. n + m /\ n + (k + 1) # 0
          /\ (n + (k + 1)) - 1 = n + k
          /\ ~(n + (k + 1) <= n) /\ (n + (k + 1)) - n = k + 1
      OBVIOUS
    <2>2. R(k)
      BY <1>13, <2>1
    <2>3. u[n + (k + 1)] = t[k + 1] /\ t[k + 1] \in F
      BY <1>2, <1>4, <2>1, ElementOfSeq
    <2>4. e[n + (k + 1)] = IF t[k + 1] \in S THEN Append(e[n + k], t[k + 1]) ELSE e[n + k]
      BY <1>9, <2>1, <2>3, Zenon
    <2>5. h[k + 1] = IF t[k + 1] \in S THEN Append(h[k], t[k + 1]) ELSE h[k]
      BY <1>10, <2>1, Zenon
    <2>6. Append(g[n] \o h[k], t[k + 1]) = g[n] \o Append(h[k], t[k + 1])
      <3>1. h[k] \in Seq(F)
        BY <1>11, <2>1
      <3>2. PICK a \in Seq(F) : a = g[n]
        BY <1>11
      <3>3. PICK b \in Seq(F) : b = h[k]
        BY <3>1
      <3>4. PICK f \in F : f = t[k + 1]
        BY <2>3
      <3>5. <<f>> \in Seq(F) /\ a \o b \in Seq(F)
        BY ConcatProperties
      <3>6. Append(a \o b, f) = (a \o b) \o <<f>> /\ Append(b, f) = b \o <<f>>
        BY <3>5, AppendIsConcat
      <3>7. Associate(a, b, <<f>>)
        BY <3>5, Associates
      <3> QED BY <3>2, <3>3, <3>4, <3>6, <3>7, Zenon DEF Associate
    <2> HIDE DEF G
    <2> QED BY <2>2, <2>4, <2>5, <2>6, Zenon DEF R
  <1>14. Nat \subseteq G
    <2> HIDE DEF G
    <2> QED BY <1>12, <1>13, NumberInduction
  <1>15. R(m)
    <2> HIDE DEF R
    <2> QED BY <1>14
  <1> QED BY <1>3, <1>5, <1>6, <1>7, <1>15

\* What a full queue takes of the frames that reach it is some of the first.
LEMMA ArrivePrefix ==
    ASSUME NEW F, NEW q \in Seq(F), NEW fs \in Seq(F), NEW cap \in Nat, Len(q) <= cap
    PROVE  \E k \in 0 .. Len(fs) : Arrive(q, fs, cap) = q \o SubSeq(fs, 1, k)
  <1>1. PICK n \in Nat : n = Len(q)
    BY LenProperties
  <1>2. PICK m \in Nat : m = Len(fs)
    BY LenProperties
  <1>3. PICK u : u = q \o fs
    OBVIOUS
  <1>4. /\ u \in Seq(F) /\ Len(u) = n + m
        /\ \A i \in 1 .. n + m : u[i] = IF i <= n THEN q[i] ELSE fs[i - n]
    BY <1>1, <1>2, <1>3, ConcatProperties
  <1>5. PICK c \in Nat : c = Min({n + m, cap})
    BY MinOfTwo
  <1>6. c <= n + m /\ n <= c
    <2>1. n + m \in Nat /\ n <= cap
      BY <1>1
    <2>2. Min({n + m, cap}) \in {n + m, cap} /\ Min({n + m, cap}) <= n + m
      BY <2>1, MinOfTwo
    <2>3. c \in {n + m, cap} /\ c <= n + m
      BY <1>5, <2>2, Zenon
    <2> QED BY <2>1, <2>3
  <1>7. PICK k \in 0 .. m : c = n + k
    <2>1. c - n \in 0 .. m /\ c = n + (c - n)
      BY <1>6
    <2> QED BY <2>1
  <1>8. Arrive(q, fs, cap) = SubSeq(u, 1, c)
    BY <1>3, <1>4, <1>5, Zenon DEF Arrive
  <1>9. /\ SubSeq(u, 1, c) \in Seq(F) /\ Len(SubSeq(u, 1, c)) = c
        /\ \A i \in 1 .. c : SubSeq(u, 1, c)[i] = u[i]
    <2>1. \A i \in 1 .. c : u[i] \in F
      BY <1>4, <1>6, ElementOfSeq
    <2>2. /\ SubSeq(u, 1, c) \in Seq(F)
          /\ Len(SubSeq(u, 1, c)) = IF 1 <= c THEN c - 1 + 1 ELSE 0
          /\ \A i \in 1 .. c - 1 + 1 : SubSeq(u, 1, c)[i] = u[1 + i - 1]
      BY <2>1, SubSeqProperties
    <2>3. (IF 1 <= c THEN c - 1 + 1 ELSE 0) = c /\ c - 1 + 1 = c /\ \A i \in 1 .. c : 1 + i - 1 = i
      OBVIOUS
    <2> QED BY <2>2, <2>3, Zenon
  <1>10. PICK t : t = SubSeq(fs, 1, k)
    OBVIOUS
  <1>11. /\ t \in Seq(F) /\ Len(t) = k
         /\ \A i \in 1 .. k : t[i] = fs[i]
    <2>1. \A i \in 1 .. k : fs[i] \in F
      BY <1>2, <1>7, ElementOfSeq
    <2>2. /\ t \in Seq(F)
          /\ Len(t) = IF 1 <= k THEN k - 1 + 1 ELSE 0
          /\ \A i \in 1 .. k - 1 + 1 : t[i] = fs[1 + i - 1]
      BY <1>10, <2>1, SubSeqProperties
    <2>3. (IF 1 <= k THEN k - 1 + 1 ELSE 0) = k /\ k - 1 + 1 = k /\ \A i \in 1 .. k : 1 + i - 1 = i
      OBVIOUS
    <2> QED BY <2>2, <2>3, Zenon
  <1>12. /\ q \o t \in Seq(F) /\ Len(q \o t) = n + k
         /\ \A i \in 1 .. n + k : (q \o t)[i] = IF i <= n THEN q[i] ELSE t[i - n]
    BY <1>1, <1>11, ConcatProperties
  <1>13. \A i \in 1 .. c : SubSeq(u, 1, c)[i] = (q \o t)[i]
    <2> TAKE i \in 1 .. c
    <2>1. i \in 1 .. n + m /\ i \in 1 .. n + k
      BY <1>6, <1>7
    <2>2. ~(i <= n) => i - n \in 1 .. k
      BY <1>7
    <2>3. CASE i <= n
      BY <1>4, <1>9, <1>12, <2>1, <2>3
    <2>4. CASE ~(i <= n)
      <3>1. SubSeq(u, 1, c)[i] = fs[i - n]
        BY <1>4, <1>9, <2>1, <2>4
      <3>2. (q \o t)[i] = t[i - n]
        BY <1>12, <2>1, <2>4
      <3> QED BY <1>11, <2>2, <2>4, <3>1, <3>2
    <2> QED BY <2>3, <2>4
  <1>14. SubSeq(u, 1, c) = q \o t
    BY <1>7, <1>9, <1>12, <1>13, SeqEqual
  <1> QED BY <1>2, <1>7, <1>8, <1>10, <1>14

\* A sequence is a prefix and the rest.
LEMMA TakenAndRest ==
    ASSUME NEW F, NEW s \in Seq(F), NEW n \in 0 .. Len(s)
    PROVE  s = Taken(s, n) \o Rest(s, n)
  <1>1. PICK m \in Nat : m = Len(s)
    BY LenProperties
  <1>2. n \in 0 .. m
    BY <1>1
  <1>3. PICK k \in Nat : k = m - n
    BY <1>2
  <1>4. PICK a : a = Taken(s, n)
    OBVIOUS
  <1>5. PICK b : b = Rest(s, n)
    OBVIOUS
  <1>6. a \in Seq(F) /\ Len(a) = n /\ \A i \in 1 .. n : a[i] = s[i]
    BY <1>4, TakenFacts
  <1>7. b \in Seq(F) /\ Len(b) = k /\ \A i \in 1 .. k : b[i] = s[n + i]
    BY <1>1, <1>3, <1>5, TakenFacts
  <1>8. /\ a \o b \in Seq(F) /\ Len(a \o b) = n + k
        /\ \A i \in 1 .. n + k : (a \o b)[i] = IF i <= n THEN a[i] ELSE b[i - n]
    BY <1>2, <1>6, <1>7, ConcatProperties
  <1>9. n + k = m
    BY <1>2, <1>3
  <1>10. \A i \in 1 .. m : (a \o b)[i] = s[i]
    <2> TAKE i \in 1 .. m
    <2>1. CASE i <= n
      <3>1. i \in 1 .. n
        BY <1>2, <2>1
      <3> QED BY <1>6, <1>8, <1>9, <2>1, <3>1
    <2>2. CASE ~(i <= n)
      <3>1. i - n \in 1 .. k /\ n + (i - n) = i
        BY <1>2, <1>9, <2>2
      <3>2. (a \o b)[i] = b[i - n]
        BY <1>8, <1>9, <2>2
      <3>3. b[i - n] = s[n + (i - n)]
        BY <1>7, <3>1
      <3> QED BY <3>1, <3>2, <3>3
    <2> QED BY <2>1, <2>2
  <1>11. s = a \o b
    BY <1>1, <1>8, <1>9, <1>10, SeqEqual
  <1> QED BY <1>4, <1>5, <1>11

\* A prefix of the length of the sequence is the sequence.
LEMMA TakenAll ==
    ASSUME NEW F, NEW s \in Seq(F), NEW n \in Nat, n = Len(s)
    PROVE  SubSeq(s, 1, n) = s
  <1>1. \A i \in 1 .. n : s[i] \in F
    BY ElementOfSeq
  <1>2. /\ SubSeq(s, 1, n) \in Seq(F) /\ Len(SubSeq(s, 1, n)) = n
        /\ \A i \in 1 .. n : SubSeq(s, 1, n)[i] = s[i]
    BY TakenFacts DEF Taken
  <1> QED BY <1>2, SeqEqual

\* What is left after n frames and then t - n more.
LEMMA RestOfRest ==
    ASSUME NEW F, NEW s \in Seq(F), NEW len \in Nat, len = Len(s),
           NEW n \in 0 .. len, NEW t \in n .. len,
           NEW b, b = Rest(s, n), NEW k \in Nat, k = t - n
    PROVE  Rest(b, k) = Rest(s, t)
  <1>1. PICK m \in Nat : m = len - n /\ k \in 0 .. m /\ n + k = t
    <2>1. len - n \in Nat /\ k \in 0 .. len - n /\ n + k = t
      OBVIOUS
    <2> QED BY <2>1
  <1>2. PICK j \in Nat : j = len - t /\ m - k = j
    <2>1. len - t \in Nat /\ m - k = len - t
      BY <1>1
    <2> QED BY <2>1
  <1>3. b \in Seq(F) /\ Len(b) = m /\ \A i \in 1 .. m : b[i] = s[n + i]
    BY <1>1, TakenFacts
  <1>4. PICK c : c = Rest(b, k)
    OBVIOUS
  <1>5. c \in Seq(F) /\ Len(c) = j /\ \A i \in 1 .. j : c[i] = b[k + i]
    <2>1. k \in 0 .. Len(b) /\ Len(b) - k = j
      BY <1>1, <1>2, <1>3
    <2>2. /\ Rest(b, k) \in Seq(F) /\ Len(Rest(b, k)) = Len(b) - k
          /\ \A i \in 1 .. Len(b) - k : Rest(b, k)[i] = b[k + i]
      BY <1>3, <2>1, TakenFacts
    <2> QED BY <1>4, <2>1, <2>2, Zenon
  <1>6. PICK d : d = Rest(s, t)
    OBVIOUS
  <1>7. d \in Seq(F) /\ Len(d) = j /\ \A i \in 1 .. j : d[i] = s[t + i]
    <2>1. t \in 0 .. len
      OBVIOUS
    <2> QED BY <1>2, <1>6, <2>1, TakenFacts
  <1>8. \A i \in 1 .. j : c[i] = d[i]
    <2> TAKE i \in 1 .. j
    <2>1. k + i \in 1 .. m /\ n + (k + i) = t + i
      BY <1>1, <1>2
    <2>2. b[k + i] = s[n + (k + i)]
      BY <1>3, <2>1
    <2> QED BY <1>5, <1>7, <2>1, <2>2
  <1> QED BY <1>4, <1>5, <1>6, <1>7, <1>8, SeqEqual

\* Selecting from a selection that has all of the set.
LEMMA SelectSelect ==
    ASSUME NEW F, NEW s \in Seq(F), NEW n \in Nat, Len(s) = n, NEW S, NEW T,
           \A i \in 1 .. n : s[i] \in S => s[i] \in T
    PROVE  Select(Select(s, T), S) = Select(s, S)
  <1>1. PICK g : Selects(g, s, T, n) /\ Select(s, T) = g[n]
    BY SelectIs
  <1>2. PICK h : Selects(h, s, S, n) /\ Select(s, S) = h[n]
    BY SelectIs
  <1>3. \A i \in 0 .. n : g[i] = IF i = 0 THEN <<>>
                              ELSE IF s[i] \in T THEN Append(g[i - 1], s[i]) ELSE g[i - 1]
    BY <1>1 DEF Selects
  <1>4. \A i \in 0 .. n : h[i] = IF i = 0 THEN <<>>
                              ELSE IF s[i] \in S THEN Append(h[i - 1], s[i]) ELSE h[i - 1]
    BY <1>2 DEF Selects
  <1>5. \A k \in 0 .. n : g[k] \in Seq(F) /\ h[k] \in Seq(F)
    <2>1. \A k \in 0 .. n : g[k] \in Seq(F \cap T) /\ h[k] \in Seq(F \cap S)
      BY <1>1, <1>2, SelectPrefix
    <2>2. F \cap T \subseteq F /\ F \cap S \subseteq F
      OBVIOUS
    <2> QED BY <2>1, <2>2, SeqMonotonic
  <1> DEFINE R(k) == Select(g[k], S) = h[k]
             G == {k \in Nat : k <= n => R(k)}
  <1>6. 0 \in G
    <2>1. g[0] = <<>> /\ h[0] = <<>>
      BY <1>3, <1>4
    <2> QED BY <2>1, SelectEmpty
  <1>7. ASSUME NEW k \in Nat, k \in G PROVE k + 1 \in G
    <2> HIDE DEF R
    <2> SUFFICES ASSUME k + 1 <= n PROVE R(k + 1)
      OBVIOUS
    <2>1. /\ k <= n /\ k \in 0 .. n /\ k + 1 \in 0 .. n /\ k + 1 # 0 /\ (k + 1) - 1 = k
          /\ k + 1 \in 1 .. n
      OBVIOUS
    <2>2. R(k)
      BY <1>7, <2>1
    <2>3. PICK f \in F : f = s[k + 1]
      BY <2>1, ElementOfSeq
    <2>4. PICK a \in Seq(F) : a = g[k]
      BY <1>5, <2>1
    <2>5. PICK b \in Seq(F) : b = h[k]
      BY <1>5, <2>1
    <2>6. /\ g[k + 1] = IF f \in T THEN Append(a, f) ELSE a
          /\ h[k + 1] = IF f \in S THEN Append(b, f) ELSE b
      BY <1>3, <1>4, <2>1, <2>3, <2>4, <2>5, Zenon
    <2>7. Select(a, S) = b
      BY <2>2, <2>4, <2>5 DEF R
    <2>8. f \in S => f \in T
      BY <2>1, <2>3
    <2>9. Select(Append(a, f), S) = IF f \in S THEN Append(b, f) ELSE b
      <3>1. <<f>> \in Seq(F)
        OBVIOUS
      <3>2. PICK w \in Seq(F) : w = <<f>>
        BY <3>1, Zenon
      <3>3. Append(a, f) = a \o w /\ Append(b, f) = b \o w
        BY <3>2, AppendIsConcat
      <3>4. Select(a \o w, S) = Select(a, S) \o Select(w, S)
        BY SelectConcat
      <3>5. Select(w, S) = IF f \in S THEN w ELSE <<>>
        BY <3>2, SelectOne
      <3>6. b \o <<>> = b
        BY ConcatEmptySeq
      <3> QED BY <2>7, <3>3, <3>4, <3>5, <3>6, Zenon
    <2> HIDE DEF G
    <2>10. Select(g[k + 1], S) = h[k + 1]
      <3>1. CASE f \in T
        BY <2>6, <2>9, <3>1, Zenon
      <3>2. CASE f \notin T
        BY <2>6, <2>7, <2>8, <3>2, Zenon
      <3> QED BY <3>1, <3>2
    <2> QED BY <2>10 DEF R
  <1>8. Nat \subseteq G
    <2> HIDE DEF G
    <2> QED BY <1>6, <1>7, NumberInduction
  <1>9. n <= n
    OBVIOUS
  <1> HIDE DEF R
  <1>10. R(n)
    BY <1>8, <1>9
  <1> QED BY <1>1, <1>2, <1>10 DEF R

\* Frames that change from the third of three sequences to the second.
MovesUp(a, b, x, y) == (a \o (b \o x)) \o y = (a \o b) \o (x \o y)

\* They stay in order.
LEMMA MiddleMoves ==
    ASSUME NEW F, NEW a \in Seq(F), NEW b \in Seq(F), NEW x \in Seq(F), NEW y \in Seq(F)
    PROVE  MovesUp(a, b, x, y)
  <1>1. PICK c \in Seq(F) : c = a \o b
    BY ConcatProperties
  <1>2. Associate(a, b, x) /\ Associate(c, x, y)
    BY Associates
  <1> QED BY <1>1, <1>2, Zenon DEF Associate, MovesUp

\* The front of the first of three sequences is the front of the three.
InFront(x, a, b, c) == ((x \o a) \o b) \o c = x \o ((a \o b) \o c)

\* It can be taken out.
LEMMA FrontOut ==
    ASSUME NEW F, NEW x \in Seq(F), NEW a \in Seq(F), NEW b \in Seq(F), NEW c \in Seq(F)
    PROVE  InFront(x, a, b, c)
  <1>1. PICK d \in Seq(F) : d = a \o b
    BY ConcatProperties
  <1>2. Associate(x, a, b) /\ Associate(x, d, c)
    BY Associates
  <1> QED BY <1>1, <1>2, Zenon DEF Associate, InFront

-----------------------------------------------------------------------------
(* The numbers of frames.                                                  *)

\* Frames bear numbers.
Numbered(F) == \A f \in F : f.id \in Nat

\* The numbers of a sequence of frames.
LEMMA NumbersFacts ==
    ASSUME NEW F, Numbered(F), NEW s \in Seq(F)
    PROVE  Ids(s) \in Seq(Nat) /\ Len(Ids(s)) = Len(s)
                /\ \A i \in 1 .. Len(s) : Ids(s)[i] = s[i].id
  <1>1. PICK n \in Nat : n = Len(s)
    BY LenProperties
  <1>2. \A i \in 1 .. n : s[i] \in F
    BY <1>1, ElementOfSeq
  <1>3. \A i \in 1 .. n : s[i].id \in Nat
    BY <1>2 DEF Numbered
  <1>4. Ids(s) = [i \in 1 .. n |-> s[i].id]
    BY <1>1 DEF Ids
  <1>5. Ids(s) \in [1 .. n -> Nat]
    BY <1>3, <1>4
  <1>6. Ids(s) \in Seq(Nat) /\ Len(Ids(s)) = n
    BY <1>5
  <1> QED BY <1>1, <1>4, <1>6

\* The numbers of one sequence after another.
LEMMA NumbersConcat ==
    ASSUME NEW F, Numbered(F), NEW s \in Seq(F), NEW t \in Seq(F)
    PROVE  Ids(s \o t) = Ids(s) \o Ids(t)
  <1>1. PICK n \in Nat : n = Len(s)
    BY LenProperties
  <1>2. PICK m \in Nat : m = Len(t)
    BY LenProperties
  <1>3. PICK u : u = s \o t
    OBVIOUS
  <1>4. /\ u \in Seq(F) /\ Len(u) = n + m
        /\ \A i \in 1 .. n + m : u[i] = IF i <= n THEN s[i] ELSE t[i - n]
    BY <1>1, <1>2, <1>3, ConcatProperties
  <1>5. PICK a : a = Ids(s)
    OBVIOUS
  <1>6. PICK b : b = Ids(t)
    OBVIOUS
  <1>7. a \in Seq(Nat) /\ Len(a) = n /\ \A i \in 1 .. n : a[i] = s[i].id
    BY <1>1, <1>5, NumbersFacts
  <1>8. b \in Seq(Nat) /\ Len(b) = m /\ \A i \in 1 .. m : b[i] = t[i].id
    BY <1>2, <1>6, NumbersFacts
  <1>9. /\ a \o b \in Seq(Nat) /\ Len(a \o b) = n + m
        /\ \A i \in 1 .. n + m : (a \o b)[i] = IF i <= n THEN a[i] ELSE b[i - n]
    BY <1>7, <1>8, ConcatProperties
  <1>10. PICK c : c = Ids(u)
    OBVIOUS
  <1>11. PICK k \in Nat : k = n + m
    OBVIOUS
  <1>12. c \in Seq(Nat) /\ Len(c) = k /\ \A i \in 1 .. k : c[i] = u[i].id
    BY <1>4, <1>10, <1>11, NumbersFacts, Zenon
  <1>13. \A i \in 1 .. n + m : c[i] = (a \o b)[i]
    <2> TAKE i \in 1 .. n + m
    <2>1. c[i] = u[i].id
      BY <1>11, <1>12
    <2>2. CASE i <= n
      <3>1. i \in 1 .. n
        BY <2>2
      <3>2. u[i] = s[i] /\ (a \o b)[i] = a[i]
        BY <1>4, <1>9, <2>2
      <3> QED BY <1>7, <2>1, <3>1, <3>2
    <2>3. CASE ~(i <= n)
      <3>1. i - n \in 1 .. m
        BY <2>3
      <3>2. u[i] = t[i - n] /\ (a \o b)[i] = b[i - n]
        BY <1>4, <1>9, <2>3
      <3> QED BY <1>8, <2>1, <3>1, <3>2
    <2> QED BY <2>2, <2>3
  <1>14. c = a \o b
    BY <1>9, <1>11, <1>12, <1>13, SeqEqual
  <1> QED BY <1>3, <1>5, <1>6, <1>10, <1>14

\* The number of one frame.
LEMMA NumbersOne == ASSUME NEW F, Numbered(F), NEW f \in F PROVE Ids(<<f>>) = <<f.id>>
  <1>1. PICK s \in Seq(F) : s = <<f>> /\ Len(s) = 1 /\ s[1] = f
    <2>1. <<f>> \in Seq(F) /\ Len(<<f>>) = 1 /\ <<f>>[1] = f
      OBVIOUS
    <2> QED BY <2>1, Zenon
  <1>2. Ids(s) \in Seq(Nat) /\ Len(Ids(s)) = 1 /\ Ids(s)[1] = f.id
    <2>1. /\ Ids(s) \in Seq(Nat) /\ Len(Ids(s)) = Len(s)
          /\ \A i \in 1 .. Len(s) : Ids(s)[i] = s[i].id
      BY NumbersFacts
    <2>2. 1 \in 1 .. Len(s)
      BY <1>1
    <2> QED BY <1>1, <2>1, <2>2, Zenon
  <1>3. f.id \in Nat
    BY DEF Numbered
  <1>4. <<f.id>> \in Seq(Nat) /\ Len(<<f.id>>) = 1 /\ <<f.id>>[1] = f.id
    BY <1>3
  <1> QED BY <1>1, <1>2, <1>4, SeqEqual

\* No frames have no numbers.
LEMMA NumbersNone == Ids(<<>>) = <<>>
  <1>1. Len(<<>>) = 0
    BY EmptySeq
  <1>2. Ids(<<>>) = [i \in 1 .. 0 |-> <<>>[i].id]
    BY <1>1 DEF Ids
  <1> QED BY <1>2

\* The numbers of the frames of s that are in S.
IdsIn(s, S) == Ids(Select(s, S))

\* They are numbers.
LEMMA IdsInType ==
    ASSUME NEW F, Numbered(F), NEW s \in Seq(F), NEW S
    PROVE  Select(s, S) \in Seq(F) /\ IdsIn(s, S) \in Seq(Nat)
  <1>1. Select(s, S) \in Seq(F \cap S) /\ F \cap S \subseteq F
    BY SelectFacts
  <1>2. Select(s, S) \in Seq(F)
    BY <1>1, SeqMonotonic
  <1> QED BY <1>2, NumbersFacts DEF IdsIn

\* Those of one sequence after another.
LEMMA IdsInConcat ==
    ASSUME NEW F, Numbered(F), NEW s \in Seq(F), NEW t \in Seq(F), NEW S
    PROVE  IdsIn(s \o t, S) = IdsIn(s, S) \o IdsIn(t, S)
  <1>1. PICK a \in Seq(F) : a = Select(s, S)
    BY IdsInType
  <1>2. PICK b \in Seq(F) : b = Select(t, S)
    BY IdsInType
  <1>3. Select(s \o t, S) = a \o b
    <2>1. Select(s \o t, S) = Select(s, S) \o Select(t, S)
      BY SelectConcat
    <2> QED BY <1>1, <1>2, <2>1, Zenon
  <1>4. Ids(a \o b) = Ids(a) \o Ids(b)
    BY NumbersConcat
  <1> QED BY <1>1, <1>2, <1>3, <1>4, Zenon DEF IdsIn

\* Those of one frame.
LEMMA IdsInOne ==
    ASSUME NEW F, Numbered(F), NEW f \in F, NEW S
    PROVE  IdsIn(<<f>>, S) = IF f \in S THEN <<f.id>> ELSE <<>>
  <1>1. Select(<<f>>, S) = IF f \in S THEN <<f>> ELSE <<>>
    BY SelectOne
  <1>2. Ids(<<f>>) = <<f.id>> /\ Ids(<<>>) = <<>>
    BY NumbersOne, NumbersNone
  <1>3. CASE f \in S
    BY <1>1, <1>2, <1>3, Zenon DEF IdsIn
  <1>4. CASE f \notin S
    BY <1>1, <1>2, <1>4, Zenon DEF IdsIn
  <1> QED BY <1>3, <1>4

\* Frames outside the set have none.
LEMMA IdsInNone ==
    ASSUME NEW F, Numbered(F), NEW s \in Seq(F), NEW S, \A i \in 1 .. Len(s) : s[i] \notin S
    PROVE  IdsIn(s, S) = <<>>
  <1>1. Len(Select(s, S)) = 0 /\ Select(s, S) \in Seq(F)
    BY SelectNone, IdsInType
  <1>2. Select(s, S) = <<>>
    BY <1>1, EmptySeq
  <1> QED BY <1>2, NumbersNone DEF IdsIn

-----------------------------------------------------------------------------
(* Steps of a lossy channel, as positions in a sequence.                   *)

\* The positions g of s are increasing and give r.
KeptAt(s, r, g, m) ==
    /\ \A i, j \in 1 .. m : i < j => g[i] < g[j]
    /\ r = [i \in 1 .. m |-> s[g[i]]]

\* r is what is left of s when some of the frames after the first k are kept.
KeptAfter(s, r, k) ==
    \E m \in 0 .. Len(s) - k : \E g \in [1 .. m -> k + 1 .. Len(s)] : KeptAt(s, r, g, m)

\* x can be taken from the front of a sequence and y dropped.
LEMMA KeepLast ==
    ASSUME NEW F, NEW x \in Seq(F), NEW y \in Seq(F), NEW r \in Seq(F)
    PROVE  \A t : t = x \o (y \o r) =>
              \E k \in 0 .. Len(t) : SubSeq(t, 1, k) = x /\ KeptAfter(t, r, k)
  <1>1. PICK a \in Nat : a = Len(x)
    BY LenProperties
  <1>2. PICK b \in Nat : b = Len(y)
    BY LenProperties
  <1>3. PICK m \in Nat : m = Len(r)
    BY LenProperties
  <1>4. PICK v : v = y \o r
    OBVIOUS
  <1>5. PICK s : s = x \o v
    OBVIOUS
  <1>6. /\ v \in Seq(F) /\ Len(v) = b + m
        /\ \A i \in 1 .. b + m : v[i] = IF i <= b THEN y[i] ELSE r[i - b]
    BY <1>2, <1>3, <1>4, ConcatProperties
  <1>7. /\ s \in Seq(F) /\ Len(s) = a + (b + m)
        /\ \A i \in 1 .. a + (b + m) : s[i] = IF i <= a THEN x[i] ELSE v[i - a]
    <2>1. PICK w \in Nat : w = b + m
      OBVIOUS
    <2>2. Len(v) = w
      BY <1>6, <2>1, Zenon
    <2>3. /\ s \in Seq(F) /\ Len(s) = a + w
          /\ \A i \in 1 .. a + w : s[i] = IF i <= a THEN x[i] ELSE v[i - a]
      BY <1>1, <1>5, <1>6, <2>2, ConcatProperties
    <2> QED BY <2>1, <2>3, Zenon
  <1>8. SubSeq(s, 1, a) = x
    <2>1. \A i \in 1 .. a : s[i] \in F
      BY <1>7, ElementOfSeq
    <2>2. /\ SubSeq(s, 1, a) \in Seq(F)
          /\ Len(SubSeq(s, 1, a)) = IF 1 <= a THEN a - 1 + 1 ELSE 0
          /\ \A i \in 1 .. a - 1 + 1 : SubSeq(s, 1, a)[i] = s[1 + i - 1]
      BY <2>1, SubSeqProperties
    <2>3. (IF 1 <= a THEN a - 1 + 1 ELSE 0) = a /\ a - 1 + 1 = a /\ \A i \in 1 .. a : 1 + i - 1 = i
      OBVIOUS
    <2>4. \A i \in 1 .. a : SubSeq(s, 1, a)[i] = x[i]
      <3>1. \A i \in 1 .. a : i \in 1 .. a + (b + m) /\ i <= a
        OBVIOUS
      <3> QED BY <1>7, <2>2, <2>3, <3>1, Zenon
    <2>5. Len(SubSeq(s, 1, a)) = Len(x)
      BY <1>1, <2>2, <2>3, Zenon
    <2> QED BY <1>1, <2>2, <2>4, <2>5, SeqEqual
  <1>9. \A i \in 1 .. m : s[(a + b) + i] = r[i]
    <2> TAKE i \in 1 .. m
    <2>1. /\ (a + b) + i \in 1 .. a + (b + m) /\ ~((a + b) + i <= a)
          /\ ((a + b) + i) - a = b + i
          /\ b + i \in 1 .. b + m /\ ~(b + i <= b) /\ (b + i) - b = i
      OBVIOUS
    <2>2. s[(a + b) + i] = v[b + i]
      BY <1>7, <2>1, Zenon
    <2>3. v[b + i] = r[i]
      BY <1>6, <2>1, Zenon
    <2> QED BY <2>2, <2>3
  <1> DEFINE g == [i \in 1 .. m |-> (a + b) + i]
  <1>10. m \in 0 .. (a + (b + m)) - a /\ a \in 0 .. a + (b + m)
        /\ g \in [1 .. m -> a + 1 .. a + (b + m)]
    OBVIOUS
  <1>11. KeptAt(s, r, g, m)
    <2>1. \A i, j \in 1 .. m : i < j => g[i] < g[j]
      OBVIOUS
    <2>2. r = [i \in 1 .. m |-> s[g[i]]]
      <3>1. r = [i \in 1 .. m |-> r[i]]
        BY <1>3
      <3>2. \A i \in 1 .. m : s[g[i]] = r[i]
        BY <1>9
      <3> HIDE DEF g
      <3> QED BY <3>1, <3>2
    <2> HIDE DEF g
    <2> QED BY <2>1, <2>2 DEF KeptAt
  <1> HIDE DEF g
  <1>12. a \in 0 .. Len(s) /\ SubSeq(s, 1, a) = x /\ KeptAfter(s, r, a)
    BY <1>1, <1>7, <1>8, <1>10, <1>11, Zenon DEF KeptAfter
  <1>13. x \o (y \o r) = s
    BY <1>4, <1>5, Zenon
  <1> QED BY <1>12, <1>13, Zenon

\* y can be dropped from the middle of a sequence.
LEMMA KeepAround ==
    ASSUME NEW F, NEW x \in Seq(F), NEW y \in Seq(F), NEW r \in Seq(F)
    PROVE  \A t : t = x \o (y \o r) => KeptAfter(t, x \o r, 0)
  <1>1. PICK a \in Nat : a = Len(x)
    BY LenProperties
  <1>2. PICK b \in Nat : b = Len(y)
    BY LenProperties
  <1>3. PICK c \in Nat : c = Len(r)
    BY LenProperties
  <1>4. PICK v : v = y \o r
    OBVIOUS
  <1>5. PICK s : s = x \o v
    OBVIOUS
  <1>6. /\ v \in Seq(F) /\ Len(v) = b + c
        /\ \A i \in 1 .. b + c : v[i] = IF i <= b THEN y[i] ELSE r[i - b]
    BY <1>2, <1>3, <1>4, ConcatProperties
  <1>7. /\ s \in Seq(F) /\ Len(s) = a + (b + c)
        /\ \A i \in 1 .. a + (b + c) : s[i] = IF i <= a THEN x[i] ELSE v[i - a]
    <2>1. PICK w \in Nat : w = b + c
      OBVIOUS
    <2>2. Len(v) = w
      BY <1>6, <2>1, Zenon
    <2>3. /\ s \in Seq(F) /\ Len(s) = a + w
          /\ \A i \in 1 .. a + w : s[i] = IF i <= a THEN x[i] ELSE v[i - a]
      BY <1>1, <1>5, <1>6, <2>2, ConcatProperties
    <2> QED BY <2>1, <2>3, Zenon
  <1>8. PICK t : t = x \o r
    OBVIOUS
  <1>9. /\ t \in Seq(F) /\ Len(t) = a + c
        /\ \A i \in 1 .. a + c : t[i] = IF i <= a THEN x[i] ELSE r[i - a]
    BY <1>1, <1>3, <1>8, ConcatProperties
  <1> DEFINE m == a + c
             g == [i \in 1 .. m |-> IF i <= a THEN i ELSE i + b]
  <1>10. \A i \in 1 .. m : s[g[i]] = t[i]
    <2> TAKE i \in 1 .. m
    <2>1. CASE i <= a
      <3>1. i \in 1 .. a + (b + c) /\ g[i] = i
        BY <2>1
      <3> QED BY <1>7, <1>9, <2>1, <3>1
    <2>2. CASE ~(i <= a)
      <3>1. /\ i + b \in 1 .. a + (b + c) /\ ~(i + b <= a)
            /\ (i + b) - a = b + (i - a)
            /\ b + (i - a) \in 1 .. b + c /\ ~(b + (i - a) <= b)
            /\ (b + (i - a)) - b = i - a /\ g[i] = i + b
        BY <2>2
      <3>2. s[i + b] = v[b + (i - a)]
        BY <1>7, <3>1, Zenon
      <3>3. v[b + (i - a)] = r[i - a]
        BY <1>6, <3>1, Zenon
      <3>4. t[i] = r[i - a]
        BY <1>9, <2>2
      <3> QED BY <3>1, <3>2, <3>3, <3>4, Zenon
    <2> QED BY <2>1, <2>2
  <1>11. m \in 0 .. (a + (b + c)) - 0 /\ g \in [1 .. m -> 0 + 1 .. a + (b + c)]
    OBVIOUS
  <1>12. KeptAt(s, t, g, m)
    <2>1. \A i, j \in 1 .. m : i < j => g[i] < g[j]
      OBVIOUS
    <2>2. t = [i \in 1 .. m |-> s[g[i]]]
      <3>1. t = [i \in 1 .. m |-> t[i]]
        BY <1>9
      <3> HIDE DEF g, m
      <3> QED BY <1>10, <3>1
    <2> HIDE DEF g, m
    <2> QED BY <2>1, <2>2 DEF KeptAt
  <1> HIDE DEF g, m
  <1>13. KeptAfter(s, x \o r, 0)
    BY <1>7, <1>8, <1>11, <1>12, Zenon DEF KeptAfter
  <1>14. x \o (y \o r) = s
    BY <1>4, <1>5, Zenon
  <1> QED BY <1>13, <1>14

\* A function that changed at one place.
LEMMA OneChange ==
    ASSUME NEW D, NEW f, NEW g, f = [d \in D |-> f[d]], g = [d \in D |-> g[d]],
           NEW p \in D, NEW v, g[p] = v, \A d \in D : d # p => g[d] = f[d]
    PROVE  g = [f EXCEPT ![p] = v]
  <1>1. \A d \in D : g[d] = [f EXCEPT ![p] = v][d]
    OBVIOUS
  <1>2. [f EXCEPT ![p] = v] = [d \in D |-> [f EXCEPT ![p] = v][d]]
    OBVIOUS
  <1> QED BY <1>1, <1>2

-----------------------------------------------------------------------------
(* Sequences of numbers.                                                   *)

\* Numbers that change from the rest to the front.
Moves(z, x, y, r) == z \o (<<>> \o (x \o (y \o r))) = (z \o x) \o (y \o r)

\* They stay in order.
LEMMA FrontMoves ==
    ASSUME NEW z \in Seq(Nat), NEW x \in Seq(Nat), NEW y \in Seq(Nat), NEW r \in Seq(Nat)
    PROVE  Moves(z, x, y, r)
  <1>1. PICK v \in Seq(Nat) : v = y \o r
    BY ConcatProperties
  <1>2. PICK u \in Seq(Nat) : u = x \o v
    BY ConcatProperties
  <1>3. <<>> \o u = u
    BY ConcatEmptySeq
  <1>4. Associate(z, x, v)
    BY Associates
  <1> QED BY <1>1, <1>2, <1>3, <1>4, Zenon DEF Associate, Moves

\* A number in front of the second of three sequences.
LEMMA FirstOfThree ==
    ASSUME NEW a \in Seq(Nat), NEW b \in Seq(Nat), NEW c \in Seq(Nat), NEW i \in Nat
    PROVE  a \o ((<<i>> \o b) \o c) = (a \o <<i>>) \o (b \o c)
  <1>1. <<i>> \in Seq(Nat)
    OBVIOUS
  <1>2. PICK d \in Seq(Nat) : d = <<i>>
    BY <1>1, Zenon
  <1>3. PICK e \in Seq(Nat) : e = b \o c
    BY ConcatProperties
  <1>4. Associate(d, b, c) /\ Associate(a, d, e)
    BY Associates
  <1> QED BY <1>2, <1>3, <1>4, Zenon DEF Associate

\* A number at the end of the last of three sequences.
LEMMA LastOfThree ==
    ASSUME NEW a \in Seq(Nat), NEW b \in Seq(Nat), NEW c \in Seq(Nat), NEW i \in Nat
    PROVE  a \o (b \o (c \o <<i>>)) = Append(a \o (b \o c), i)
  <1>1. <<i>> \in Seq(Nat)
    OBVIOUS
  <1>2. PICK d \in Seq(Nat) : d = <<i>>
    BY <1>1, Zenon
  <1>3. PICK e \in Seq(Nat) : e = b \o c
    BY ConcatProperties
  <1>4. Associate(b, c, d) /\ Associate(a, e, d)
    BY Associates
  <1>5. PICK g \in Seq(Nat) : g = a \o e
    BY ConcatProperties
  <1>6. Append(g, i) = g \o <<i>>
    BY AppendIsConcat
  <1> QED BY <1>2, <1>3, <1>4, <1>5, <1>6, Zenon DEF Associate
=============================================================================
