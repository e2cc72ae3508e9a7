-------------------------- MODULE PortConfigProofs --------------------------
(***************************************************************************)
(* PortConfig for every number of ports and lcores, every machine and      *)
(* every command line: IInv is inductive, and what start-up promises to    *)
(* the forwarding loops follows from it.                                   *)
(***************************************************************************)
EXTENDS PortConfig, FiniteSetTheorems, TLAPS

\* There is a port 0 and a lcore 0: what main() resets its arrays to.
LEMMA Zero == 0 \in Ports /\ 0 \in Lcores /\ 0 \in 0 .. MaxEthPorts
  BY SizesAssumption DEF Ports, Lcores

\* rte_eth_dev_count_avail() is a number.
LEMMA DevCount ==
    ASSUME dev \in SUBSET Ports
    PROVE  Cardinality(dev) \in Nat
  <1>1. IsFiniteSet(Ports)
    BY SizesAssumption, FS_Interval DEF Ports
  <1>2. IsFiniteSet(dev)
    BY <1>1, FS_Subset
  <1> QED
    BY <1>2, FS_CardinalityType

\* The pool size is a number.
LEMMA PoolSizeTyped ==
    ASSUME dev \in SUBSET Ports, nb_lcores \in Nat
    PROVE  PoolSize \in Nat
  <1>1. Cardinality(dev) \in Nat
    BY DevCount
  <1>2. nb_lcores * CacheSize \in Nat
    BY SizesAssumption
  <1>3. PortMbufs + nb_lcores * CacheSize \in Nat
    BY <1>2, SizesAssumption
  <1>4. Cardinality(dev) * (PortMbufs + nb_lcores * CacheSize) \in Nat
    BY <1>1, <1>3
  <1> QED
    BY <1>4, SizesAssumption DEF PoolSize

\* Appending to a list of polled ports adds one port at its end.
LEMMA AppendFacts ==
    ASSUME NEW S, NEW s \in Seq(S), NEW e \in S
    PROVE  /\ Append(s, e) \in Seq(S)
           /\ Len(Append(s, e)) = Len(s) + 1
           /\ \A i \in 1 .. Len(s) : Append(s, e)[i] = s[i]
           /\ Append(s, e)[Len(s) + 1] = e
  OBVIOUS

\* A portmap that l2fwd_parse_port_pair_config() accepts is a list of pairs of
\* ports.
LEMMA PortmapTyped ==
    ASSUME NEW s \in PortmapArgs, PortPairConfigOK(s)
    PROVE  s \in Seq(Ports \X Ports)
  <1>1. s \in Seq(Nat \X Nat)
    BY ArgsAssumption
  <1>2. \A i \in 1 .. Len(s) : s[i] \in Ports \X Ports
    BY <1>1 DEF PortPairConfigOK
  <1> QED
    BY <1>1, <1>2

\* The inductive invariant holds when main() starts.
LEMMA InitIInv == Init => IInv
  <1> SUFFICES ASSUME Init PROVE IInv
    OBVIOUS
  <1>1. TypeOK
    <2>1. dst \in [Ports -> Ports] /\ last_port \in Ports
      BY Zero DEF Init
    <2>2. rx_port_list \in [Lcores -> Seq(Ports)] /\ pairs \in Seq(Ports \X Ports)
      BY DEF Init
    <2>3. rx_lcore_id \in 0 .. MaxLcore /\ qconf \in 0 .. MaxLcore
             /\ portid \in 0 .. MaxEthPorts
      BY SizesAssumption DEF Init
    <2> QED
      BY <2>1, <2>2, <2>3, EnvironmentAssumption DEF Init, TypeOK
  <1>2. CheckInv /\ PopulateInv /\ DstInvolution /\ AssignInv
           /\ EachPortPolledOnce /\ CountInv /\ PoolCoversCaches /\ InitInv
    BY SizesAssumption DEF Init, CheckInv, PopulateInv, DstInvolution,
       AssignInv, EachPortPolledOnce, CountInv, PoolCoversCaches, InitInv
  <1> QED
    BY <1>1, <1>2 DEF IInv

-----------------------------------------------------------------------------
(* Typing: one step per action.                                            *)

\* Every step of main() keeps the types.
LEMMA TypeStep == TypeOK /\ AssignInv /\ [Next]_vars => TypeOK'
  <1> SUFFICES ASSUME TypeOK, AssignInv, [Next]_vars PROVE TypeOK'
    OBVIOUS
  <1> USE SizesAssumption, ArgsAssumption DEF TypeOK
  <1>1. ASSUME NEW m \in MaskArgs, OptPortmask(m) PROVE TypeOK'
    BY <1>1 DEF OptPortmask, ParseOption, env, check, fwd, qs, devs
  <1>2. CASE OptPromiscuous
    BY <1>2 DEF OptPromiscuous, ParseOption, env, check, fwd, qs, devs
  <1>3. ASSUME NEW n \in NqueueArgs, OptNqueue(n) PROVE TypeOK'
    BY <1>3 DEF OptNqueue, ParseOption, ParseNqueue, env, check, fwd, qs, devs
  <1>4. ASSUME NEW n \in TimerArgs, OptTimerPeriod(n) PROVE TypeOK'
    BY <1>4 DEF OptTimerPeriod, ParseOption, ParseTimerPeriod, Exit, env,
       check, fwd, qs, devs
  <1>5. ASSUME NEW s \in PortmapArgs, OptPortmap(s) PROVE TypeOK'
    BY <1>5, PortmapTyped DEF OptPortmap, ParseOption, Exit, env, check, fwd,
       qs, devs
  <1>6. CASE OptNoMacUpdating
    BY <1>6 DEF OptNoMacUpdating, ParseOption, env, check, fwd, qs, devs
  <1>7. CASE OptUnknown
    BY <1>7 DEF OptUnknown, ParseOption, Exit, env, opts, check, fwd, qs, devs
  <1>8. CASE ParseDone
    BY <1>8 DEF ParseDone, ParseOption, Exit, env, opts, check, fwd, qs, devs
  <1>9. CASE CheckPortPair
    <2>1. idx < Len(pairs) => pairs[idx + 1] \in Ports \X Ports
      OBVIOUS
    <2> QED
      BY <1>9, <2>1 DEF CheckPortPair, PairAccepted, Exit, PairMask, env, opts, check, fwd, qs, devs
  <1>10. CASE CheckPortPairDone
    BY <1>10 DEF CheckPortPairDone, env, check, fwd, qs, devs
  <1>11. CASE CheckPortmask
    BY <1>11, Zero DEF CheckPortmask, Exit, env, opts, qs, devs
  <1>12. CASE PairPorts
    <2>1. pairs[idx + 1] \in Ports \X Ports
      BY <1>12 DEF PairPorts
    <2> QED
      BY <1>12, <2>1 DEF PairPorts, env, opts, qs, devs
  <1>13. CASE PairPortsDone
    BY <1>13 DEF PairPortsDone, env, opts, check, fwd, qs, devs
  <1>14. CASE SkipPort
    BY <1>14 DEF SkipPort, env, opts, check, fwd, qs, devs
  <1>15. CASE AlternatePort
    BY <1>15 DEF AlternatePort, Used, env, opts, check, qs, devs
  <1>16. CASE AlternateDone
    BY <1>16 DEF AlternateDone, OddPortOut, env, opts, check, qs, devs
  <1>17. CASE NextLcore
    BY <1>17 DEF NextLcore, SucceedingLcore, Lcores, AssignInv, env, opts, check, fwd, devs
  <1>18. CASE AssignPort
    <2>1. Append(rx_port_list[rx_lcore_id], portid) \in Seq(Ports)
      BY <1>18, AppendFacts DEF AssignPort, AssignInv, Used
    <2> QED
      BY <1>18, <2>1
         DEF AssignPort, AddPort, CountLcore, AssignInv, Lcores, env, opts, check, fwd, devs
  <1>19. CASE CreatePool
    <2>1. PoolSize \in Nat
      BY PoolSizeTyped
    <2> QED
      BY <1>19, <2>1, Zero DEF CreatePool, Exit, env, opts, check, fwd, qs
  <1>20. CASE InitPort
    <2>1. portid \in Ports /\ portid + 1 \in 0 .. MaxEthPorts
      BY <1>20 DEF InitPort, Used
    <2> QED
      BY <1>20, <2>1 DEF InitPort, Exit, env, opts, check, fwd, qs
  <1>21. CASE InitDone
    BY <1>21 DEF InitDone, env, opts, check, fwd, qs, devs
  <1>22. CASE UNCHANGED vars
    BY <1>22 DEF vars, env, opts, check, fwd, qs, devs
  <1> QED
    BY <1>1, <1>2, <1>3, <1>4, <1>5, <1>6, <1>7, <1>8, <1>9, <1>10, <1>11,
       <1>12, <1>13, <1>14, <1>15, <1>16, <1>17, <1>18, <1>19, <1>20, <1>21,
       <1>22 DEF Next, Parse, Configure

-----------------------------------------------------------------------------
(* check_port_pair_config(): the pairs that were accepted are disjoint.    *)

\* The pairs check_port_pair_config() has accepted stay enabled and disjoint.
LEMMA CheckStep == TypeOK /\ CheckInv /\ [Next]_vars => CheckInv'
  <1> SUFFICES ASSUME TypeOK, CheckInv, [Next]_vars PROVE CheckInv'
    OBVIOUS
  <1>1. CASE Parse
    BY <1>1 DEF Parse, OptPortmask, OptPromiscuous, OptNqueue, OptTimerPeriod,
       OptPortmap, OptNoMacUpdating, OptUnknown, ParseOption, Exit, CheckInv,
       check, opts
  <1>2. CASE ParseDone
    <2>1. PairsChecked(0)'
      BY <1>2 DEF ParseDone, ParseOption, Exit, CheckInv, PairsChecked, check, env,
         opts, Used
    <2> QED
      BY <1>2, <2>1 DEF ParseDone, ParseOption, Exit, CheckInv, TypeOK, check, opts
  <1>3. CASE CheckPortPair
    <2>1. CASE pc' = "exit"
      BY <2>1 DEF CheckInv
    <2>2. CASE pc' # "exit"
      <3> DEFINE m == PairMask(idx + 1)
      <3>1. /\ pc = "check" /\ pc' = pc /\ idx < Len(pairs) /\ idx' = idx + 1
            /\ m \subseteq enabled /\ m \subseteq dev
            /\ m \cap config_mask = {}
            /\ config_mask' = config_mask \cup m
            /\ UNCHANGED <<dev, enabled, have_pairs, pairs>>
        BY <1>3, <2>2 DEF CheckPortPair, PairAccepted, Exit, env, opts
      <3>2. PairsChecked(idx) /\ have_pairs
        BY <3>1 DEF CheckInv
      <3>3. \A i : PairMask(i)' = PairMask(i)
        BY <3>1 DEF PairMask
      <3>4. 1 .. (idx + 1) = (1 .. idx) \cup {idx + 1}
        BY DEF TypeOK
      <3>5. PairsChecked(idx)'
        <4>1. \A i \in 1 .. (idx + 1) : PairMask(i) \subseteq config_mask'
          BY <3>1, <3>2, <3>4 DEF PairsChecked
        <4>2. \A p \in config_mask' : \E i \in 1 .. (idx + 1) : p \in PairMask(i)
          BY <3>1, <3>2, <3>4 DEF PairsChecked
        <4>3. \A i, j \in 1 .. (idx + 1) :
                 i # j => PairMask(i) \cap PairMask(j) = {}
          <5> HIDE DEF m
          <5>1. \A i \in 1 .. idx : PairMask(i) \cap m = {}
            BY <3>1, <3>2 DEF PairsChecked
          <5>2. PairMask(idx + 1) = m
            BY DEF m
          <5> QED
            BY <3>2, <3>4, <5>1, <5>2 DEF PairsChecked
        <4>4. config_mask' \subseteq Used'
          BY <3>1, <3>2 DEF PairsChecked, Used
        <4> QED
          BY <3>1, <3>3, <4>1, <4>2, <4>3, <4>4 DEF PairsChecked, TypeOK
      <3> QED
        BY <3>1, <3>2, <3>5 DEF CheckInv, TypeOK
    <2> QED
      BY <2>1, <2>2
  <1>4. CASE CheckPortPairDone
    <2>1. PairsChecked(Len(pairs)) /\ pc' = "mask" /\ enabled' = config_mask
            /\ UNCHANGED <<dev, have_pairs, pairs, config_mask>>
      BY <1>4 DEF CheckPortPairDone, CheckInv, PairsChecked, Used, TypeOK,
         env, check
    <2>2. PairsChecked(Len(pairs))'
      BY <2>1 DEF PairsChecked, Used, PairMask
    <2> QED
      BY <2>1, <2>2 DEF CheckInv
  <1>5. CASE CheckPortmask
    <2>1. UNCHANGED <<dev, have_pairs, pairs, config_mask, enabled>>
            /\ pc = "mask" /\ pc' \in {"exit", "portmap", "alternate"}
            /\ (pc' = "portmap" => have_pairs)
      BY <1>5 DEF CheckPortmask, Exit, env, opts
    <2>2. have_pairs => PairsChecked(Len(pairs))'
      BY <2>1 DEF CheckInv, PairsChecked, Used, PairMask
    <2> QED
      BY <2>1, <2>2 DEF CheckInv
  <1>6. CASE PairPorts
    <2>1. UNCHANGED <<pc, dev, have_pairs, pairs, config_mask, enabled>>
             /\ pc = "portmap"
      BY <1>6 DEF PairPorts, env, opts
    <2>2. PairsChecked(Len(pairs))'
      BY <2>1 DEF CheckInv, PairsChecked, Used, PairMask
    <2> QED
      BY <2>1, <2>2 DEF CheckInv
  <1>7. CASE \/ PairPortsDone \/ AlternatePort \/ AlternateDone \/ NextLcore
             \/ AssignPort \/ CreatePool \/ InitPort \/ InitDone
    BY <1>7 DEF PairPortsDone, AlternatePort, AlternateDone, NextLcore,
       AssignPort, CreatePool, InitPort, InitDone, Exit, CheckInv
  <1>8. CASE SkipPort
    BY <1>8 DEF SkipPort, CheckInv
  <1>9. CASE UNCHANGED vars
    BY <1>9 DEF vars, env, opts, check, CheckInv, PairsChecked, PairMask, Used
  <1> QED
    BY <1>1, <1>2, <1>3, <1>4, <1>5, <1>6, <1>7, <1>8, <1>9
       DEF Next, Configure

-----------------------------------------------------------------------------
(* Populating l2fwd_dst_ports.                                             *)

\* The ports nb_ports_in_mask has counted alternate between odd and even.
LEMMA Parity ==
    ASSUME NEW n \in Nat
    PROVE  /\ n % 2 = 0 \/ n % 2 = 1
           /\ n % 2 = 0 => (n + 1) % 2 = 1
           /\ n % 2 = 1 => (n + 1) % 2 = 0
  OBVIOUS

\* Both ways of pairing enter each pair in both directions of l2fwd_dst_ports.
LEMMA PopulateStep ==
    TypeOK /\ CheckInv /\ PopulateInv /\ [Next]_vars => PopulateInv'
  <1> SUFFICES ASSUME TypeOK, CheckInv, PopulateInv, [Next]_vars
               PROVE  PopulateInv'
    OBVIOUS
  <1>1. CASE Parse
    BY <1>1 DEF Parse, OptPortmask, OptPromiscuous, OptNqueue, OptTimerPeriod,
       OptPortmap, OptNoMacUpdating, OptUnknown, ParseOption, Exit,
       PopulateInv, fwd
  <1>2. CASE ParseDone \/ CheckPortPair \/ CheckPortPairDone
    BY <1>2 DEF ParseDone, ParseOption, CheckPortPair, CheckPortPairDone, Exit,
       PopulateInv, fwd
  <1>3. CASE CheckPortmask
    <2>1. CASE pc' = "exit"
      BY <2>1 DEF PopulateInv
    <2>2. CASE pc' # "exit"
      <3>1. pc' \in {"portmap", "alternate"} /\ idx' = 0 /\ portid' = 0
              /\ nb_ports_in_mask' = 0 /\ UNCHANGED <<pairs, dev, enabled>>
        BY <1>3, <2>2 DEF CheckPortmask, Exit, PopulateInv, opts, env
      <3>2. PairsEntered(idx)' /\ idx' <= Len(pairs')
        BY <3>1 DEF PairsEntered, TypeOK
      <3>3. Paired' = {}
        <4>1. \A p \in Used' : p \in Nat /\ ~ (p < portid')
          BY <3>1 DEF Used, TypeOK, Ports
        <4> QED
          BY <4>1 DEF Paired
      <3> QED
        BY <3>1, <3>2, <3>3 DEF PopulateInv
    <2> QED
      BY <2>1, <2>2
  <1>4. CASE PairPorts
    <2> DEFINE a == pairs[idx + 1][1]
               b == pairs[idx + 1][2]
    <2>1. /\ pc = "portmap" /\ pc' = pc /\ idx < Len(pairs) /\ idx' = idx + 1
          /\ dst' = [[dst EXCEPT ![a] = b] EXCEPT ![b] = a]
          /\ UNCHANGED <<pairs, portid, nb_ports_in_mask>>
      BY <1>4 DEF PairPorts, opts
    <2>2. a \in Ports /\ b \in Ports
      BY <2>1 DEF TypeOK
    <2>3. dst'[a] = b /\ dst'[b] = a
             /\ \A p \in Ports : p \notin {a, b} => dst'[p] = dst[p]
      BY <2>1, <2>2 DEF TypeOK
    <2>4. \A i \in 1 .. idx : {pairs[i][1], pairs[i][2]} \cap {a, b} = {}
      <3>1. PairsChecked(Len(pairs)) /\ idx \in Nat /\ Len(pairs) \in Nat
        BY <2>1 DEF CheckInv, TypeOK
      <3>2. PairMask(idx + 1) = {a, b}
        BY DEF PairMask
      <3>3. \A i \in 1 .. idx : i \in 1 .. Len(pairs) /\ i # idx + 1
                /\ idx + 1 \in 1 .. Len(pairs)
        BY <2>1, <3>1
      <3>4. \A i \in 1 .. idx : PairMask(i) \cap PairMask(idx + 1) = {}
        BY <3>1, <3>3 DEF PairsChecked
      <3> QED
        BY <3>2, <3>4 DEF PairMask
    <2>5. \A i \in 1 .. idx : pairs[i][1] \in Ports /\ pairs[i][2] \in Ports
      BY <2>1 DEF TypeOK
    <2>6. PairsEntered(idx)
      BY <2>1 DEF PopulateInv
    <2>7. \A i \in 1 .. idx : dst'[pairs[i][1]] = pairs[i][2]
                               /\ dst'[pairs[i][2]] = pairs[i][1]
      <3> HIDE DEF a, b
      <3> QED
        BY <2>3, <2>4, <2>5, <2>6 DEF PairsEntered
    <2>8. 1 .. (idx + 1) = (1 .. idx) \cup {idx + 1}
      BY DEF TypeOK
    <2>9. PairsEntered(idx)'
      BY <2>1, <2>3, <2>7, <2>8 DEF PairsEntered
    <2> QED
      BY <2>1, <2>9 DEF PopulateInv, TypeOK
  <1>5. CASE SkipPort
    <2>1. CASE pc = "alternate"
      <3>1. UNCHANGED <<pc, dst, last_port, nb_ports_in_mask, enabled, dev>>
               /\ portid' = portid + 1 /\ portid \notin Used
        BY <1>5 DEF SkipPort, opts, env, fwd
      <3>2. Used' = Used
        BY <3>1 DEF Used
      <3>3. Paired' = Paired
        <4>1. \A p \in Used : p < portid + 1 <=> p < portid
          BY <3>1 DEF TypeOK, Used, Ports
        <4> QED
          BY <3>1, <3>2, <4>1 DEF Paired
      <3> QED
        BY <2>1, <3>1, <3>2, <3>3 DEF PopulateInv, TypeOK, Ports
    <2>2. CASE pc # "alternate"
      BY <1>5, <2>2 DEF SkipPort, PopulateInv
    <2> QED
      BY <2>1, <2>2
  <1>6. CASE AlternatePort
    <2>1. /\ pc = "alternate" /\ pc' = pc /\ portid \in Used
          /\ portid' = portid + 1 /\ nb_ports_in_mask' = nb_ports_in_mask + 1
          /\ UNCHANGED <<enabled, dev>>
      BY <1>6 DEF AlternatePort, opts, env
    <2>2. Used' = Used
      BY <2>1 DEF Used
    <2>3. Used \subseteq Ports /\ nb_ports_in_mask \in Nat /\ Ports \subseteq Nat
      BY DEF Used, TypeOK, Ports
    <2>4. CASE nb_ports_in_mask % 2 = 1
      <3>1. nb_ports_in_mask' % 2 = 0 /\ last_port' = last_port
              /\ dst' = [[dst EXCEPT ![portid] = last_port]
                                EXCEPT ![last_port] = portid]
        BY <1>6, <2>1, <2>3, <2>4, Parity DEF AlternatePort
      <3>2. last_port \in Used /\ last_port < portid
        BY <2>1, <2>4 DEF PopulateInv
      <3>3. Paired' = Paired \cup {last_port, portid}
        <4>1. Paired' = {p \in Used : p < portid + 1}
          BY <2>1, <2>2, <2>3, <3>1 DEF Paired
        <4>2. \A p \in Used : p < portid + 1 <=> p < portid \/ p = portid
          BY <2>1, <2>3
        <4>3. Paired = {p \in Used : p < portid /\ p # last_port}
          BY <2>4 DEF Paired
        <4> QED
          BY <2>1, <3>2, <4>1, <4>2, <4>3
      <3>4. last_port \notin Paired /\ portid \notin Paired
        BY <2>3, <2>1, <2>4 DEF Paired
      <3>5. \A p \in Paired : dst'[p] = dst[p]
        BY <2>3, <3>1, <3>4 DEF Paired, TypeOK
      <3>6. dst'[last_port] = portid /\ dst'[portid] = last_port
        BY <2>1, <2>3, <3>1, <3>2 DEF TypeOK
      <3>7. \A p \in Paired : dst[p] \in Paired /\ dst[dst[p]] = p
        BY <2>1 DEF PopulateInv
      <3>8. \A p \in Paired' : dst'[p] \in Paired' /\ dst'[dst'[p]] = p
        BY <3>3, <3>5, <3>6, <3>7
      <3>9. pc' = "alternate" /\ nb_ports_in_mask' % 2 # 1
        BY <2>1, <3>1
      <3> QED
        BY <3>8, <3>9 DEF PopulateInv
    <2>5. CASE nb_ports_in_mask % 2 = 0
      <3>1. nb_ports_in_mask' % 2 = 1 /\ last_port' = portid /\ dst' = dst
        BY <1>6, <2>1, <2>3, <2>5, Parity DEF AlternatePort
      <3>2. Paired' = Paired
        <4>1. Paired' = {p \in Used : p < portid + 1 /\ p # portid}
          BY <2>1, <2>2, <2>3, <3>1 DEF Paired
        <4>2. \A p \in Used : p < portid + 1 /\ p # portid <=> p < portid
          BY <2>1, <2>3
        <4>3. Paired = {p \in Used : p < portid}
          BY <2>5 DEF Paired
        <4> QED
          BY <4>1, <4>2, <4>3
      <3> QED
        BY <2>1, <2>2, <2>3, <3>1, <3>2 DEF PopulateInv
    <2> QED
      BY <2>3, <2>4, <2>5, Parity
  <1>7. CASE \/ PairPortsDone \/ AlternateDone \/ NextLcore \/ AssignPort
             \/ CreatePool \/ InitPort \/ InitDone
    BY <1>7 DEF PairPortsDone, AlternateDone, NextLcore, AssignPort,
       CreatePool, InitPort, InitDone, Exit, PopulateInv
  <1>8. CASE UNCHANGED vars
    BY <1>8 DEF vars, env, opts, check, fwd, PopulateInv, PairsEntered, Paired,
       Used
  <1> QED
    BY <1>1, <1>2, <1>3, <1>4, <1>5, <1>6, <1>7, <1>8 DEF Next, Configure

\* When a pairing loop ends, l2fwd_dst_ports pairs the ports in use, and the
\* loops after it leave it alone.
LEMMA DstStep ==
    TypeOK /\ CheckInv /\ PopulateInv /\ DstInvolution /\ [Next]_vars
        => DstInvolution'
  <1> SUFFICES ASSUME TypeOK, CheckInv, PopulateInv, DstInvolution, [Next]_vars
               PROVE  DstInvolution'
    OBVIOUS
  <1>1. CASE Parse
    BY <1>1 DEF Parse, OptPortmask, OptPromiscuous, OptNqueue, OptTimerPeriod,
       OptPortmap, OptNoMacUpdating, OptUnknown, ParseOption, Exit,
       DstInvolution
  <1>2. CASE \/ ParseDone \/ CheckPortPair \/ CheckPortPairDone
             \/ CheckPortmask \/ PairPorts \/ AlternatePort
    BY <1>2 DEF ParseDone, ParseOption, CheckPortPair, CheckPortPairDone,
       CheckPortmask, PairPorts, AlternatePort, Exit, DstInvolution
  <1>3. CASE PairPortsDone
    <2>1. /\ PairsChecked(Len(pairs)) /\ enabled = config_mask
          /\ PairsEntered(Len(pairs))
          /\ UNCHANGED <<dev, enabled, dst>>
      BY <1>3 DEF PairPortsDone, CheckInv, PopulateInv, env, opts, fwd
    <2>2. Used = config_mask /\ Used' = Used
      BY <2>1 DEF PairsChecked, Used
    <2>3. ASSUME NEW p \in Used PROVE dst[p] \in Used /\ dst[dst[p]] = p
      <3>1. PICK i \in 1 .. Len(pairs) : p \in PairMask(i)
        BY <2>1, <2>2 DEF PairsChecked
      <3>2. PairMask(i) \subseteq Used
        BY <2>1, <2>2 DEF PairsChecked
      <3> QED
        BY <2>1, <3>1, <3>2 DEF PairsEntered, PairMask
    <2> QED
      BY <2>1, <2>2, <2>3 DEF DstInvolution
  <1>4. CASE AlternateDone
    <2>1. /\ pc = "alternate" /\ portid = MaxEthPorts
          /\ dst' = IF nb_ports_in_mask % 2 = 1
                    THEN [dst EXCEPT ![last_port] = last_port] ELSE dst
          /\ UNCHANGED <<dev, enabled>>
      BY <1>4 DEF AlternateDone, OddPortOut, env, opts
    <2>2. Used' = Used /\ \A p \in Used : p \in Ports /\ p < portid
      BY <2>1 DEF Used, TypeOK, Ports
    <2>3. \A p \in Paired : dst[p] \in Paired /\ dst[dst[p]] = p
      BY <2>1 DEF PopulateInv
    <2>4. CASE nb_ports_in_mask % 2 = 1
      <3>1. last_port \in Used /\ Used = Paired \cup {last_port}
               /\ last_port \notin Paired
        BY <2>1, <2>2, <2>4 DEF PopulateInv, Paired
      <3>2. dst'[last_port] = last_port /\ \A p \in Paired : dst'[p] = dst[p]
        BY <2>1, <2>2, <2>4, <3>1 DEF TypeOK
      <3> QED
        BY <2>2, <2>3, <3>1, <3>2 DEF DstInvolution
    <2>5. CASE nb_ports_in_mask % 2 # 1
      <3>1. Used = Paired /\ dst' = dst
        BY <2>1, <2>2, <2>5 DEF Paired
      <3> QED
        BY <2>2, <2>3, <3>1 DEF DstInvolution
    <2> QED
      BY <2>4, <2>5
  <1>5. CASE \/ SkipPort \/ NextLcore \/ AssignPort \/ CreatePool \/ InitPort
             \/ InitDone \/ UNCHANGED vars
    <2>1. /\ UNCHANGED <<dev, enabled, dst>>
          /\ pc' \in {"assign", "init", "launch"} =>
                pc \in {"assign", "init", "launch"}
      BY <1>5 DEF SkipPort, NextLcore, AssignPort, CreatePool, InitPort,
         InitDone, Exit, vars, env, opts, fwd
    <2> QED
      BY <2>1 DEF DstInvolution, Used
  <1> QED
    BY <1>1, <1>2, <1>3, <1>4, <1>5 DEF Next, Configure

-----------------------------------------------------------------------------
(* The lists of polled ports.                                              *)

\* What one assignment does to the lists: the old entries stay where they
\* were, and the current port is the last entry of the current lcore.
LEMMA AssignPortEffect ==
    ASSUME TypeOK, AssignInv, AssignPort
    PROVE  LET c == rx_lcore_id
               L == Len(rx_port_list[c])
           IN  /\ c \in lcores /\ c \in Lcores /\ L \in Nat
               /\ L + 1 <= nqueue
               /\ Len(rx_port_list'[c]) = L + 1
               /\ rx_port_list'[c][L + 1] = portid
               /\ \A i \in 1 .. L : rx_port_list'[c][i] = rx_port_list[c][i]
               /\ \A l \in Lcores : l # c => rx_port_list'[l] = rx_port_list[l]
  <1> DEFINE c == rx_lcore_id
             L == Len(rx_port_list[c])
  <1>1. c \in lcores /\ c \in Lcores /\ portid \in Ports /\ L # nqueue
          /\ rx_port_list' = [rx_port_list EXCEPT ![c] =
                                   Append(rx_port_list[c], portid)]
    BY DEF AssignPort, AddPort, AssignInv, TypeOK, Used, LcoreFull
  <1>2. rx_port_list[c] \in Seq(Ports) /\ L \in Nat /\ L <= nqueue
    BY <1>1 DEF TypeOK, AssignInv
  <1>3. rx_port_list'[c] = Append(rx_port_list[c], portid)
          /\ \A l \in Lcores : l # c => rx_port_list'[l] = rx_port_list[l]
    BY <1>1 DEF TypeOK
  <1>4. /\ Len(rx_port_list'[c]) = L + 1
        /\ rx_port_list'[c][L + 1] = portid
        /\ \A i \in 1 .. L : rx_port_list'[c][i] = rx_port_list[c][i]
    BY <1>1, <1>2, <1>3, AppendFacts
  <1>5. L + 1 <= nqueue
    BY <1>1, <1>2 DEF TypeOK
  <1> QED
    BY <1>1, <1>2, <1>3, <1>4, <1>5

\* The assignment loop gives the ports below its cursor to enabled lcores, each
\* once, and never more than nqueue to one.
LEMMA AssignStep ==
    TypeOK /\ PopulateInv /\ AssignInv /\ [Next]_vars => AssignInv'
  <1> SUFFICES ASSUME TypeOK, PopulateInv, AssignInv, [Next]_vars
               PROVE  AssignInv'
    OBVIOUS
  <1>1. CASE Parse
    <2>1. /\ pc = "parse" /\ pc' \in {"parse", "exit"}
          /\ UNCHANGED <<rx_lcore_id, rx_port_list>>
          /\ nqueue' \in Nat /\ nqueue' <= MaxRxQueue
      BY <1>1, SizesAssumption, ArgsAssumption DEF Parse, OptPortmask,
         OptPromiscuous, OptNqueue, OptTimerPeriod, OptPortmap,
         OptNoMacUpdating, OptUnknown, ParseOption, ParseNqueue, Exit,
         AssignInv, TypeOK, qs, opts
    <2>2. \A l \in Lcores : Len(rx_port_list[l]) = 0
      BY <2>1 DEF AssignInv
    <2> QED
      BY <2>1, <2>2 DEF AssignInv
  <1>2. CASE \/ ParseDone \/ CheckPortPair \/ CheckPortPairDone
             \/ CheckPortmask \/ PairPorts \/ AlternatePort
    BY <1>2 DEF ParseDone, ParseOption, CheckPortPair, CheckPortPairDone,
       CheckPortmask, PairPorts, AlternatePort, Exit, AssignInv, qs, opts
  <1>3. CASE PairPortsDone \/ AlternateDone
    <2>1. /\ pc \in {"portmap", "alternate"} /\ pc' = "assign" /\ portid' = 0
          /\ UNCHANGED <<rx_lcore_id, rx_port_list, nqueue, dev, enabled>>
      BY <1>3 DEF PairPortsDone, AlternateDone, PopulateInv, qs, opts, env
    <2>2. \A l \in Lcores : Len(rx_port_list'[l]) = 0
      BY <2>1 DEF AssignInv
    <2>3. \A p \in Used' : ~ (p < 0)
      BY <2>1 DEF Used, TypeOK, Ports
    <2>4. rx_lcore_id' \in Lcores
      BY <2>1, Zero DEF AssignInv
    <2> QED
      BY <2>1, <2>2, <2>3, <2>4 DEF AssignInv
  <1>4. CASE SkipPort
    <2>1. CASE pc = "assign"
      <3>1. /\ pc' = pc /\ portid' = portid + 1 /\ portid \notin Used
            /\ UNCHANGED <<rx_lcore_id, rx_port_list, nqueue, lcores>>
            /\ Used' = Used
        BY <1>4 DEF SkipPort, qs, opts, env, Used
      <3>2. \A p \in Used : p < portid + 1 <=> p < portid
        BY <3>1 DEF TypeOK, Used, Ports
      <3>3. \A l \in Lcores : \A i \in 1 .. Len(rx_port_list[l]) :
               rx_port_list[l][i] \in Used /\ rx_port_list[l][i] < portid
        BY <2>1 DEF AssignInv
      <3>4. \A l \in Lcores : \A i \in 1 .. Len(rx_port_list[l]) :
               rx_port_list[l][i] < portid + 1
        BY <3>2, <3>3
      <3> QED
        BY <2>1, <3>1, <3>2, <3>4 DEF AssignInv
    <2>2. CASE pc # "assign"
      BY <1>4, <2>2 DEF SkipPort, AssignInv, qs, opts, env, Used
    <2> QED
      BY <2>1, <2>2
  <1>5. CASE NextLcore
    <2>1. /\ pc = "assign" /\ pc' \in {"assign", "exit"}
          /\ pc' = "assign" => rx_lcore_id' = rx_lcore_id + 1
                              /\ rx_lcore_id + 1 < MaxLcore
          /\ UNCHANGED <<portid, rx_port_list, nqueue, lcores>>
          /\ Used' = Used
      BY <1>5, SizesAssumption DEF NextLcore, SucceedingLcore, NoLcoreLeft, opts, env, Used, TypeOK
    <2>2. pc' = "assign" => rx_lcore_id' \in Lcores
      BY <2>1, SizesAssumption DEF TypeOK, Lcores
    <2> QED
      BY <2>1, <2>2 DEF AssignInv
  <1>6. CASE AssignPort
    <2> DEFINE c == rx_lcore_id
               L == Len(rx_port_list[c])
    <2>1. /\ c \in lcores /\ c \in Lcores /\ L \in Nat
          /\ L + 1 <= nqueue
          /\ Len(rx_port_list'[c]) = L + 1
          /\ rx_port_list'[c][L + 1] = portid
          /\ \A i \in 1 .. L : rx_port_list'[c][i] = rx_port_list[c][i]
          /\ \A l \in Lcores : l # c => rx_port_list'[l] = rx_port_list[l]
      BY <1>6, AssignPortEffect
    <2>2. /\ pc = "assign" /\ pc' = pc /\ portid \in Used
          /\ portid' = portid + 1
          /\ UNCHANGED <<rx_lcore_id, nqueue, lcores>> /\ Used' = Used
      BY <1>6 DEF AssignPort, opts, env, Used
    <2>3. Used \subseteq Nat /\ portid \in Nat
      BY <2>2 DEF Used, TypeOK, Ports
    <2> HIDE DEF c, L
    <2>4. 1 .. (L + 1) = (1 .. L) \cup {L + 1} /\ L + 1 \notin 1 .. L
      BY <2>1
    <2>5. \A l \in Lcores : \A i \in 1 .. Len(rx_port_list'[l]) :
             \/ /\ i \in 1 .. Len(rx_port_list[l])
                /\ rx_port_list'[l][i] = rx_port_list[l][i]
             \/ l = c /\ i = L + 1 /\ rx_port_list'[l][i] = portid
      BY <2>1, <2>4 DEF L
    <2>6. \A l \in Lcores : \A i \in 1 .. Len(rx_port_list[l]) :
             /\ i \in 1 .. Len(rx_port_list'[l])
             /\ rx_port_list'[l][i] = rx_port_list[l][i]
      BY <2>1, <2>4 DEF L
    <2>7. \A l \in Lcores : \A i \in 1 .. Len(rx_port_list[l]) :
             rx_port_list[l][i] \in Used /\ rx_port_list[l][i] < portid
      BY <2>2 DEF AssignInv
    <2>8. \A l \in Lcores : \A i \in 1 .. Len(rx_port_list'[l]) :
             rx_port_list'[l][i] \in Used' /\ rx_port_list'[l][i] < portid'
      <3>1. portid < portid + 1 /\ \A p \in Used : p < portid => p < portid + 1
        BY <2>3
      <3> QED
        BY <2>2, <2>5, <2>7, <3>1
    <2>9. \A l, k \in Lcores :
             \A i \in 1 .. Len(rx_port_list'[l]),
                j \in 1 .. Len(rx_port_list'[k]) :
                rx_port_list'[l][i] = rx_port_list'[k][j] => l = k /\ i = j
      <3>1. \A l, k \in Lcores :
               \A i \in 1 .. Len(rx_port_list[l]), j \in 1 .. Len(rx_port_list[k]) :
                  rx_port_list[l][i] = rx_port_list[k][j] => l = k /\ i = j
        BY <2>2 DEF AssignInv
      <3>2. \A l \in Lcores : \A i \in 1 .. Len(rx_port_list[l]) :
               rx_port_list[l][i] # portid
        BY <2>3, <2>7
      <3> QED
        BY <2>5, <3>1, <3>2
    <2>10. ASSUME NEW p \in Used', p < portid'
           PROVE  \E l \in lcores' : \E i \in 1 .. Len(rx_port_list'[l]) :
                      rx_port_list'[l][i] = p
      <3>1. CASE p = portid
        BY <2>1, <2>2, <2>4, <3>1
      <3>2. CASE p # portid
        <4>1. p \in Used /\ p < portid
          BY <2>2, <2>3, <2>10, <3>2
        <4>2. PICK l \in lcores : \E i \in 1 .. Len(rx_port_list[l]) :
                      rx_port_list[l][i] = p
          BY <2>2, <4>1 DEF AssignInv
        <4>3. l \in Lcores
          BY DEF TypeOK
        <4> QED
          BY <2>2, <2>6, <4>2, <4>3
      <3> QED
        BY <3>1, <3>2
    <2>11. \A l \in Lcores : Len(rx_port_list'[l]) <= nqueue'
      BY <2>1, <2>2 DEF AssignInv
    <2>12. rx_lcore_id' \in Lcores /\ nqueue' <= MaxRxQueue
      BY <2>2 DEF AssignInv
    <2> QED
      BY <2>2, <2>8, <2>9, <2>10, <2>11, <2>12 DEF AssignInv
  <1>7. CASE CreatePool \/ InitPort \/ InitDone
    BY <1>7 DEF CreatePool, InitPort, InitDone, Exit, AssignInv, qs, opts, env,
       Used
  <1>8. CASE UNCHANGED vars
    BY <1>8 DEF vars, env, opts, qs, AssignInv, Used
  <1> QED
    BY <1>1, <1>2, <1>3, <1>4, <1>5, <1>6, <1>7, <1>8 DEF Next, Configure

\* When the assignment loop ends, every port in use is polled exactly once.
LEMMA PolledStep ==
    TypeOK /\ AssignInv /\ EachPortPolledOnce /\ [Next]_vars
        => EachPortPolledOnce'
  <1> SUFFICES ASSUME TypeOK, AssignInv, EachPortPolledOnce, [Next]_vars
               PROVE  EachPortPolledOnce'
    OBVIOUS
  <1>1. CASE Parse
    BY <1>1 DEF Parse, OptPortmask, OptPromiscuous, OptNqueue, OptTimerPeriod,
       OptPortmap, OptNoMacUpdating, OptUnknown, ParseOption, Exit,
       EachPortPolledOnce
  <1>2. CASE \/ ParseDone \/ CheckPortPair \/ CheckPortPairDone
             \/ CheckPortmask \/ PairPorts \/ PairPortsDone \/ AlternatePort
             \/ AlternateDone \/ NextLcore \/ AssignPort
    BY <1>2 DEF ParseDone, ParseOption, CheckPortPair, CheckPortPairDone,
       CheckPortmask, PairPorts, PairPortsDone, AlternatePort, AlternateDone,
       NextLcore, AssignPort, Exit, EachPortPolledOnce
  <1>3. CASE CreatePool
    <2>1. /\ pc = "assign" /\ portid = MaxEthPorts
          /\ UNCHANGED <<rx_port_list, lcores>> /\ Used' = Used
      BY <1>3 DEF CreatePool, qs, env, opts, Used
    <2>2. \A p \in Used : p < portid
      BY <2>1 DEF Used, TypeOK, Ports
    <2> QED
      BY <2>1, <2>2 DEF AssignInv, EachPortPolledOnce
  <1>4. CASE SkipPort \/ InitPort \/ InitDone \/ UNCHANGED vars
    <2>1. /\ UNCHANGED <<rx_port_list, lcores>> /\ Used' = Used
          /\ pc' \in {"init", "launch"} => pc \in {"init", "launch"}
      BY <1>4 DEF SkipPort, InitPort, InitDone, Exit, vars, qs, env, opts, Used
    <2> QED
      BY <2>1 DEF EachPortPolledOnce
  <1> QED
    BY <1>1, <1>2, <1>3, <1>4 DEF Next, Configure

-----------------------------------------------------------------------------
(* The number of polling lcores, and the pool.                             *)

\* The polling lcores are finitely many.
LEMMA PollersFinite == IsFiniteSet(Pollers) /\ IsFiniteSet(Pollers')
  <1>1. IsFiniteSet(Lcores)
    BY SizesAssumption, FS_Interval DEF Lcores
  <1> QED
    BY <1>1, FS_Subset DEF Pollers

\* nb_lcores counts the polling lcores while the ports are assigned: a port
\* given to a lcore that qconf does not name makes one more of them.
LEMMA CountStep == TypeOK /\ AssignInv /\ CountInv /\ [Next]_vars => CountInv'
  <1> SUFFICES ASSUME TypeOK, AssignInv, CountInv, [Next]_vars
               PROVE  CountInv'
    OBVIOUS
  <1>1. CASE Parse
    BY <1>1 DEF Parse, OptPortmask, OptPromiscuous, OptNqueue, OptTimerPeriod,
       OptPortmap, OptNoMacUpdating, OptUnknown, ParseOption, Exit, CountInv, qs
  <1>2. CASE \/ ParseDone \/ CheckPortPair \/ CheckPortPairDone
             \/ CheckPortmask \/ PairPorts \/ AlternatePort
    BY <1>2 DEF ParseDone, ParseOption, CheckPortPair, CheckPortPairDone,
       CheckPortmask, PairPorts, AlternatePort, Exit, CountInv, qs
  <1>3. CASE PairPortsDone \/ AlternateDone
    <2>1. /\ pc \in {"portmap", "alternate"} /\ pc' = "assign"
          /\ UNCHANGED <<rx_lcore_id, qconf, nb_lcores, rx_port_list>>
      BY <1>3 DEF PairPortsDone, AlternateDone, qs
    <2>2. Pollers' = {}
      BY <2>1 DEF AssignInv, Pollers
    <2>3. rx_lcore_id' = 0 /\ qconf' = MaxLcore /\ nb_lcores' = 0
      BY <2>1 DEF AssignInv, CountInv
    <2>4. Cardinality(Pollers') = 0
      BY <2>2, FS_EmptySet
    <2> QED
      BY <2>1, <2>2, <2>3, <2>4, SizesAssumption DEF CountInv
  <1>4. CASE SkipPort \/ UNCHANGED vars
    BY <1>4 DEF SkipPort, vars, qs, CountInv, Pollers
  <1>5. CASE NextLcore
    <2>1. CASE pc' = "assign"
      <3>1. /\ pc = "assign" /\ rx_lcore_id' = rx_lcore_id + 1
            /\ rx_lcore_id + 1 < MaxLcore
            /\ UNCHANGED <<qconf, nb_lcores>> /\ Pollers' = Pollers
        BY <1>5, <2>1, SizesAssumption
           DEF NextLcore, SucceedingLcore, NoLcoreLeft, TypeOK, Pollers
      <3>2. \A l \in Pollers : l <= rx_lcore_id /\ l \in Nat
        BY <3>1 DEF CountInv, Pollers, Lcores
      <3>3. rx_lcore_id \in Nat /\ qconf \in Nat /\ MaxLcore \in Nat
        BY SizesAssumption DEF TypeOK
      <3>4. rx_lcore_id + 1 \notin Pollers /\ qconf # rx_lcore_id + 1
        BY <3>1, <3>2, <3>3 DEF CountInv
      <3>5. /\ \A l \in Pollers : l <= rx_lcore_id + 1
            /\ qconf <= rx_lcore_id + 1 \/ qconf = MaxLcore
        BY <3>1, <3>2, <3>3 DEF CountInv
      <3> QED
        BY <2>1, <3>1, <3>4, <3>5 DEF CountInv
    <2>2. CASE pc' = "exit"
      BY <2>2 DEF CountInv
    <2> QED
      BY <1>5, <2>1, <2>2 DEF NextLcore, CountInv
  <1>6. CASE AssignPort
    <2> DEFINE c == rx_lcore_id
    <2>1. /\ pc = "assign" /\ pc' = pc
          /\ UNCHANGED rx_lcore_id
          /\ nb_lcores' = CountLcore /\ qconf' = c
      BY <1>6 DEF AssignPort
    <2>2. /\ c \in Lcores /\ c \in Nat
          /\ Len(rx_port_list[c]) \in Nat
          /\ Len(rx_port_list'[c]) = Len(rx_port_list[c]) + 1
          /\ \A l \in Lcores : l # c => rx_port_list'[l] = rx_port_list[l]
      BY <1>6, AssignPortEffect DEF Lcores
    <2>3. rx_port_list'[c] # <<>>
      BY <2>2
    <2>4. Pollers' = Pollers \cup {c}
      BY <2>2, <2>3 DEF Pollers
    <2>5. nb_lcores' = Cardinality(Pollers')
      <3>1. CASE c \in Pollers
        BY <2>1, <2>4, <3>1 DEF CountInv, CountLcore
      <3>2. CASE c \notin Pollers
        BY <2>1, <2>4, <3>2, PollersFinite, FS_AddElement DEF CountInv, CountLcore
      <3> QED
        BY <3>1, <3>2
    <2>6. \A l \in Pollers' : l <= c
      BY <2>1, <2>2, <2>4 DEF CountInv
    <2>7. c \in Pollers' /\ c <= c
      BY <2>2, <2>4
    <2> QED
      BY <2>1, <2>5, <2>6, <2>7 DEF CountInv
  <1>7. CASE CreatePool \/ InitPort \/ InitDone
    BY <1>7 DEF CreatePool, InitPort, InitDone, Exit, CountInv
  <1> QED
    BY <1>1, <1>2, <1>3, <1>4, <1>5, <1>6, <1>7 DEF Next, Configure

\* The pool is created with the final count and its size stays.
LEMMA PoolStep ==
    TypeOK /\ CountInv /\ PoolCoversCaches /\ [Next]_vars => PoolCoversCaches'
  <1> SUFFICES ASSUME TypeOK, CountInv, PoolCoversCaches, [Next]_vars,
                      pc' \in {"init", "launch"}
               PROVE  nb_mbufs' >= Cardinality(dev')
                          * (PortMbufs + Cardinality(Pollers') * CacheSize)
    BY DEF PoolCoversCaches
  <1>1. CASE CreatePool
    <2>1. /\ pc = "assign" /\ nb_mbufs' = PoolSize /\ dev' = dev
          /\ Pollers' = Pollers
      BY <1>1 DEF CreatePool, Exit, env, qs, Pollers
    <2>2. PoolSize >= Cardinality(dev) * (PortMbufs + nb_lcores * CacheSize)
      <3> DEFINE n == Cardinality(dev) * (PortMbufs + nb_lcores * CacheSize)
      <3>1. Cardinality(dev) \in Nat /\ nb_lcores * CacheSize \in Nat
        BY DevCount, SizesAssumption DEF TypeOK
      <3>2. PortMbufs + nb_lcores * CacheSize \in Nat
        BY <3>1, SizesAssumption
      <3>3. n \in Nat
        BY <3>1, <3>2
      <3>4. PoolSize = IF n >= PoolMin THEN n ELSE PoolMin
        BY DEF PoolSize
      <3> HIDE DEF n
      <3>5. PoolSize >= n
        BY <3>3, <3>4, SizesAssumption
      <3> QED
        BY <3>5 DEF n
    <2> QED
      BY <2>1, <2>2 DEF CountInv
  <1>2. CASE SkipPort \/ InitPort \/ InitDone \/ UNCHANGED vars
    <2>1. /\ pc \in {"init", "launch"}
          /\ UNCHANGED <<nb_mbufs, dev>> /\ Pollers' = Pollers
      BY <1>2 DEF SkipPort, InitPort, InitDone, Exit, vars, env, qs, devs, Pollers
    <2> QED
      BY <2>1 DEF PoolCoversCaches
  <1>3. CASE Parse
    BY <1>3 DEF Parse, OptPortmask, OptPromiscuous, OptNqueue, OptTimerPeriod,
       OptPortmap, OptNoMacUpdating, OptUnknown, ParseOption, Exit
  <1>4. CASE \/ ParseDone \/ CheckPortPair \/ CheckPortPairDone
             \/ CheckPortmask \/ PairPorts \/ PairPortsDone \/ AlternatePort
             \/ AlternateDone \/ NextLcore \/ AssignPort
    BY <1>4 DEF ParseDone, ParseOption, CheckPortPair, CheckPortPairDone,
       CheckPortmask, PairPorts, PairPortsDone, AlternatePort, AlternateDone,
       NextLcore, AssignPort, Exit
  <1> QED
    BY <1>1, <1>2, <1>3, <1>4 DEF Next, Configure

\* The initialisation loop starts every port in use below its cursor.
LEMMA InitPortsStep == TypeOK /\ InitInv /\ [Next]_vars => InitInv'
  <1> SUFFICES ASSUME TypeOK, InitInv, [Next]_vars PROVE InitInv'
    OBVIOUS
  <1>1. CASE Parse
    BY <1>1 DEF Parse, OptPortmask, OptPromiscuous, OptNqueue, OptTimerPeriod,
       OptPortmap, OptNoMacUpdating, OptUnknown, ParseOption, Exit, InitInv
  <1>2. CASE \/ ParseDone \/ CheckPortPair \/ CheckPortPairDone
             \/ CheckPortmask \/ PairPorts \/ PairPortsDone \/ AlternatePort
             \/ AlternateDone \/ NextLcore \/ AssignPort
    BY <1>2 DEF ParseDone, ParseOption, CheckPortPair, CheckPortPairDone,
       CheckPortmask, PairPorts, PairPortsDone, AlternatePort, AlternateDone,
       NextLcore, AssignPort, Exit, InitInv
  <1>3. CASE CreatePool
    <2>1. \A p \in Used' : p \in Nat /\ ~ (p < 0)
      BY <1>3 DEF CreatePool, env, opts, Used, TypeOK, Ports
    <2> QED
      BY <1>3, <2>1 DEF CreatePool, Exit, InitInv
  <1>4. CASE SkipPort \/ InitPort
    <2>1. CASE pc' = "init"
      <3>1. /\ pc = "init" /\ portid' = portid + 1 /\ Used' = Used
            /\ started \subseteq started'
            /\ portid \in Used => portid \in started'
        BY <1>4, <2>1 DEF SkipPort, InitPort, Exit, env, opts, devs, Used
      <3>2. \A p \in Used : p < portid + 1 <=> p < portid \/ p = portid
        BY DEF Used, TypeOK, Ports
      <3> QED
        BY <2>1, <3>1, <3>2 DEF InitInv
    <2>2. CASE pc' # "init"
      BY <1>4, <2>2 DEF SkipPort, InitPort, Exit, InitInv
    <2> QED
      BY <2>1, <2>2
  <1>5. CASE InitDone
    <2>1. \A p \in Used : p < MaxEthPorts
      BY SizesAssumption DEF Used, TypeOK, Ports
    <2> QED
      BY <1>5, <2>1 DEF InitDone, InitInv, env, opts, devs, Used
  <1>6. CASE UNCHANGED vars
    BY <1>6 DEF vars, env, opts, devs, InitInv, Used
  <1> QED
    BY <1>1, <1>2, <1>3, <1>4, <1>5, <1>6 DEF Next, Configure

-----------------------------------------------------------------------------
(* The theorems.                                                           *)

\* Start-up never leaves the inductive invariant.
THEOREM Invariance == Spec => []IInv
  <1>1. Init => IInv
    BY InitIInv
  <1>2. IInv /\ [Next]_vars => IInv'
    BY TypeStep, CheckStep, PopulateStep, DstStep, AssignStep, PolledStep,
       CountStep, PoolStep, InitPortsStep DEF IInv
  <1> QED
    BY <1>1, <1>2, PTL DEF Spec

\* The variables of main() keep their types: among them, every destination
\* and every polled port is a valid index of the per-port arrays.
THEOREM TypeCorrect == Spec => []TypeOK
  <1>1. IInv => TypeOK
    BY DEF IInv
  <1> QED
    BY <1>1, Invariance, PTL

\* Whatever -p and --portmap ask for, l2fwd_dst_ports pairs the ports in use.
THEOREM ForwardingIsPairing == Spec => []DstInvolution
  <1>1. IInv => DstInvolution
    BY DEF IInv
  <1> QED
    BY <1>1, Invariance, PTL

\* Every port in use is polled by exactly one lcore, once.
THEOREM PolledOnce == Spec => []EachPortPolledOnce
  <1>1. IInv => EachPortPolledOnce
    BY DEF IInv
  <1> QED
    BY <1>1, Invariance, PTL

\* tx_buffer[] and port_statistics[].tx need no lock: two lcores never
\* transmit to the same port, because l2fwd_dst_ports is injective on the
\* ports in use and no two lcores poll the same one.
THEOREM SingleWriter == Spec => []TxBufferSingleWriter
  <1>1. IInv => TxBufferSingleWriter
    <2> SUFFICES ASSUME IInv, pc = "launch",
                        NEW l \in Lcores, NEW k \in Lcores,
                        NEW i \in 1 .. Len(rx_port_list[l]),
                        NEW j \in 1 .. Len(rx_port_list[k]),
                        dst[rx_port_list[l][i]] = dst[rx_port_list[k][j]]
                 PROVE  l = k
      BY DEF TxBufferSingleWriter
    <2>1. rx_port_list[l][i] \in Used /\ rx_port_list[k][j] \in Used
      BY DEF IInv, AssignInv
    <2>2. rx_port_list[l][i] = rx_port_list[k][j]
      BY <2>1 DEF IInv, DstInvolution
    <2> QED
      BY <2>2 DEF IInv, AssignInv
  <1> QED
    BY <1>1, Invariance, PTL

\* A lcore never polls, or transmits to, a port that was not initialised.
THEOREM OnlyStartedPorts == Spec => []TargetsStarted
  <1>1. IInv => TargetsStarted
    <2> SUFFICES ASSUME IInv, pc = "launch", NEW l \in Lcores,
                        NEW i \in 1 .. Len(rx_port_list[l])
                 PROVE  {rx_port_list[l][i], dst[rx_port_list[l][i]]}
                            \subseteq started
      BY DEF TargetsStarted
    <2>1. rx_port_list[l][i] \in Used
      BY DEF IInv, AssignInv
    <2>2. dst[rx_port_list[l][i]] \in Used
      BY <2>1 DEF IInv, DstInvolution
    <2> QED
      BY <2>1, <2>2 DEF IInv, InitInv
  <1> QED
    BY <1>1, Invariance, PTL

\* rx_port_list[] is never written past MAX_RX_QUEUE_PER_LCORE.
THEOREM NoListOverflow == Spec => []RxListFits
  <1>1. IInv => RxListFits
    BY SizesAssumption DEF IInv, TypeOK, AssignInv, RxListFits
  <1> QED
    BY <1>1, Invariance, PTL

\* The pool is large enough for the descriptors and bursts of every port and
\* the caches of every lcore that polls, for every machine and command line.
THEOREM PoolLargeEnough == Spec => []PoolCoversCaches
  <1>1. IInv => PoolCoversCaches
    BY DEF IInv
  <1> QED
    BY <1>1, Invariance, PTL
=============================================================================
