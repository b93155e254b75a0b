--------------------------- MODULE ScalingProofs ----------------------------
(***************************************************************************)
(* Proofs about what the consumer cluster scales by: the RPCs of a scaling *)
(* loop of the Cluster Autoscaler (CA) and the latency prober, for any     *)
(* number of chunks and reservations, any demand, any providers, callers   *)
(* and times.                                                              *)
(***************************************************************************)
EXTENDS CloudProvider, Prober, FiniteSetTheorems, TLAPS

-----------------------------------------------------------------------------
(* The scaling loop.  What CA plans to add, with what is reserved already, *)
(* never exceeds the demand: it reads the target size after the cache of   *)
(* the loop before has expired, and reservations are counted as they are   *)
(* made, whether or not their node has appeared.                           *)

Planned ==
    /\ demand <= peak
    /\ ca.pc = "size" => ~ cache.fresh
    /\ ca.pc = "nodes" => Cardinality(Held) <= ca.target
    /\ ca.pc = "grow" => ca.left >= 1 /\ Cardinality(Held) + ca.left <= peak

CloudInv == CloudTypeOK /\ Planned /\ NoOvershoot

Caches == [fresh: BOOLEAN, target: 0 .. MaxResv]

(* The reservations can be counted.                                        *)
LEMMA HeldCounts == IsFiniteSet(Held) /\ Cardinality(Held) \in 0 .. MaxResv
<1>1. IsFiniteSet(Resv) /\ Cardinality(Resv) = MaxResv
  BY FS_Interval, CloudAssumption DEF Resv
<1>2. Held \subseteq Resv BY DEF Held
<1> QED BY <1>1, <1>2, FS_Subset, FS_CardinalityType, CloudAssumption

(* A reservation more, or one less.                                        *)
LEMMA OneMore ==
    ASSUME NEW i \in Resv, resv[i] # "held", resv \in [Resv -> ResvStates],
           resv' = [resv EXCEPT ![i] = "held"]
    PROVE  Cardinality(Held)' = Cardinality(Held) + 1
<1>1. Held' = Held \cup {i} /\ i \notin Held BY DEF Held
<1> QED BY <1>1, HeldCounts, FS_AddElement

(* One that ends is not counted any more.                                  *)
LEMMA OneLess ==
    ASSUME NEW i \in Resv, resv \in [Resv -> ResvStates],
           resv' = [resv EXCEPT ![i] = "ended"]
    PROVE  /\ Cardinality(Held)' \in Nat
           /\ Cardinality(Held)' <= Cardinality(Held)
<1>1. Held' \subseteq Held BY DEF Held
<1> QED BY <1>1, HeldCounts, FS_Subset, FS_CardinalityType

(* Where the loop is between two scans.                                    *)
LEMMA WaitingType == Waiting \in CAStates /\ Waiting.pc = "wait"
BY CloudAssumption DEF Waiting, CAStates

(* The steps of the loop that reserve and release nothing.                 *)
LEMMA LoopKeeps ==
    ASSUME CloudInv, LoopStart \/ NodeGroupTargetSize \/ NodeGroupNodes
                     \/ ResolveNames \/ PostRefused
    PROVE  CloudInv'
<1>0. /\ UNCHANGED <<resv, knode, vns, demand, peak, rpcFaults>>
      /\ Cardinality(Held)' = Cardinality(Held)
      /\ Cardinality(Held) \in 0 .. MaxResv /\ Cardinality(Held) <= peak
  BY HeldCounts DEF LoopStart, NodeGroupTargetSize, NodeGroupNodes,
     ResolveNames, PostRefused, resvVars, Held, CloudInv, NoOvershoot
<1>1. /\ cache \in Caches /\ ca \in CAStates /\ demand \in 0 .. MaxDemand
      /\ peak \in 0 .. MaxDemand
  BY DEF CloudInv, CloudTypeOK, Caches
<1>2. ASSUME cache' \in Caches, ca' \in CAStates, Planned'
      PROVE  CloudInv'
  <2>1. CloudTypeOK' BY <1>0, <1>2 DEF CloudInv, CloudTypeOK, Caches
  <2>2. NoOvershoot' BY <1>0, <1>2 DEF NoOvershoot
  <2> QED BY <1>2, <2>1, <2>2 DEF CloudInv
<1>3. CASE LoopStart
  <2>1. ca' \in CAStates /\ ca'.pc = "size"
    BY <1>3, WaitingType DEF LoopStart, CAStates
  <2>2. cache' \in Caches /\ ~ cache'.fresh
    BY <1>3, CloudAssumption DEF LoopStart, StaleCache, Caches
  <2>3. Planned' BY <1>0, <2>1, <2>2 DEF CloudInv, Planned
  <2> QED BY <1>2, <2>1, <2>2, <2>3
<1>4. CASE NodeGroupTargetSize
  <2>1. /\ cachedNodeGroups \in Caches
        /\ cachedNodeGroups.target = Cardinality(Held)
    BY <1>0, <1>4 DEF NodeGroupTargetSize, cachedNodeGroups, CloudInv,
                      Planned, Caches
  <2>2. /\ cache' = cachedNodeGroups
        /\ ca' = [ca EXCEPT !.pc = "nodes", !.target = cachedNodeGroups.target]
    BY <1>4 DEF NodeGroupTargetSize
  <2>3. /\ ca' \in CAStates /\ ca'.pc = "nodes"
        /\ ca'.target = Cardinality(Held)
    BY <1>0, <1>1, <2>1, <2>2 DEF CAStates
  <2>4. Planned' BY <1>0, <2>3 DEF CloudInv, Planned
  <2> QED BY <1>2, <2>1, <2>2, <2>3, <2>4
<1>5. CASE NodeGroupNodes /\ demand > ca.target
  <2>1. /\ ca.pc = "nodes" /\ cache' = cache
        /\ ca' = [Waiting EXCEPT !.pc = "grow", !.left = demand - ca.target]
    BY <1>5 DEF NodeGroupNodes
  <2>2. ca.target \in 0 .. MaxResv BY <1>1 DEF CAStates
  <2>3. demand - ca.target \in 1 .. MaxDemand
    BY <1>1, <1>5, <2>2, CloudAssumption
  <2>4. /\ ca' \in CAStates /\ ca'.pc = "grow"
        /\ ca'.left = demand - ca.target
    <3> DEFINE n == demand - ca.target
    <3>1. /\ n \in 0 .. MaxDemand
          /\ ca' = [Waiting EXCEPT !.pc = "grow", !.left = n]
      BY <2>1, <2>3, CloudAssumption
    <3> HIDE DEF n
    <3>2. ca' \in CAStates /\ ca'.pc = "grow" /\ ca'.left = n
      BY <3>1, WaitingType DEF CAStates
    <3> QED BY <3>2 DEF n
  <2>5. Cardinality(Held) <= ca.target /\ demand <= peak
    BY <2>1 DEF CloudInv, Planned
  <2>6. Planned'
    BY <1>0, <1>1, <2>2, <2>3, <2>4, <2>5, CloudAssumption DEF Planned
  <2> QED BY <1>1, <1>2, <2>1, <2>4, <2>6
<1>6. CASE (NodeGroupNodes /\ ~ (demand > ca.target)) \/ ResolveNames
           \/ PostRefused
  <2>1. /\ cache' = cache
        /\ \/ ca' = Waiting
           \/ \E S \in SUBSET Resv :
                ca' = [Waiting EXCEPT !.pc = "names", !.nodes = S]
           \/ ca' = [ca EXCEPT !.pc = "shrink"]
    BY <1>6 DEF NodeGroupNodes, ResolveNames, PostRefused, Abort, Instances
  <2>2. ca' \in CAStates /\ ca'.pc \in {"wait", "names", "shrink"}
    BY <1>1, <2>1, WaitingType DEF CAStates
  <2>3. Planned' BY <1>0, <2>2 DEF CloudInv, Planned
  <2> QED BY <1>1, <1>2, <2>1, <2>2, <2>3
<1> QED BY <1>3, <1>4, <1>5, <1>6

(* A failed call is counted.                                               *)
LEMMA FailsCounts ==
    ASSUME CloudTypeOK, Fails
    PROVE  rpcFaults' \in 0 .. MaxFaults
BY FederationAssumption DEF CloudTypeOK, Fails

(* A chunk is reserved: what is left to add is one less.                   *)
LEMMA GrowKeeps ==
    ASSUME CloudInv, NodeGroupIncreaseSize
    PROVE  CloudInv'
<1>1. /\ UNCHANGED <<knode, vns, cache, demand, peak>> /\ ca.pc = "grow"
      /\ resv \in [Resv -> ResvStates] /\ ca \in CAStates
      /\ peak \in 0 .. MaxDemand /\ ca.left \in 0 .. MaxDemand
  BY DEF NodeGroupIncreaseSize, CloudInv, CloudTypeOK, CAStates
<1>2. PICK i \in Fresh : resv' = [resv EXCEPT ![i] = "held"]
  BY DEF NodeGroupIncreaseSize
<1>3. i \in Resv /\ resv[i] = "none"
  <2>1. i \in Resv /\ i >= i BY CloudAssumption DEF Fresh, Resv
  <2> QED BY <2>1 DEF Fresh
<1>4. resv' \in [Resv -> ResvStates] BY <1>1, <1>2, <1>3 DEF ResvStates
<1>5. Cardinality(Held)' = Cardinality(Held) + 1
  BY <1>1, <1>2, <1>3, OneMore
<1>6. /\ ca.left >= 1 /\ Cardinality(Held) + ca.left <= peak
      /\ demand <= peak
  BY <1>1 DEF CloudInv, Planned
<1>7. Cardinality(Held) \in Nat BY HeldCounts
<1>8. /\ ca' \in CAStates /\ ca'.pc \in {"wait", "grow"}
      /\ ca'.pc = "grow" => ca'.left = ca.left - 1 /\ ca.left # 1
  <2>1. \/ ca' = Waiting
        \/ ca' = [ca EXCEPT !.left = ca.left - 1] /\ ca.left # 1
    BY DEF NodeGroupIncreaseSize, Abort
  <2>2. CASE ca' = Waiting BY <2>2, WaitingType
  <2>3. CASE ca' = [ca EXCEPT !.left = ca.left - 1] /\ ca.left # 1
    <3> DEFINE n == ca.left - 1
    <3>1. n \in 0 .. MaxDemand BY <1>1, <1>6, CloudAssumption
    <3> HIDE DEF n
    <3>2. ca' \in CAStates /\ ca'.left = n /\ ca'.pc = "grow"
      BY <1>1, <2>3, <3>1 DEF CAStates, n
    <3> QED BY <2>3, <3>2 DEF n
  <2> QED BY <2>1, <2>2, <2>3
<1>9. rpcFaults' \in 0 .. MaxFaults
  BY FailsCounts DEF NodeGroupIncreaseSize, CloudInv, CloudTypeOK
<1>10. CloudTypeOK' BY <1>1, <1>4, <1>8, <1>9 DEF CloudInv, CloudTypeOK
<1>11. NoOvershoot'
  BY <1>1, <1>5, <1>6, <1>7, CloudAssumption DEF NoOvershoot
<1>12. Planned'
  <2>1. ca'.pc = "grow" =>
          ca'.left >= 1 /\ Cardinality(Held)' + ca'.left <= peak'
    BY <1>1, <1>5, <1>6, <1>7, <1>8, CloudAssumption
  <2> QED BY <1>1, <1>6, <1>8, <2>1 DEF Planned
<1> QED BY <1>10, <1>11, <1>12 DEF CloudInv

(* A reservation ends, by the loop's hand or the Broker's.                 *)
LEMMA EndKeeps ==
    ASSUME CloudInv, NEW i \in Resv, DeleteReservation(i) \/ ReservationEnds(i)
    PROVE  CloudInv'
<1>1. /\ UNCHANGED <<knode, vns, cache, demand, peak>>
      /\ resv' = [resv EXCEPT ![i] = "ended"]
      /\ ca \in CAStates /\ resv \in [Resv -> ResvStates]
      /\ peak \in 0 .. MaxDemand
  BY DEF DeleteReservation, ReservationEnds, CloudInv, CloudTypeOK
<1>2. resv' \in [Resv -> ResvStates] BY <1>1 DEF ResvStates
<1>3. Cardinality(Held)' \in Nat /\ Cardinality(Held)' <= Cardinality(Held)
  BY <1>1, OneLess
<1>4. Cardinality(Held) \in Nat BY HeldCounts
<1>5. ca' = ca \/ (ca' \in CAStates /\ ca'.pc \in {"wait", "shrink"})
  <2>1. CASE ReservationEnds(i) BY <2>1 DEF ReservationEnds
  <2>2. CASE DeleteReservation(i)
    <3>1. ca.pc = "shrink" /\ \/ ca' = Waiting
                              \/ ca' = [ca EXCEPT !.nodes = ca.nodes \ {i}]
      BY <2>2 DEF DeleteReservation, Abort
    <3>2. CASE ca' = Waiting BY <3>2, WaitingType
    <3>3. CASE ca' = [ca EXCEPT !.nodes = ca.nodes \ {i}]
      BY <1>1, <3>1, <3>3 DEF CAStates
    <3> QED BY <3>1, <3>2, <3>3
  <2> QED BY <2>1, <2>2
<1>6. rpcFaults' \in 0 .. MaxFaults
  BY FailsCounts DEF DeleteReservation, ReservationEnds, CloudInv, CloudTypeOK
<1>7. CloudTypeOK' BY <1>1, <1>2, <1>5, <1>6 DEF CloudInv, CloudTypeOK
<1>8. NoOvershoot'
  BY <1>1, <1>3, <1>4, CloudAssumption DEF CloudInv, NoOvershoot
<1>9. Planned'
  <2>1. CASE ca'.pc \in {"wait", "shrink"}
    BY <1>1, <2>1 DEF CloudInv, Planned
  <2>2. CASE ca' = ca
    <3>1. ca.target \in Nat /\ ca.left \in Nat
      BY <1>1, CloudAssumption DEF CAStates
    <3>2. ca.pc = "nodes" => Cardinality(Held)' <= ca.target
      BY <1>3, <1>4, <3>1 DEF CloudInv, Planned
    <3>3. ca.pc = "grow" =>
            ca.left >= 1 /\ Cardinality(Held)' + ca.left <= peak
      BY <1>1, <1>3, <1>4, <3>1, CloudAssumption DEF CloudInv, Planned
    <3> QED BY <1>1, <2>2, <3>2, <3>3 DEF CloudInv, Planned
  <2> QED BY <1>5, <2>1, <2>2
<1> QED BY <1>7, <1>8, <1>9 DEF CloudInv

(* The cache runs out, a call fails, the demand changes.                   *)
LEMMA LoopAroundKeeps ==
    ASSUME CloudInv, CacheExpires \/ CallFails \/ Pods
    PROVE  CloudInv'
<1>1. /\ UNCHANGED <<resv, knode, vns>>
      /\ Held' = Held /\ Cardinality(Held) \in Nat
      /\ Cardinality(Held)' = Cardinality(Held)
  BY HeldCounts DEF CacheExpires, CallFails, Pods, resvVars, Held
<1>2. CASE CacheExpires
  <2>1. cache' \in Caches /\ ~ cache'.fresh
    BY <1>2, CloudAssumption DEF CacheExpires, StaleCache, Caches
  <2>2. UNCHANGED <<ca, demand, peak, rpcFaults>> BY <1>2 DEF CacheExpires
  <2>3. CloudTypeOK' BY <1>1, <2>1, <2>2 DEF CloudInv, CloudTypeOK, Caches
  <2> QED BY <1>1, <2>1, <2>2, <2>3 DEF CloudInv, Planned, NoOvershoot
<1>3. CASE CallFails
  <2>1. /\ UNCHANGED <<cache, demand, peak>> /\ rpcFaults' \in 0 .. MaxFaults
        /\ ca' \in CAStates /\ ca'.pc = "wait"
    BY <1>3, FailsCounts, WaitingType DEF CallFails, Abort, CloudInv
  <2>2. CloudTypeOK' BY <1>1, <2>1 DEF CloudInv, CloudTypeOK
  <2> QED BY <1>1, <2>1, <2>2 DEF CloudInv, Planned, NoOvershoot
<1>4. CASE Pods
  <2>1. /\ UNCHANGED <<cache, ca, rpcFaults>> /\ demand' \in 0 .. MaxDemand
        /\ ca.pc = "wait" /\ peak \in 0 .. MaxDemand
        /\ peak' = IF demand' > peak THEN demand' ELSE peak
    BY <1>4 DEF Pods, CloudInv, CloudTypeOK
  <2>2. /\ peak' \in 0 .. MaxDemand /\ peak <= peak' /\ demand' <= peak'
    BY <2>1, CloudAssumption
  <2>3. CloudTypeOK' BY <1>1, <2>1, <2>2 DEF CloudInv, CloudTypeOK
  <2>4. NoOvershoot'
    BY <1>1, <2>1, <2>2, CloudAssumption DEF CloudInv, NoOvershoot
  <2>5. Planned' BY <2>1, <2>2 DEF Planned
  <2> QED BY <2>3, <2>4, <2>5 DEF CloudInv
<1> QED BY <1>2, <1>3, <1>4

(* Nodes and their states come and go without a chunk changing hands.      *)
LEMMA NodesKeep ==
    ASSUME CloudInv, NEW i \in Resv,
           Peering(i) \/ Liqo(i) \/ VnsProjected(i) \/ NodeFlap(i)
    PROVE  CloudInv'
<1>1. UNCHANGED <<resv, cache, ca, demand, peak>>
  BY DEF Peering, Liqo, VnsProjected, NodeFlap, VnsCreated, VnsDeleted,
         NodeUp, NodeDown, NodeStep
<1>2. /\ knode \in [Resv -> KNodeStates] /\ vns \in [Resv -> VnsStates]
      /\ rpcFaults \in 0 .. MaxFaults
  BY DEF CloudInv, CloudTypeOK
<1>3. /\ \/ knode' = knode
         \/ \E s \in KNodeStates : knode' = [knode EXCEPT ![i] = s]
      /\ \/ vns' = vns
         \/ \E s \in VnsStates : vns' = [vns EXCEPT ![i] = s]
  <2>1. projectFromNode(i) \in VnsStates
    BY <1>2 DEF projectFromNode, KNodeStates, VnsStates
  <2> QED
    BY <2>1 DEF Peering, Liqo, VnsProjected, NodeFlap, VnsCreated, VnsDeleted,
                NodeUp, NodeDown, NodeStep, KNodeStates, VnsStates
<1>4. knode' \in [Resv -> KNodeStates] /\ vns' \in [Resv -> VnsStates]
  BY <1>2, <1>3
<1>5. rpcFaults' \in 0 .. MaxFaults
  BY <1>2, FailsCounts
  DEF CloudInv, Peering, Liqo, VnsProjected, NodeFlap, VnsCreated, VnsDeleted,
      NodeUp, NodeDown
<1>6. CloudTypeOK' BY <1>1, <1>4, <1>5 DEF CloudInv, CloudTypeOK
<1>7. Held' = Held BY <1>1 DEF Held
<1> QED BY <1>1, <1>6, <1>7 DEF CloudInv, Planned, NoOvershoot

(* The invariant holds at the start and is kept by every step.             *)
LEMMA CloudInvariant == CloudSpec => []CloudInv
<1>1. CloudInit => CloudInv
  <2> SUFFICES ASSUME CloudInit PROVE CloudInv
    OBVIOUS
  <2>1. CloudTypeOK
    <3>1. cache \in Caches
      BY CloudAssumption DEF CloudInit, StaleCache, Caches
    <3> QED
      BY <3>1, WaitingType, CloudAssumption, FederationAssumption
      DEF CloudInit, CloudTypeOK, ResvStates, KNodeStates, VnsStates, Caches
  <2>2. Held = {} BY DEF CloudInit, Held
  <2>3. Cardinality(Held) = 0 BY <2>2, FS_EmptySet
  <2> QED
    BY <2>1, <2>3, WaitingType DEF CloudInit, CloudInv, Planned, NoOvershoot
<1>2. ASSUME CloudInv, [CloudNext]_CloudVars
      PROVE  CloudInv'
  <2>1. CASE UNCHANGED CloudVars
    BY <1>2, <2>1
    DEF CloudVars, resvVars, CloudInv, CloudTypeOK, Planned, NoOvershoot, Held
  <2>2. CASE CALoop
    BY <1>2, <2>2, LoopKeeps, GrowKeeps, EndKeeps DEF CALoop
  <2> QED
    BY <1>2, <2>1, <2>2, LoopAroundKeeps, NodesKeep, EndKeeps DEF CloudNext
<1> QED BY <1>1, <1>2, PTL DEF CloudSpec

(* CA never ends up with more chunks than its pods ever called for,        *)
(* whatever fails, however long nodes take to appear and however many      *)
(* chunks there are (nodeGroupsCacheTTL, NodeGroupIncreaseSize).           *)
THEOREM NeverOvershoots == CloudSpec => []NoOvershoot
<1>1. CloudInv => NoOvershoot BY DEF CloudInv
<1> QED BY <1>1, CloudInvariant, PTL

-----------------------------------------------------------------------------
(* The prober.  A sample in the cache is at most as much older than its    *)
(* time in the cache as the round that stored it took; one that a round    *)
(* was served ages with the round, and no round outlasts MaxProbe.         *)

Rounds ==
    [pc: {"idle", "probe", "store"}, hit: [Providers -> Samples],
     probed: [Providers -> RTTs], toProbe: SUBSET Providers,
     taking: 0 .. MaxProbe, lag: 0 .. MaxProbe, gone: BOOLEAN]

(* A sample of the cache.                                                  *)
Young(s) == s = NoSample \/ (s.age < CacheTTL /\ s.old <= s.age + MaxProbe)

(* A round under way.                                                      *)
InTime(r) ==
    /\ r.lag <= r.taking
    /\ r.pc # "idle" =>
         \A p \in Providers \ r.toProbe :
            r.hit[p].old < CacheTTL + MaxProbe + r.taking

ProberInv ==
    /\ cacheOf \in [Providers -> Samples] /\ round \in [Callers -> Rounds]
    /\ \A p \in Providers : Young(cacheOf[p])
    /\ \A c \in Callers : InTime(round[c])
    /\ ChosenAnswered

(* What the cache has before a probe, and how old a sample gets.           *)
LEMMA NoSampleType ==
    /\ NoSample \in Samples /\ NoSample.age = CacheTTL
    /\ TooOld \in Nat /\ TooOld = CacheTTL + MaxProbe + MaxProbe
<1>1. TooOld \in Nat /\ TooOld = CacheTTL + MaxProbe + MaxProbe
  BY ProberAssumption DEF TooOld
<1>2. 0 \in 0 .. TooOld /\ CacheTTL \in 0 .. CacheTTL
  BY <1>1, ProberAssumption
<1> QED BY <1>1, <1>2 DEF NoSample, Samples, RTTs, Inf

(* A caller that measures nothing.                                         *)
LEMMA NoRoundType ==
    NoRound \in Rounds /\ NoRound.pc = "idle" /\ InTime(NoRound)
<1>1. 0 \in 0 .. MaxProbe /\ 0 <= 0 BY ProberAssumption
<1>2. [p \in Providers |-> NoSample] \in [Providers -> Samples]
  BY NoSampleType
<1>3. [p \in Providers |-> Inf] \in [Providers -> RTTs] BY DEF RTTs
<1> QED BY <1>1, <1>2, <1>3 DEF NoRound, Rounds, InTime

(* Some candidate comes first.                                             *)
LEMMA LeastNumber ==
    ASSUME NEW S, S \subseteq Nat, S # {}
    PROVE  \E n \in S : \A m \in S : n <= m
<1> DEFINE R == OpToRel(<, Nat)
<1>1. IsWellFoundedOn(R, Nat) BY NatLessThanWellFounded
<1>2. \A x, y \in Nat : x < y => <<x, y>> \in R BY DEF OpToRel
<1> HIDE DEF R
<1>3. PICK n \in S : \A m \in S : ~ (<<m, n>> \in R) BY <1>1, WFMin
<1>4. \A m \in S : ~ (m < n) BY <1>2, <1>3
<1> QED BY <1>3, <1>4

(* The result is a provider that answered, and none answered faster.       *)
LEMMA ResultIsNearest ==
    ASSUME NEW rtts \in [Providers -> RTTs], NEW old,
           Result(rtts, old).chosen # NoProvider
    PROVE  LET res == Result(rtts, old) IN
           /\ res.chosen \in Providers /\ res.old = old[res.chosen]
           /\ res.rtt < Inf /\ res.rtt = res.best
<1> DEFINE best == {p \in Providers :
                      /\ rtts[p] < Inf
                      /\ \A q \in Providers : rtts[p] <= rtts[q]}
           p == Lowest(rtts)
           Floor(r) == \A q \in Providers : r <= rtts[q]
           values == {rtts[q] : q \in Providers}
<1>1. /\ p # NoProvider /\ Result(rtts, old).chosen = p
      /\ Result(rtts, old).rtt = rtts[p] /\ Result(rtts, old).old = old[p]
      /\ Result(rtts, old).best = CHOOSE r \in values : Floor(r)
  BY DEF Result
<1>2. best # {} /\ p = CHOOSE x \in best : \A q \in best : x <= q
  BY <1>1 DEF Lowest
<1>3. best \subseteq Nat BY FederationAssumption
<1>4. p \in best BY <1>2, <1>3, LeastNumber
<1>5. p \in Providers /\ rtts[p] < Inf /\ Floor(rtts[p]) BY <1>4
<1>6. Result(rtts, old).best \in values /\ Floor(Result(rtts, old).best)
  BY <1>1, <1>5
<1>7. Result(rtts, old).best = rtts[p]
  <2>1. \A q \in Providers : rtts[q] \in Nat BY DEF RTTs, Inf
  <2>2. PICK q \in Providers : Result(rtts, old).best = rtts[q] BY <1>6
  <2>3. rtts[q] <= rtts[p] BY <1>5, <1>6, <2>2
  <2>4. rtts[p] <= rtts[q] BY <1>5
  <2> QED BY <1>5, <2>1, <2>2, <2>3, <2>4
<1> QED BY <1>1, <1>5, <1>7

(* A step of one caller's round that leaves the cache and the result alone *)
LEMMA RoundKeeps ==
    ASSUME ProberInv, NEW c \in Callers, NEW r \in Rounds, InTime(r),
           round' = [round EXCEPT ![c] = r], UNCHANGED <<cacheOf, last>>
    PROVE  ProberInv'
<1>1. round' \in [Callers -> Rounds] BY DEF ProberInv
<1>2. ASSUME NEW d \in Callers PROVE InTime(round'[d])
  <2>1. round'[d] = r \/ round'[d] = round[d] BY DEF ProberInv
  <2> QED BY <2>1 DEF ProberInv
<1>3. ChosenAnswered' BY DEF ProberInv, ChosenAnswered
<1> QED BY <1>1, <1>2, <1>3 DEF ProberInv

(* A round starts from the fresh samples of the cache.                     *)
LEMMA MeasureKeeps ==
    ASSUME ProberInv, NEW c \in Callers, Measure(c)
    PROVE  ProberInv'
<1> DEFINE fresh == {p \in Providers : cacheOf[p].age < CacheTTL}
           hit == [p \in Providers |-> IF p \in fresh THEN cacheOf[p]
                                       ELSE NoSample]
           pc == IF fresh = Providers THEN "store" ELSE "probe"
           r == [NoRound EXCEPT !.pc = pc, !.hit = hit,
                                !.toProbe = Providers \ fresh]
<1>1. round' = [round EXCEPT ![c] = r] /\ UNCHANGED <<cacheOf, last>>
  BY DEF Measure
<1>2. hit \in [Providers -> Samples] BY NoSampleType DEF ProberInv
<1>3. ASSUME NEW p \in fresh
      PROVE  hit[p].old < CacheTTL + MaxProbe + 0
  <2>1. /\ hit[p] = cacheOf[p] /\ cacheOf[p].age < CacheTTL
        /\ cacheOf[p] \in Samples /\ Young(cacheOf[p])
    BY DEF ProberInv
  <2>2. cacheOf[p] # NoSample BY <2>1, NoSampleType, ProberAssumption
  <2>3. cacheOf[p].age \in Nat /\ cacheOf[p].old \in Nat
    BY <2>1, NoSampleType, ProberAssumption DEF Samples
  <2> QED BY <2>1, <2>2, <2>3, ProberAssumption DEF Young
<1>4. fresh \subseteq Providers /\ pc \in {"store", "probe"} OBVIOUS
<1> HIDE DEF fresh, hit, pc
<1>5. /\ r \in Rounds /\ r.hit = hit /\ r.toProbe = Providers \ fresh
      /\ r.lag = 0 /\ r.taking = 0
  <2>1. NoRound \in Rounds /\ NoRound.lag = 0 /\ NoRound.taking = 0
    BY NoRoundType DEF NoRound
  <2> QED BY <1>2, <1>4, <2>1 DEF Rounds
<1>6. InTime(r)
  <2>1. \A p \in Providers \ (Providers \ fresh) : p \in fresh OBVIOUS
  <2>2. 0 <= 0 OBVIOUS
  <2> QED BY <1>3, <1>5, <2>1, <2>2 DEF InTime
<1> QED BY <1>1, <1>5, <1>6, RoundKeeps

(* The probes are answered, or lost.                                       *)
LEMMA ProbeKeeps ==
    ASSUME ProberInv, NEW c \in Callers, Probe(c)
    PROVE  ProberInv'
<1> DEFINE o == round[c]
<1>1. o \in Rounds /\ InTime(o) /\ o.pc = "probe"
  BY DEF ProberInv, Probe
<1>2. PICK rtts \in [o.toProbe -> RTTs] :
         round' = [round EXCEPT ![c] =
                [o EXCEPT !.pc = "store",
                          !.probed = [p \in Providers |->
                              IF p \in o.toProbe THEN rtts[p] ELSE Inf]]]
  BY DEF Probe
<1> DEFINE probed == [p \in Providers |->
                        IF p \in o.toProbe THEN rtts[p] ELSE Inf]
           r == [o EXCEPT !.pc = "store", !.probed = probed]
<1>3. probed \in [Providers -> RTTs] BY DEF RTTs
<1>4. round' = [round EXCEPT ![c] = r] /\ UNCHANGED <<cacheOf, last>>
  BY <1>2 DEF Probe
<1> HIDE DEF probed, o
<1>5. /\ r \in Rounds /\ r.hit = o.hit /\ r.toProbe = o.toProbe
      /\ r.lag = o.lag /\ r.taking = o.taking
  BY <1>1, <1>3 DEF Rounds
<1>6. InTime(r) BY <1>1, <1>5 DEF InTime
<1> QED BY <1>4, <1>5, <1>6, RoundKeeps

(* The caller goes away.                                                   *)
LEMMA LeavesKeeps ==
    ASSUME ProberInv, NEW c \in Callers, CallerLeaves(c)
    PROVE  ProberInv'
<1> DEFINE o == round[c]
           r == [o EXCEPT !.gone = TRUE]
<1>1. o \in Rounds /\ InTime(o) BY DEF ProberInv
<1>2. round' = [round EXCEPT ![c] = r] /\ UNCHANGED <<cacheOf, last>>
  BY DEF CallerLeaves
<1> HIDE DEF o
<1>3. /\ r \in Rounds /\ r.hit = o.hit /\ r.toProbe = o.toProbe
      /\ r.lag = o.lag /\ r.taking = o.taking /\ r.pc = o.pc
  BY <1>1 DEF Rounds
<1>4. InTime(r) BY <1>1, <1>3 DEF InTime
<1> QED BY <1>2, <1>3, <1>4, RoundKeeps

(* What was probed is stored, and the nearest is chosen by measurements    *)
(* that are recent enough.                                                 *)
LEMMA StoreKeeps ==
    ASSUME ProberInv, NEW c \in Callers, Store(c)
    PROVE  ProberInv'
<1> DEFINE r == round[c]
           rtts == [p \in Providers |-> IF p \in r.toProbe THEN r.probed[p]
                                        ELSE r.hit[p].rtt]
           old == [p \in Providers |->
                     IF p \in r.toProbe THEN r.lag ELSE r.hit[p].old]
           s(p) == [rtt |-> r.probed[p], age |-> 0, old |-> r.lag]
<1>1. /\ r.pc = "store" /\ round' = [round EXCEPT ![c] = NoRound]
      /\ last' = Result(rtts, old)
      /\ cacheOf' = [p \in Providers |-> IF p \in r.toProbe THEN s(p)
                                         ELSE cacheOf[p]]
  BY DEF Store
<1>2. r \in Rounds /\ InTime(r) BY DEF ProberInv
<1> HIDE DEF r
<1>3. /\ r.lag \in Nat /\ r.taking \in Nat /\ r.lag <= r.taking
      /\ r.taking <= MaxProbe /\ r.lag <= MaxProbe
  BY <1>2, ProberAssumption DEF Rounds, InTime
<1>4. ASSUME NEW p \in Providers
      PROVE  /\ rtts[p] \in RTTs /\ old[p] \in Nat /\ old[p] < TooOld
             /\ s(p) \in Samples /\ Young(s(p))
  <2>1. r.probed[p] \in RTTs /\ r.hit[p] \in Samples BY <1>2 DEF Rounds
  <2>2. r.hit[p].rtt \in RTTs /\ r.hit[p].old \in Nat
    BY <2>1, NoSampleType DEF Samples
  <2>3. rtts[p] \in RTTs /\ old[p] \in Nat BY <1>3, <2>1, <2>2
  <2>4. r.lag < TooOld BY <1>3, NoSampleType, ProberAssumption
  <2>5. p \notin r.toProbe => r.hit[p].old < TooOld
    <3> SUFFICES ASSUME p \notin r.toProbe PROVE r.hit[p].old < TooOld
      OBVIOUS
    <3>1. r.hit[p].old < CacheTTL + MaxProbe + r.taking
      BY <1>1, <1>2 DEF InTime
    <3> QED BY <1>3, <2>2, <3>1, NoSampleType, ProberAssumption
  <2>6. old[p] < TooOld BY <2>4, <2>5
  <2>7. /\ s(p).rtt \in RTTs /\ s(p).age = 0 /\ s(p).old = r.lag
        /\ s(p) \in [rtt: RTTs, age: {0}, old: {r.lag}]
    BY <2>1
  <2>8. r.lag \in 0 .. TooOld /\ 0 \in 0 .. CacheTTL /\ 0 < CacheTTL
        /\ r.lag <= 0 + MaxProbe
    BY <1>3, <2>4, NoSampleType, ProberAssumption
  <2>9. s(p) \in Samples BY <2>1, <2>8 DEF Samples
  <2>10. Young(s(p)) BY <2>7, <2>8 DEF Young
  <2> QED BY <2>3, <2>6, <2>9, <2>10
<1>5. rtts \in [Providers -> RTTs] BY <1>4
<1>6. ChosenAnswered'
  <2> HIDE DEF rtts, old
  <2> SUFFICES ASSUME last'.chosen # NoProvider
               PROVE  /\ last'.rtt < Inf /\ last'.rtt = last'.best
                      /\ last'.old < TooOld
    BY DEF ChosenAnswered
  <2>1. /\ last'.chosen \in Providers /\ last'.old = old[last'.chosen]
        /\ last'.rtt < Inf /\ last'.rtt = last'.best
    BY <1>1, <1>5, ResultIsNearest
  <2> QED BY <1>4, <2>1
<1> HIDE DEF rtts, old, s
<1>7. /\ cacheOf' \in [Providers -> Samples]
      /\ \A p \in Providers : Young(cacheOf'[p])
  BY <1>1, <1>4 DEF ProberInv
<1>8. /\ round' \in [Callers -> Rounds]
      /\ \A d \in Callers : InTime(round'[d])
  BY <1>1, NoRoundType DEF ProberInv
<1> QED BY <1>6, <1>7, <1>8 DEF ProberInv

(* A sample grows older by one, in the cache and in a round.               *)
LEMMA OlderByOne ==
    ASSUME NEW n \in 0 .. TooOld
    PROVE  Aged(n) \in 0 .. TooOld /\ Aged(n) <= n + 1
BY NoSampleType DEF Aged

(* A sample stays young as long as it is served.                           *)
LEMMA SampleAges ==
    ASSUME NEW s \in Samples, Young(s), s.age + 1 < CacheTTL
    PROVE  LET t == [s EXCEPT !.age = @ + 1, !.old = Aged(@)] IN
           t \in Samples /\ Young(t)
<1> DEFINE a == s.age + 1
           o == Aged(s.old)
           t == [s EXCEPT !.age = a, !.old = o]
<1>1. /\ s.age \in 0 .. CacheTTL /\ s.old \in 0 .. TooOld /\ s.old \in Nat
  BY NoSampleType DEF Samples
<1>2. s # NoSample BY <1>1, NoSampleType, ProberAssumption
<1>3. s.old <= s.age + MaxProbe BY <1>2 DEF Young
<1>4. o \in 0 .. TooOld /\ o <= s.old + 1 BY <1>1, OlderByOne
<1>5. a \in 0 .. CacheTTL /\ a < CacheTTL BY <1>1, ProberAssumption
<1>6. o <= a + MaxProbe
  BY <1>1, <1>3, <1>4, <1>5, NoSampleType, ProberAssumption
<1> HIDE DEF a, o
<1>7. t \in Samples /\ t.age = a /\ t.old = o BY <1>4, <1>5 DEF Samples
<1>8. Young(t) BY <1>5, <1>6, <1>7 DEF Young
<1> QED BY <1>7, <1>8 DEF a, o

(* A sample a round was served ages with it.                               *)
LEMMA HitAges ==
    ASSUME NEW s \in Samples
    PROVE  AgedHit(s) \in Samples /\ AgedHit(s).old <= s.old + 1
<1> DEFINE o == Aged(s.old)
<1>1. s.old \in 0 .. TooOld BY DEF Samples
<1>2. o \in 0 .. TooOld /\ o <= s.old + 1 BY <1>1, OlderByOne
<1>3. s.old <= s.old + 1 BY <1>1, NoSampleType
<1> HIDE DEF o
<1>4. [s EXCEPT !.old = o] \in Samples /\ [s EXCEPT !.old = o].old = o
  BY <1>2 DEF Samples
<1> QED BY <1>2, <1>3, <1>4, NoSampleType DEF o, AgedHit

(* Time passes while no round outlasts MaxProbe.                           *)
LEMMA TimeKeeps ==
    ASSUME ProberInv, TimePasses
    PROVE  ProberInv'
<1>1. /\ cacheOf' \in [Providers -> Samples]
      /\ \A p \in Providers : Young(cacheOf'[p])
  <2>1. ASSUME NEW p \in Providers
        PROVE  cacheOf'[p] \in Samples /\ Young(cacheOf'[p])
    <3>1. cacheOf[p] \in Samples /\ Young(cacheOf[p]) BY DEF ProberInv
    <3>2. CASE cacheOf[p].age + 1 < CacheTTL
      BY <3>1, <3>2, SampleAges DEF TimePasses
    <3>3. CASE ~ (cacheOf[p].age + 1 < CacheTTL)
      BY <3>3, NoSampleType DEF TimePasses, Young
    <3> QED BY <3>2, <3>3
  <2>2. cacheOf' = [p \in Providers |-> cacheOf'[p]] BY DEF TimePasses
  <2> QED BY <2>1, <2>2
<1>2. ASSUME NEW c \in Callers
      PROVE  round'[c] \in Rounds /\ InTime(round'[c])
  <2> DEFINE o == round[c]
             hit == [p \in Providers |-> AgedHit(o.hit[p])]
             taking == o.taking + 1
             lag == o.lag + IF o.pc = "store" THEN 1 ELSE 0
             r == [o EXCEPT !.taking = taking, !.hit = hit, !.lag = lag]
  <2>1. o \in Rounds /\ InTime(o) BY DEF ProberInv
  <2>2. CASE o.pc = "idle"
    <3>1. round'[c] = o BY <2>2 DEF TimePasses
    <3> QED BY <2>1, <3>1
  <2>3. CASE o.pc # "idle"
    <3>1. round'[c] = r /\ o.taking < MaxProbe BY <2>3 DEF TimePasses
    <3> HIDE DEF o
    <3>2. /\ o.taking \in Nat /\ o.lag \in Nat /\ o.lag <= o.taking
      BY <2>1, ProberAssumption DEF Rounds, InTime
    <3>3. ASSUME NEW p \in Providers
          PROVE  /\ hit[p] \in Samples /\ o.hit[p].old \in Nat
                 /\ hit[p].old \in Nat /\ hit[p].old <= o.hit[p].old + 1
      <4>1. o.hit[p] \in Samples BY <2>1 DEF Rounds
      <4>2. hit[p] \in Samples /\ hit[p].old <= o.hit[p].old + 1
        BY <4>1, HitAges
      <4> QED BY <4>1, <4>2, NoSampleType DEF Samples
    <3>4. hit \in [Providers -> Samples] BY <3>3
    <3>5. /\ taking \in 0 .. MaxProbe /\ lag \in 0 .. MaxProbe
          /\ lag <= taking /\ taking = o.taking + 1
      BY <3>1, <3>2, ProberAssumption
    <3> HIDE DEF hit, taking, lag
    <3>6. /\ r \in Rounds /\ r.hit = hit /\ r.taking = taking /\ r.lag = lag
          /\ r.toProbe = o.toProbe /\ r.pc = o.pc
      BY <2>1, <3>4, <3>5 DEF Rounds
    <3>7. ASSUME NEW p \in Providers \ o.toProbe
          PROVE  hit[p].old < CacheTTL + MaxProbe + taking
      <4>1. o.hit[p].old < CacheTTL + MaxProbe + o.taking
        BY <2>1, <2>3 DEF InTime
      <4> QED BY <3>2, <3>3, <3>5, <4>1, ProberAssumption
    <3>8. InTime(r) BY <3>5, <3>6, <3>7 DEF InTime
    <3> QED BY <3>1, <3>6, <3>8
  <2> QED BY <2>2, <2>3
<1>3. round' \in [Callers -> Rounds]
  <2>1. round' = [c \in Callers |-> round'[c]] BY DEF TimePasses
  <2> QED BY <1>2, <2>1
<1>4. ChosenAnswered' BY DEF ProberInv, ChosenAnswered, TimePasses
<1> QED BY <1>1, <1>2, <1>3, <1>4 DEF ProberInv

(* The invariant holds at the start and is kept by every step.             *)
LEMMA ProberInvariant == ProberSpec => []ProberInv
<1>1. ProberInit => ProberInv
  BY NoSampleType, NoRoundType
  DEF ProberInit, ProberInv, Young, ChosenAnswered
<1>2. ASSUME ProberInv, [ProberNext]_ProberVars
      PROVE  ProberInv'
  <2>1. CASE UNCHANGED ProberVars
    BY <1>2, <2>1 DEF ProberVars, ProberInv, ChosenAnswered
  <2> QED
    BY <1>2, <2>1, TimeKeeps, MeasureKeeps, ProbeKeeps, StoreKeeps, LeavesKeeps
    DEF ProberNext
<1> QED BY <1>1, <1>2, PTL DEF ProberSpec

(* The provider chosen for its latency answered, no slower than any other  *)
(* candidate, and less than the cache's TTL and two rounds of probes ago,  *)
(* for any TTL and any number of concurrent reads (MeasureAndPick).        *)
THEOREM NearestAnswered == ProberSpec => []ChosenAnswered
<1>1. ProberInv => ChosenAnswered BY DEF ProberInv
<1> QED BY <1>1, ProberInvariant, PTL
=============================================================================
