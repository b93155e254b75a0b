---------------------------- MODULE CloudProvider ----------------------------
(***************************************************************************)
(* One node group as the Cluster Autoscaler (CA, external) sees it through *)
(* the gRPC server: the RPCs of a scaling loop, the two-second cache of    *)
(* node groups, the reservations behind the agent's local API, the nodes   *)
(* Liqo materialises for them and their VirtualNodeStates, which the RPCs  *)
(* read (VirtualNodes has the controller that writes them).                *)
(*                                                                         *)
(* Time is left out but for one fact the code relies on: a scan interval   *)
(* is longer than nodeGroupsCacheTTL, so a loop never starts on a cache    *)
(* entry of the one before.                                                *)
(***************************************************************************)
EXTENDS Federation

CONSTANTS
    MaxResv,     \* bound on the reservations made: one per chunk and node
    Capacity,    \* chunks the provider has for this consumer
    MaxDemand    \* most nodes the pending pods can call for

ASSUME CloudAssumption ==
    MaxResv \in Nat /\ Capacity \in Nat /\ MaxDemand \in Nat

VARIABLES
    resv,        \* [Resv -> ResvStates]: the Broker's reservations
    knode,       \* [Resv -> KNodeStates]: the v1.Node of each
    vns,         \* [Resv -> VnsStates]: its VirtualNodeState
    cache,       \* ngCache: [fresh, target]
    ca,          \* where CA's loop is
    demand,      \* nodes the pods call for
    peak,        \* history: the largest demand so far
    rpcFaults    \* failed calls and node flaps so far

(* The n-th reservation made; its id is a fresh UUID. *)
Resv == 1 .. MaxResv

resvVars == <<resv, knode, vns>>
CloudVars == <<resvVars, cache, ca, demand, peak, rpcFaults>>

ResvStates == {"none", "held", "ended"}
KNodeStates == {"absent", "notReady", "ready", "deleting"}

(* absent, or Status.Phase; CreatingNamed is Creating with VirtualNodeName *)
(* set.  ProviderID is published with Running only.                        *)
VnsStates == {"absent", "Creating", "CreatingNamed", "Running", "Deleting"}

(* size, nodes: reading; grow: in NodeGroupIncreaseSize with `left` to go; *)
(* names, shrink: in NodeGroupDeleteNodes.                                 *)
CAStates == [pc: {"wait", "size", "nodes", "grow", "names", "shrink"},
             target: 0 .. MaxResv, left: 0 .. MaxDemand,
             nodes: SUBSET Resv]
StaleCache == [fresh |-> FALSE, target |-> 0]
Waiting == [pc |-> "wait", target |-> 0, left |-> 0, nodes |-> {}]

CloudInit ==
    /\ resv = [i \in Resv |-> "none"]
    /\ knode = [i \in Resv |-> "absent"]
    /\ vns = [i \in Resv |-> "absent"]
    /\ cache = StaleCache
    /\ ca = Waiting
    /\ demand = 0 /\ peak = 0 /\ rpcFaults = 0

Held == {i \in Resv : resv[i] = "held"}

Fails ==
    /\ rpcFaults < MaxFaults
    /\ rpcFaults' = rpcFaults + 1

(* The RPC returns an error; CA's loop ends and the next one starts over.  *)
Abort == ca' = Waiting

-----------------------------------------------------------------------------
(* CA's loop.                                                              *)

(* Mutant: nodeGroupsCacheTTL outlasts the scan interval. *)
LoopStartCached ==
    /\ ca.pc = "wait"
    /\ ca' = [Waiting EXCEPT !.pc = "size"]
    /\ UNCHANGED <<cache, resvVars, demand, peak, rpcFaults>>

(* A scan interval later, which is more than nodeGroupsCacheTTL.           *)
LoopStart ==
    /\ ca.pc = "wait"
    /\ ca' = [Waiting EXCEPT !.pc = "size"]
    /\ cache' = StaleCache
    /\ UNCHANGED <<resvVars, demand, peak, rpcFaults>>

(* nodeGroupsCacheTTL passes within a loop. *)
CacheExpires ==
    /\ cache.fresh
    /\ cache' = StaleCache
    /\ UNCHANGED <<resvVars, ca, demand, peak, rpcFaults>>

(* cachedNodeGroups: the cached answer while it is fresh, or a fetch that  *)
(* is then cached.  CurrentReserved counts every chunk this consumer       *)
(* holds, its node materialised or not.                                    *)
cachedNodeGroups ==
    IF cache.fresh THEN cache
    ELSE [fresh |-> TRUE, target |-> Cardinality(Held)]

(* NodeGroups and NodeGroupTargetSize. *)
NodeGroupTargetSize ==
    /\ ca.pc = "size"
    /\ cache' = cachedNodeGroups
    /\ ca' = [ca EXCEPT !.pc = "nodes", !.target = cachedNodeGroups.target]
    /\ UNCHANGED <<resvVars, demand, peak, rpcFaults>>

(* NodeGroupNodes: only chunks whose node is registered and has its        *)
(* ProviderID published.                                                   *)
Instances == {i \in Resv : vns[i] = "Running"}

(* CA holds back scale-down while an instance it is told of has no node.   *)
Unregistered == {i \in Instances : knode[i] = "absent"}

(* NodeGroupNodes, and CA's decision (external): grow to the demand,       *)
(* else take away ready nodes the pods do not need, else wait.             *)
NodeGroupNodes ==
    LET ready == {i \in Instances : knode[i] = "ready"} IN
    /\ ca.pc = "nodes"
    /\ IF demand > ca.target
       THEN ca' = [Waiting EXCEPT !.pc = "grow", !.left = demand - ca.target]
       ELSE IF Unregistered = {} /\ Cardinality(ready) > demand
       THEN \E S \in SUBSET ready :
               /\ Cardinality(S) = Cardinality(ready) - demand
               /\ ca' = [Waiting EXCEPT !.pc = "names", !.nodes = S]
       ELSE Abort
    /\ UNCHANGED <<resvVars, cache, demand, peak, rpcFaults>>

(* The demand changes between loops. *)
Pods ==
    /\ ca.pc = "wait"
    /\ demand' \in 0 .. MaxDemand
    /\ peak' = IF demand' > peak THEN demand' ELSE peak
    /\ UNCHANGED <<resvVars, cache, ca, rpcFaults>>

(* Any RPC fails before it has an effect: the agent does not answer.       *)
CallFails ==
    /\ ca.pc # "wait"
    /\ Fails /\ Abort
    /\ UNCHANGED <<resvVars, cache, demand, peak>>

-----------------------------------------------------------------------------
(* NodeGroupIncreaseSize: one PostReservation of one chunk, with a fresh   *)
(* id, per unit of delta; the first error ends the call and what was       *)
(* placed stands.                                                          *)

Fresh == {i \in Resv : \A j \in Resv : resv[j] = "none" <=> j >= i}

NodeGroupIncreaseSize ==
    /\ ca.pc = "grow" /\ Cardinality(Held) < Capacity
    /\ \E i \in Fresh : resv' = [resv EXCEPT ![i] = "held"]
    /\ \/ /\ ca' = IF ca.left = 1 THEN Waiting ELSE [ca EXCEPT !.left = @ - 1]
          /\ UNCHANGED rpcFaults
       \/ Abort /\ Fails                                  \* the reply is lost
    /\ UNCHANGED <<knode, vns, cache, demand, peak>>

(* findNodeGroup or PostReservation is refused: no such group, no chunk.   *)
PostRefused ==
    /\ ca.pc = "grow" /\ (Cardinality(Held) >= Capacity \/ Fresh = {})
    /\ Abort
    /\ UNCHANGED <<resvVars, cache, demand, peak, rpcFaults>>

-----------------------------------------------------------------------------
(* NodeGroupDeleteNodes.                                                   *)

(* GET /local/virtual-nodes: those it lists under the name of their node.  *)
Named == {i \in Resv : vns[i] \in {"CreatingNamed", "Running", "Deleting"}}

(* The names are resolved first; one unknown node fails the whole call.    *)
ResolveNames ==
    /\ ca.pc = "names"
    /\ IF ca.nodes \subseteq Named
       THEN ca' = [ca EXCEPT !.pc = "shrink"]
       ELSE Abort
    /\ UNCHANGED <<resvVars, cache, demand, peak, rpcFaults>>

(* DeleteReservation for one of them, in map order. *)
DeleteReservation(i) ==
    /\ ca.pc = "shrink" /\ i \in ca.nodes
    /\ resv' = [resv EXCEPT ![i] = "ended"]
    /\ \/ /\ ca' = IF ca.nodes = {i} THEN Waiting
                   ELSE [ca EXCEPT !.nodes = @ \ {i}]
          /\ UNCHANGED rpcFaults
       \/ Abort /\ Fails
    /\ UNCHANGED <<knode, vns, cache, demand, peak>>

-----------------------------------------------------------------------------
(* Reservations, nodes and VirtualNodeStates.                              *)

(* The Broker ends a reservation on its own. *)
ReservationEnds(i) ==
    /\ resv[i] = "held"
    /\ resv' = [resv EXCEPT ![i] = "ended"]
    /\ UNCHANGED <<knode, vns, cache, ca, demand, peak, rpcFaults>>

(* The consumer agent's Peer handler writes the VirtualNodeState, and its  *)
(* Unpeer handler deletes it.                                              *)
VnsCreated(i) ==
    /\ resv[i] = "held" /\ vns[i] = "absent"
    /\ vns' = [vns EXCEPT ![i] = "Creating"]
    /\ UNCHANGED <<resv, knode, cache, ca, demand, peak, rpcFaults>>

VnsDeleted(i) ==
    /\ resv[i] = "ended" /\ vns[i] # "absent"
    /\ vns' = [vns EXCEPT ![i] = "absent"]
    /\ UNCHANGED <<resv, knode, cache, ca, demand, peak, rpcFaults>>

(* Liqo brings the node up, and takes it down after the unpeering.         *)
NodeStep(i, from, to) ==
    /\ knode[i] = from
    /\ knode' = [knode EXCEPT ![i] = to]
    /\ UNCHANGED <<resv, vns, cache, ca, demand, peak>>

NodeUp(i) ==
    /\ resv[i] = "held"
    /\ NodeStep(i, "absent", "notReady") \/ NodeStep(i, "notReady", "ready")
    /\ UNCHANGED rpcFaults

NodeDown(i) ==
    /\ resv[i] = "ended"
    /\ \/ NodeStep(i, "notReady", "deleting")
       \/ NodeStep(i, "ready", "deleting")
       \/ NodeStep(i, "deleting", "absent")
    /\ UNCHANGED rpcFaults

(* The node of a live peering is lost, or flaps. *)
NodeFlap(i) ==
    /\ resv[i] = "held"
    /\ NodeStep(i, "ready", "notReady") \/ NodeStep(i, "ready", "absent")
    /\ Fails

(* projectFromNode: the status a VirtualNodeState takes from its node.     *)
projectFromNode(i) ==
    CASE knode[i] = "absent" -> "Creating"
      [] knode[i] = "deleting" -> "Deleting"
      [] knode[i] = "notReady" -> "CreatingNamed"
      [] knode[i] = "ready" -> "Running"

(* Mutant: a state that has its node's name is not looked at again. *)
VnsProjectedOnce(i) ==
    /\ vns[i] = "Creating" /\ projectFromNode(i) # vns[i]
    /\ vns' = [vns EXCEPT ![i] = projectFromNode(i)]
    /\ UNCHANGED <<resv, knode, cache, ca, demand, peak, rpcFaults>>

(* VirtualNodeStateReconciler.Reconcile, the status having changed.        *)
VnsProjected(i) ==
    /\ vns[i] # "absent" /\ projectFromNode(i) # vns[i]
    /\ vns' = [vns EXCEPT ![i] = projectFromNode(i)]
    /\ UNCHANGED <<resv, knode, cache, ca, demand, peak, rpcFaults>>

Peering(i) == VnsCreated(i) \/ VnsDeleted(i)
Liqo(i) == NodeUp(i) \/ NodeDown(i)

CALoop ==
    \/ LoopStart \/ NodeGroupTargetSize \/ NodeGroupNodes
    \/ NodeGroupIncreaseSize \/ PostRefused \/ ResolveNames
    \/ \E i \in Resv : DeleteReservation(i)

CloudNext ==
    \/ CALoop \/ CacheExpires \/ Pods \/ CallFails
    \/ \E i \in Resv :
          \/ Peering(i) \/ Liqo(i) \/ VnsProjected(i)
          \/ ReservationEnds(i) \/ NodeFlap(i)

CloudSpec == CloudInit /\ [][CloudNext]_CloudVars

(* CA's loop runs for ever, the controllers' queues and the agents' polls  *)
(* do not stop, and Liqo brings up the node of a reservation that lasts.   *)
CloudFairness ==
    /\ WF_CloudVars(CALoop)
    /\ \A i \in Resv :
          /\ WF_CloudVars(Peering(i)) /\ WF_CloudVars(Liqo(i))
          /\ WF_CloudVars(VnsProjected(i))

CloudFairSpec == CloudSpec /\ CloudFairness

-----------------------------------------------------------------------------
CloudTypeOK ==
    /\ resv \in [Resv -> ResvStates] /\ knode \in [Resv -> KNodeStates]
    /\ vns \in [Resv -> VnsStates]
    /\ cache \in [fresh: BOOLEAN, target: 0 .. MaxResv]
    /\ ca \in CAStates
    /\ demand \in 0 .. MaxDemand /\ peak \in 0 .. MaxDemand
    /\ rpcFaults \in 0 .. MaxFaults

(* CA never ends up with more chunks than its pods ever called for, though *)
(* nodes take long to appear, replies are lost and calls are half done:    *)
(* NodeGroupTargetSize reports what was reserved by the next loop          *)
(* (nodeGroupsCacheTTL, NodeGroupIncreaseSize on partial success).         *)
NoOvershoot == Cardinality(Held) <= peak

(* Capacity nobody needs is given back: nothing the projection reports     *)
(* keeps CA from scaling down for good, not even nodes that flap           *)
(* (NodeGroupNodes, projectFromNode).                                      *)
DrainsWhenIdle == <>[](demand = 0) => <>[](Held = {})
=============================================================================
