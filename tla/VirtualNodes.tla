---------------------------- MODULE VirtualNodes ----------------------------
(***************************************************************************)
(* The controller that projects the borrowed v1.Node of one chunk onto the *)
(* status of its VirtualNodeState, which the gRPC server reads: informer   *)
(* caches that lag, a node watch whose events may be dropped, a status     *)
(* write that carries the version read, and the requeue timer.             *)
(***************************************************************************)
EXTENDS Federation

VARIABLES
    vnode,       \* the v1.Node: one of VNodeStates
    nodeSeen,    \* the same in the informer cache
    state,       \* the VirtualNodeState: "absent", "deleting" or its Status
    stateSeen,   \* the same in the informer cache
    queue,       \* "key": queued; "timer": RequeueAfter is running; "none"
    projector,   \* the worker: [pc, next]; pc "stale" is a write to conflict
    vnFaults     \* dropped events and failed calls so far

vars == <<vnode, nodeSeen, state, stateSeen, queue, projector, vnFaults>>

VNodeStates == {"absent", "notReady", "ready", "deleting"}

(* Status.Phase; CreatingNamed is Creating with VirtualNodeName set.  The  *)
(* conditions, ProviderID and Allocatable follow from it (updateConditions,*)
(* statusEqual).                                                           *)
Statuses == {"", "Creating", "CreatingNamed", "Running", "Deleting"}
States == Statuses \cup {"absent", "deleting"}
Resting == [pc |-> "idle", next |-> ""]

Init ==
    /\ vnode = "absent" /\ nodeSeen = "absent"
    /\ state = "absent" /\ stateSeen = "absent"
    /\ queue = "none"
    /\ projector = Resting
    /\ vnFaults = 0

VnFault ==
    /\ vnFaults < MaxFaults
    /\ vnFaults' = vnFaults + 1

(* projectFromNode: the status a node in state n gives. *)
projectFromNode(n) ==
    CASE n = "absent" -> "Creating"
      [] n = "deleting" -> "Deleting"
      [] n = "notReady" -> "CreatingNamed"
      [] n = "ready" -> "Running"

-----------------------------------------------------------------------------
(* Around the controller.                                                  *)

(* The Peer handler creates the VirtualNodeState; Unpeer deletes it, and   *)
(* it lingers while a finalizer of its own holds it.                       *)
StateWritten ==
    /\ \/ state = "absent" /\ state' = ""
       \/ state \in Statuses /\ state' \in {"deleting", "absent"}
       \/ state = "deleting" /\ state' = "absent"
    /\ projector' = [projector EXCEPT !.pc =
                                          IF @ = "write" THEN "stale" ELSE @]
    /\ UNCHANGED <<vnode, nodeSeen, stateSeen, queue, vnFaults>>

(* Liqo and the kubelet move the node. *)
NodeMoves ==
    /\ vnode' \in VNodeStates \ {vnode}
    /\ UNCHANGED <<nodeSeen, state, stateSeen, queue, projector, vnFaults>>

(* For(): the watch on VirtualNodeStates delivers, and enqueues.           *)
StateEvent ==
    /\ stateSeen # state
    /\ stateSeen' = state
    /\ queue' = "key"
    /\ UNCHANGED <<vnode, nodeSeen, state, projector, vnFaults>>

(* requestsForNode: the node watch enqueues the VirtualNodeStates of the   *)
(* node, found in the cache (nodeNameFor).  When the List fails the event  *)
(* is dropped.                                                             *)
NodeEvent ==
    /\ nodeSeen # vnode
    /\ nodeSeen' = vnode
    /\ \/ /\ queue' = IF stateSeen = "absent" THEN queue ELSE "key"
          /\ UNCHANGED vnFaults
       \/ VnFault /\ UNCHANGED queue
    /\ UNCHANGED <<vnode, state, stateSeen, projector>>

(* RequeueAfter runs out. *)
RequeueTimer ==
    /\ queue = "timer"
    /\ queue' = "key"
    /\ UNCHANGED <<vnode, nodeSeen, state, stateSeen, projector, vnFaults>>

-----------------------------------------------------------------------------
(* Reconcile.                                                              *)

(* The write a pass ends in; it conflicts when the cache was behind.       *)
ToUpdate(next) ==
    projector' = [pc |-> IF stateSeen = state THEN "write" ELSE "stale",
                  next |-> next]

(* Mutant: a pass with nothing to write does not requeue. *)
ReconcileQuietly ==
    LET next == projectFromNode(nodeSeen) IN
    /\ projector.pc = "idle" /\ queue = "key"
    /\ IF stateSeen \in {"absent", "deleting", next}
       THEN queue' = "none" /\ UNCHANGED projector
       ELSE queue' = "none" /\ ToUpdate(next)
    /\ UNCHANGED <<vnode, nodeSeen, state, stateSeen, vnFaults>>

(* Reconcile up to the write, from the caches: nothing to do for an object *)
(* that is gone or going; a status that is already right is not written    *)
(* (statusEqual).                                                          *)
Reconcile ==
    LET next == projectFromNode(nodeSeen) IN
    /\ projector.pc = "idle" /\ queue = "key"
    /\ CASE stateSeen \in {"absent", "deleting"} ->
              queue' = "none" /\ UNCHANGED projector
         [] stateSeen = next ->
              queue' = "timer" /\ UNCHANGED projector
         [] OTHER ->
              queue' = "none" /\ ToUpdate(next)
    /\ UNCHANGED <<vnode, nodeSeen, state, stateSeen, vnFaults>>

(* Status().Update: a conflict, or any other failure, is retried by the    *)
(* queue; so is a failed Get of the node.                                  *)
UpdateStatus ==
    /\ \/ /\ projector.pc = "write"
          /\ state' = projector.next
          /\ queue' = IF queue = "key" THEN "key" ELSE "timer"
          /\ UNCHANGED vnFaults
       \/ /\ projector.pc = "stale" /\ UNCHANGED vnFaults
          /\ queue' = "key" /\ UNCHANGED state
       \/ /\ projector.pc = "write" /\ VnFault
          /\ queue' = "key" /\ UNCHANGED state
    /\ projector' = Resting
    /\ UNCHANGED <<vnode, nodeSeen, stateSeen>>

Controller ==
    StateEvent \/ NodeEvent \/ RequeueTimer \/ Reconcile \/ UpdateStatus

Next == StateWritten \/ NodeMoves \/ Controller

Spec == Init /\ [][Next]_vars

(* Both watches deliver, the timer fires and the worker takes its key.     *)
Fairness ==
    /\ WF_vars(StateEvent) /\ WF_vars(NodeEvent) /\ WF_vars(RequeueTimer)
    /\ WF_vars(Reconcile) /\ WF_vars(UpdateStatus)

FairSpec == Spec /\ Fairness

-----------------------------------------------------------------------------
TypeOK ==
    /\ vnode \in VNodeStates /\ nodeSeen \in VNodeStates
    /\ state \in States /\ stateSeen \in States
    /\ queue \in {"none", "key", "timer"}
    /\ projector \in [pc: {"idle", "write", "stale"}, next: Statuses]
    /\ vnFaults \in 0 .. MaxFaults

(* A node that has settled shows in the status the gRPC server reads, even *)
(* when the watch event of its last change was dropped or a write lost a   *)
(* conflict (requestsForNode on a failed List, RequeueAfter).              *)
ProjectionCatchesUp ==
    \A n \in VNodeStates :
        <>[](vnode = n /\ state \in Statuses) =>
            <>[](state = projectFromNode(n))
=============================================================================
