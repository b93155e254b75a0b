-------------------------- MODULE ResourceRequests --------------------------
(***************************************************************************)
(* One ResourceRequest of a consumer cluster: the reconciler in the gRPC   *)
(* server that turns it into Broker reservations, migrates it between      *)
(* providers and releases it on deletion, next to the user who deletes it, *)
(* the Cluster Autoscaler that reclaims unprotected nodes, and everything  *)
(* that may end a reservation at the Broker.                               *)
(*                                                                         *)
(* The reconciler's worker is sequential.  It reads the object from the    *)
(* informer's cache, which lags behind the API server; every remote call   *)
(* and every write is a step of its own.  A write carries the version that *)
(* was read, and fails when the object has moved on.                       *)
(*                                                                         *)
(* Reservation 1 is "mr-<uid>", reservation n + 1 is "mr-<uid>-m<n>".      *)
(***************************************************************************)
EXTENDS Federation

CONSTANTS
    Want,        \* spec.resources of the request, in units of one resource
    GroupViews   \* what the agent's list may say of one provider

VARIABLES
    obj,         \* the ResourceRequest at the API server
    cached,      \* the copy in the reconciler's informer cache
    synced,      \* cached is the latest version
    work,        \* the reconciler's worker
    broker,      \* [Ids -> BrokerStates]: the Broker's Reservation objects
    node,        \* the borrowed v1.Node of the newest of them that got one
    faults       \* faults so far

RequestVars == <<obj, cached, synced, work, broker, node, faults>>

Ids == 1 .. (MaxMigrations + 1)
NoId == 0

Phases == {"", "Pending", "Reserved", "Active", "Migrating", "Failed"}
AnyProvider == Providers \cup {NoProvider}

(* ResourceRequest: deletion and finalizer, and the status.  `rested` says *)
(* that LastTransitionTime is at least ReEvalInterval ago (or nil).        *)
Objects ==
    [state: {"live", "deleting", "gone"}, finalizer: BOOLEAN, phase: Phases,
     id: Ids \cup {NoId}, provider: AnyProvider,
     migrations: 0 .. MaxMigrations, rested: BOOLEAN]

NewObject ==
    [state |-> "live", finalizer |-> FALSE, phase |-> "", id |-> NoId,
     provider |-> NoProvider, migrations |-> 0, rested |-> TRUE]

BrokerStates == [state: {"none", "live", "ended"}, provider: AnyProvider]
NodeStates == [id: Ids \cup {NoId}, protected: BOOLEAN]
NoNode == [id |-> NoId, protected |-> FALSE]

(* rr: the object as read; fresh: no one has written it since; target: the *)
(* provider picked; next: the status about to be written.                  *)
WorkPCs == {"idle", "finalizer", "release", "unfinalize", "pick", "post",
            "reeval", "break", "complete", "hold", "write"}
Work == [pc: WorkPCs, rr: Objects, fresh: BOOLEAN, target: AnyProvider,
         next: Objects]
Idle == [pc |-> "idle", rr |-> NewObject, fresh |-> FALSE,
         target |-> NoProvider, next |-> NewObject]

RequestInit ==
    /\ obj = NewObject
    /\ cached = NewObject
    /\ synced = TRUE
    /\ work = Idle
    /\ broker = [i \in Ids |-> [state |-> "none", provider |-> NoProvider]]
    /\ node = NoNode
    /\ faults = 0

-----------------------------------------------------------------------------
(* Choosing a provider.  The agent's answer lists some providers of the    *)
(* request's chunk type: NodeGroupViews, here [listed, avail (MaxSize      *)
(* minus CurrentReserved), chunk (its size), metric (0: HasMetric is       *)
(* false)].                                                                *)

(* chunksFor: ceil(requested / per-chunk); 0 when the chunk lacks it.      *)
chunksFor(want, chunk) ==
    IF want = 0 \/ chunk = 0 THEN 0 ELSE (want + chunk - 1) \div chunk

Fits(v) ==
    /\ v.listed /\ v.avail > 0
    /\ chunksFor(Want, v.chunk) \in 1 .. v.avail

(* pickProviderAndSize: the providers it may return, the list being in any *)
(* order: most head-room among those that hold the whole request.          *)
pickProviderAndSize(views) ==
    {p \in Providers : /\ Fits(views[p])
                       /\ \A q \in Providers : Fits(views[q]) =>
                             views[q].avail <= views[p].avail}

(* multiChunkUnsupported *)
TooBig(views, p) == chunksFor(Want, views[p].chunk) > 1

(* maybeStartMigration's guard: p is not where the request is, and the     *)
(* current provider has left the list or has a strictly worse metric.      *)
Better(views, p, current) ==
    /\ p # current
    /\ (current \in Providers /\ views[current].listed) =>
          /\ views[p].metric > 0
          /\ views[p].metric < views[current].metric

Answers == [Providers -> GroupViews]

(* The providers some answer of the agent makes it pick, with whether the  *)
(* request is then too large, and those it would migrate to.               *)
Picks ==
    UNION {{[provider |-> p, tooBig |-> TooBig(views, p)] :
               p \in pickProviderAndSize(views)} : views \in Answers}
Moves(current) ==
    UNION {{p \in pickProviderAndSize(views) : Better(views, p, current)} :
               views \in Answers}

-----------------------------------------------------------------------------
(* The worker's bookkeeping.                                               *)

Goto(pc) == work' = [work EXCEPT !.pc = pc]
Done == work' = Idle

(* writePhase: stamps LastTransitionTime on a phase change; the other      *)
(* fields are only ever set.                                               *)
WithPhase(rr, phase) ==
    [rr EXCEPT !.phase = phase, !.rested = @ /\ rr.phase = phase]

(* setReserved *)
WithReserved(rr, id, p) ==
    [WithPhase(rr, "Reserved") EXCEPT !.id = id, !.provider = p]

(* setMigrating and nextReservationID. *)
WithMigration(rr) ==
    [rr EXCEPT !.phase = "Migrating", !.id = rr.migrations + 2,
               !.migrations = @ + 1, !.rested = FALSE]

ToWrite(next) ==
    work' = [Idle EXCEPT !.pc = "write", !.fresh = work.fresh, !.next = next]

(* Mutant: the request is re-evaluated at every reconcile. *)
FirstStepEager(rr) ==
    IF rr.state = "deleting"
    THEN IF ~rr.finalizer THEN "idle"
         ELSE IF rr.id # NoId THEN "release" ELSE "unfinalize"
    ELSE IF ~rr.finalizer THEN "finalizer"
    ELSE IF rr.id = NoId THEN "pick"
    ELSE IF rr.phase = "Migrating" THEN "complete"
    ELSE "reeval"

(* What Reconcile does with the object it read.                            *)
FirstStep(rr) ==
    IF rr.state = "deleting"
    THEN IF ~rr.finalizer THEN "idle"
         ELSE IF rr.id # NoId THEN "release" ELSE "unfinalize"
    ELSE IF ~rr.finalizer THEN "finalizer"
    ELSE IF rr.id = NoId THEN "pick"
    ELSE IF rr.phase = "Migrating" THEN "complete"
    ELSE IF rr.rested THEN "reeval" ELSE "hold"

(* Reconcile: r.Get from the cache.                                        *)
Begin ==
    /\ work.pc = "idle" /\ cached.state # "gone"
    /\ FirstStep(cached) # "idle"
    /\ work' = [Idle EXCEPT !.pc = FirstStep(cached), !.rr = cached,
                            !.fresh = synced]
    /\ UNCHANGED <<obj, cached, synced, broker, node, faults>>

(* Mutant: the write is forced, whatever version was read. *)
StoreForced(new) ==
    /\ obj' = IF obj.state = "gone" THEN obj ELSE new
    /\ synced' = FALSE
    /\ UNCHANGED <<cached, broker, node, faults>>

(* An Update of the object or of its status by the worker: it succeeds     *)
(* when no one wrote the object since it was read, and is a conflict       *)
(* otherwise.                                                              *)
Store(new) ==
    /\ obj' = IF work.fresh THEN new ELSE obj
    /\ synced' = (synced /\ ~(work.fresh /\ new # obj))
    /\ UNCHANGED <<cached, broker, node, faults>>

(* A failed attempt at something remote; the queue tries again.            *)
Fault ==
    /\ faults < MaxFaults
    /\ faults' = faults + 1

-----------------------------------------------------------------------------
(* The Broker behind the agent's local API.                                *)

(* POST of reservation i at p, applied: a new object, or an existing one   *)
(* with the same spec, whatever its phase.                                 *)
Posted(i, p) ==
    IF broker[i].state = "none"
    THEN [broker EXCEPT ![i] = [state |-> "live", provider |-> p]]
    ELSE broker

(* sameReservationRequest: an id that exists elsewhere is refused (409).   *)
Postable(i, p) == broker[i].state = "none" \/ broker[i].provider = p

(* DELETE of reservation i, applied. *)
Ended(i) == [broker EXCEPT ![i].state = IF @ = "live" THEN "ended" ELSE @]

-----------------------------------------------------------------------------
(* Reconcile, the deletion branch.                                         *)

(* DeleteReservation: NotFound counts as released. *)
Release ==
    /\ work.pc = "release"
    /\ broker' = Ended(work.rr.id)
    /\ Goto("unfinalize")
    /\ UNCHANGED <<obj, cached, synced, node, faults>>

(* The call fails: not delivered, or delivered and the reply lost.         *)
ReleaseFails ==
    /\ work.pc \in {"release", "break"}
    /\ broker' \in {broker, Ended(work.rr.id)}
    /\ Fault /\ Done
    /\ UNCHANGED <<obj, cached, synced, node>>

(* RemoveFinalizer: the API server then drops the object.                  *)
Unfinalize ==
    /\ work.pc = "unfinalize"
    /\ Store([obj EXCEPT !.state = "gone", !.finalizer = FALSE])
    /\ Done

(* AddFinalizer, before anything is reserved.                              *)
AddFinalizer ==
    /\ work.pc = "finalizer"
    /\ Store([obj EXCEPT !.finalizer = TRUE])
    /\ Done

-----------------------------------------------------------------------------
(* Reconcile, reserving.                                                   *)

(* nodeGroupsFor and pickProviderAndSize for a request without an id: an   *)
(* error, no provider or too large a request leave it Pending.             *)
Pick ==
    /\ work.pc = "pick"
    /\ \/ ToWrite(WithPhase(work.rr, "Pending"))
       \/ \E pick \in Picks :
             /\ ~pick.tooBig
             /\ work' = [work EXCEPT !.pc = "post", !.target = pick.provider]
    /\ UNCHANGED <<obj, cached, synced, broker, node, faults>>

(* The id a post uses: mr-<uid>, or the one setMigrating recorded.         *)
PostId == IF work.rr.id = NoId THEN 1 ELSE work.rr.id

(* PostReservation succeeds. *)
Post ==
    /\ work.pc = "post" /\ Postable(PostId, work.target)
    /\ broker' = Posted(PostId, work.target)
    /\ ToWrite(WithReserved(work.rr, PostId, work.target))
    /\ UNCHANGED <<obj, cached, synced, node, faults>>

(* PostReservation is refused: no capacity, or the id exists elsewhere.    *)
PostRefused ==
    /\ work.pc = "post"
    /\ ToWrite(WithPhase(work.rr, "Failed"))
    /\ UNCHANGED <<obj, cached, synced, broker, node, faults>>

(* PostReservation reaches the Broker and the reply is lost.               *)
PostReplyLost ==
    /\ work.pc = "post" /\ Postable(PostId, work.target)
    /\ broker' = Posted(PostId, work.target)
    /\ ToWrite(WithPhase(work.rr, "Failed"))
    /\ Fault
    /\ UNCHANGED <<obj, cached, synced, node>>

(* Status().Update with the status the branch decided on.                  *)
WriteStatus ==
    /\ work.pc = "write"
    /\ Store([work.next EXCEPT !.state = obj.state,
                               !.finalizer = obj.finalizer])
    /\ Done

-----------------------------------------------------------------------------
(* Reconcile, with a reservation.                                          *)

isStableMetricPolicy(placement) == placement \in {"Price", "Eco", "Latency"}

(* maybeStartMigration up to the release: hold, or leave for p, by what    *)
(* the agent answers.  A call that fails holds.                            *)
ReEvaluate ==
    /\ work.pc = "reeval"
    /\ \/ Goto("hold")
       \/ \E applied \in {"Standard", "Random", "Price", "Eco", "Latency"} :
             /\ isStableMetricPolicy(applied)
             /\ Moves(work.rr.provider) # {}
             /\ work.rr.migrations < MaxMigrations
             /\ Goto("break")
    /\ UNCHANGED <<obj, cached, synced, broker, node, faults>>

(* Mutant: make before break. *)
BreakOldLater ==
    /\ work.pc = "break"
    /\ ToWrite(WithMigration(work.rr))
    /\ UNCHANGED <<obj, cached, synced, broker, node, faults>>

(* The old reservation is released before the new id is recorded.          *)
BreakOld ==
    /\ work.pc = "break"
    /\ broker' = Ended(work.rr.id)
    /\ ToWrite(WithMigration(work.rr))
    /\ UNCHANGED <<obj, cached, synced, node, faults>>

(* completeMigration up to the post: without a provider it stays.          *)
CompleteMigration ==
    /\ work.pc = "complete"
    /\ \/ Done
       \/ \E pick \in Picks :
             /\ ~pick.tooBig
             /\ work' = [work EXCEPT !.pc = "post", !.target = pick.provider]
    /\ UNCHANGED <<obj, cached, synced, broker, node, faults>>

(* Mutant: an Active request is not looked at again. *)
HoldReservationOnce ==
    LET found == node.id = work.rr.id IN
    /\ work.pc = "hold"
    /\ node' = [node EXCEPT !.protected =
                                @ \/ (found /\ work.rr.phase # "Active")]
    /\ ToWrite(WithPhase(work.rr, IF found THEN "Active" ELSE "Reserved"))
    /\ UNCHANGED <<obj, cached, synced, broker, faults>>

(* holdReservation, protectReservationNodes and disableScaleDown: the node *)
(* of the recorded reservation is annotated if it exists.                  *)
HoldReservation ==
    LET found == node.id = work.rr.id IN
    /\ work.pc = "hold"
    /\ node' = [node EXCEPT !.protected = @ \/ found]
    /\ ToWrite(WithPhase(work.rr, IF found THEN "Active" ELSE "Reserved"))
    /\ UNCHANGED <<obj, cached, synced, broker, faults>>

-----------------------------------------------------------------------------
(* The rest of the system.                                                 *)

(* kubectl delete, or the console's release. *)
UserDelete ==
    /\ obj.state = "live"
    /\ obj' = [obj EXCEPT !.state =
                              IF obj.finalizer THEN "deleting" ELSE "gone"]
    /\ synced' = FALSE
    /\ work' = [work EXCEPT !.fresh = FALSE]
    /\ UNCHANGED <<cached, broker, node, faults>>

(* The watch delivers the latest version to the informer.                  *)
Sync ==
    /\ ~synced
    /\ cached' = obj /\ synced' = TRUE
    /\ UNCHANGED <<obj, work, broker, node, faults>>

(* ReEvalInterval passes: no write, every copy's timestamp ages.           *)
Rest ==
    /\ ~(obj.rested /\ cached.rested /\ work.rr.rested /\ work.next.rested)
    /\ obj' = [obj EXCEPT !.rested = TRUE]
    /\ cached' = [cached EXCEPT !.rested = TRUE]
    /\ work' = [work EXCEPT !.rr.rested = TRUE, !.next.rested = TRUE]
    /\ UNCHANGED <<synced, broker, node, faults>>

(* The gRPC server dies and is restarted. *)
Crash ==
    /\ work.pc # "idle"
    /\ Done /\ Fault
    /\ UNCHANGED <<obj, cached, synced, broker, node>>

(* The Broker ends a reservation: expiry, failed peering, lost provider.   *)
BrokerEnds(i) ==
    /\ broker[i].state = "live"
    /\ broker' = Ended(i)
    /\ UNCHANGED <<obj, cached, synced, work, node, faults>>

(* The Broker prunes an ended reservation. *)
BrokerPrunes(i) ==
    /\ broker[i].state = "ended"
    /\ broker' = [broker EXCEPT ![i] = [state |-> "none",
                                        provider |-> NoProvider]]
    /\ UNCHANGED <<obj, cached, synced, work, node, faults>>

(* Liqo materialises the node of a live reservation.  The node of an older *)
(* one may still be going away; nothing looks it up any more.              *)
NodeAppears(i) ==
    /\ broker[i].state = "live" /\ node.id # i
    /\ node' = [id |-> i, protected |-> FALSE]
    /\ UNCHANGED <<obj, cached, synced, work, broker, faults>>

NodeDisappears ==
    /\ node # NoNode
    /\ node' = NoNode
    /\ UNCHANGED <<obj, cached, synced, work, broker, faults>>

(* CA finds an unprotected node unneeded: NodeGroupDeleteNodes.            *)
ScaleDown ==
    /\ node # NoNode /\ ~node.protected
    /\ broker' = Ended(node.id)
    /\ node' = NoNode
    /\ UNCHANGED <<obj, cached, synced, work, faults>>

Reconcile ==
    \/ Begin \/ Release \/ Unfinalize \/ AddFinalizer \/ Pick \/ Post
    \/ PostRefused \/ WriteStatus \/ ReEvaluate \/ BreakOld
    \/ CompleteMigration \/ HoldReservation

RequestNext ==
    \/ Reconcile
    \/ ReleaseFails \/ PostReplyLost \/ Crash
    \/ UserDelete \/ Sync \/ Rest \/ NodeDisappears \/ ScaleDown
    \/ \E i \in Ids : BrokerEnds(i) \/ BrokerPrunes(i) \/ NodeAppears(i)

RequestSpec == RequestInit /\ [][RequestNext]_RequestVars

(* The work queue retries and requeues every request, one worker takes its *)
(* items in turn, and the watch delivers.                                  *)
RequestFairness == WF_RequestVars(Reconcile) /\ WF_RequestVars(Sync)

RequestFairSpec == RequestSpec /\ RequestFairness

-----------------------------------------------------------------------------
RequestTypeOK ==
    /\ obj \in Objects /\ cached \in Objects /\ synced \in BOOLEAN
    /\ work \in Work
    /\ broker \in [Ids -> BrokerStates]
    /\ node \in NodeStates
    /\ faults \in 0 .. MaxFaults

(* A request never holds two reservations at the Broker, however its       *)
(* status writes and its calls are lost: a migration breaks before it      *)
(* makes, and a repeated post reuses the id (maybeStartMigration,          *)
(* nextReservationID).                                                     *)
OneLive ==
    \A i, j \in Ids :
        broker[i].state = "live" /\ broker[j].state = "live" => i = j

(* Deleting a request whose status carries a reservation id releases       *)
(* everything: the finalizer is gone only when nothing of it is live.      *)
ReleasedOnDelete ==
    obj.state = "gone" /\ obj.id # NoId =>
        \A i \in Ids : broker[i].state # "live"

(* Two migrations are never closer together than ReEvalInterval: the       *)
(* count grows only on an object whose last transition is that old, even   *)
(* when the decision was taken on a stale copy.                            *)
NoFlap ==
    [][obj'.migrations # obj.migrations => obj.rested]_RequestVars

(* The controller leaves no request half-way.  A deleted one does go: the  *)
(* finalizer is never stuck on a reservation the Broker no longer knows.   *)
(* The node of the reservation a request holds does not stay exposed to    *)
(* scale-down: it is protected, or it goes, or the request moves on.       *)
RequestSettles ==
    LET Exposed == /\ obj.id # NoId /\ node.id = obj.id /\ ~node.protected
                   /\ obj.state = "live" /\ obj.phase # "Migrating"
    IN []<>(obj.state # "deleting") /\ []<>(~Exposed)
=============================================================================
