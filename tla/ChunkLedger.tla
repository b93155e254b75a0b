----------------------------- MODULE ChunkLedger -----------------------------
(***************************************************************************)
(* Chunk accounting of one provider: the ReservedChunks counter of its     *)
(* ClusterAdvertisement, charged when a Reservation is created and         *)
(* credited when it ends, by goroutines that share nothing but the API     *)
(* server.  A step is one write (or one failed attempt) at the API server: *)
(*                                                                         *)
(*   - a Broker HTTP handler in POST or DELETE /api/v1/reservations;       *)
(*   - the single worker of the Reservation reconciler;                    *)
(*   - the phase changes the rest of the Broker makes, in one step each;   *)
(*   - the provider's reports and their ageing; kubectl delete;            *)
(*   - a handler cut short (its request context is cancelled, or a write   *)
(*     fails for good), and a crash of the Broker.                         *)
(*                                                                         *)
(* A phase is one of Absent, Live (Pending up to Peered), Unpeering,       *)
(* Terminal (Released, Expired, Failed) and Gone.  A reservation's name is *)
(* fresh (res-<uuid>), so Gone is final.  Every reservation has ChunkCount *)
(* 1, the only value validateReservationRequest accepts.                   *)
(***************************************************************************)
EXTENDS Advertisement, FiniteSets

CONSTANTS
    Resv,       \* reservation names
    Handlers,   \* concurrent HTTP handler goroutines
    NoResv,     \* what an idle handler or worker is busy with
    Counts,     \* the chunk counts the provider reports
    MaxFaults   \* bound on cut-short handlers, failed writes and crashes

ASSUME LedgerAssumption ==
    /\ IsFiniteSet(Resv) /\ IsFiniteSet(Handlers) /\ NoResv \notin Resv
    /\ Counts \subseteq Nat /\ MaxFaults \in Nat

VARIABLES
    adv,        \* the provider's ClusterAdvertisement status
    phase,      \* [Resv -> Phases]
    finalizer,  \* [Resv -> BOOLEAN]: ReservationFinalizer is present
    deleting,   \* [Resv -> BOOLEAN]: DeletionTimestamp is set
    released,   \* [Resv -> BOOLEAN]: ChunksReleasedAnnotation is present
    terminated, \* [Resv -> BOOLEAN]: Status.TerminatedAt is set
    peer,       \* [Resv -> PeerStates]: the Peer instruction of the reservation
    hs,         \* [Handlers -> HandlerStates]: where each handler is
    rec,        \* where the reconciler's worker is
    credits,    \* history, [Resv -> 0..2]: credits made for it (2: two or more)
    lost,       \* history: charges no reservation will ever give back
    faults      \* faults so far

resvVars == <<phase, finalizer, deleting, released, terminated, peer>>
vars == <<adv, resvVars, hs, rec, credits, lost, faults>>

Phases == {"Absent", "Live", "Unpeering", "Terminal", "Gone"}
PeerStates == {"none", "armed", "enforced"}

(* reserve, create, rollback: handleReservationCreate;                     *)
(* adjust, mark: handleReservationRelease.                                 *)
HandlerPCs == {"idle", "reserve", "create", "rollback", "adjust", "mark"}
HandlerStates == [pc: HandlerPCs, resv: Resv \cup {NoResv}]
IdleHandler == [pc |-> "idle", resv |-> NoResv]

(* credit, stamp: releaseChunks; finalize: the end of handleDeletion.      *)
WorkerPCs == {"idle", "credit", "stamp", "finalize"}
WorkerStates == [pc: WorkerPCs, resv: Resv \cup {NoResv}, deletion: BOOLEAN]
IdleWorker == [pc |-> "idle", resv |-> NoResv, deletion |-> FALSE]

Exists(r) == phase[r] \notin {"Absent", "Gone"}
Idle(h) == hs[h].pc = "idle"
Goto(h, pc) == hs' = [hs EXCEPT ![h].pc = pc]
Finish(h) == hs' = [hs EXCEPT ![h] = IdleHandler]
CreditFor(r) == credits' = [credits EXCEPT ![r] = IF @ < 2 THEN @ + 1 ELSE 2]

(* The API server drops the object of r, and its instructions with it.     *)
Drop(r) ==
    /\ phase' = [phase EXCEPT ![r] = "Gone"]
    /\ finalizer' = [finalizer EXCEPT ![r] = FALSE]
    /\ deleting' = [deleting EXCEPT ![r] = FALSE]
    /\ released' = [released EXCEPT ![r] = FALSE]
    /\ terminated' = [terminated EXCEPT ![r] = FALSE]
    /\ peer' = [peer EXCEPT ![r] = "none"]

Init ==
    /\ adv = NoAdvertisement
    /\ phase = [r \in Resv |-> "Absent"]
    /\ finalizer = [r \in Resv |-> FALSE]
    /\ deleting = [r \in Resv |-> FALSE]
    /\ released = [r \in Resv |-> FALSE]
    /\ terminated = [r \in Resv |-> FALSE]
    /\ peer = [r \in Resv |-> "none"]
    /\ hs = [h \in Handlers |-> IdleHandler]
    /\ rec = IdleWorker
    /\ credits = [r \in Resv |-> 0]
    /\ lost = 0
    /\ faults = 0

-----------------------------------------------------------------------------
(* POST /api/v1/reservations                                               *)

(* handleReservationCreate up to the idempotency check: the provider is    *)
(* Available and no reservation has this name; otherwise the handler       *)
(* answers without a write (404, 503, 200 or 409) and nothing happens.     *)
CreateBegin(h, r) ==
    /\ Idle(h)
    /\ adv.available
    /\ phase[r] = "Absent"
    /\ hs' = [hs EXCEPT ![h] = [pc |-> "reserve", resv |-> r]]
    /\ UNCHANGED <<adv, resvVars, rec, credits, lost, faults>>

(* Mutant: the availability seen by an earlier read is trusted. *)
ReserveUnchecked(h) ==
    /\ hs[h].pc = "reserve"
    /\ adv' = Charged(adv) /\ Goto(h, "create")
    /\ UNCHANGED <<resvVars, rec, credits, lost, faults>>

(* reserveChunks: check and increment on one read, or reject with 409.     *)
ReserveChunks(h) ==
    /\ hs[h].pc = "reserve"
    /\ IF adv.free >= 1
       THEN adv' = Charged(adv) /\ Goto(h, "create")
       ELSE adv' = adv /\ Finish(h)
    /\ UNCHANGED <<resvVars, rec, credits, lost, faults>>

(* Mutant: AlreadyExists is answered without the rollback. *)
CreateWithoutRollback(h) ==
    /\ hs[h].pc = "create"
    /\ phase' = [phase EXCEPT ![hs[h].resv] = IF @ = "Absent" THEN "Live" ELSE @]
    /\ Finish(h)
    /\ UNCHANGED <<adv, finalizer, deleting, released, terminated, peer, rec,
                   credits, lost, faults>>

(* client.Create(resv): a twin request with the same X-Reservation-Id may  *)
(* have created the object first, and then the charge is rolled back.  The *)
(* status write that follows (initReservationStatus, best effort) turns    *)
(* the phase "" into Pending; both are Live.                               *)
CreateReservation(h) ==
    LET r == hs[h].resv IN
    /\ hs[h].pc = "create"
    /\ IF phase[r] = "Absent"
       THEN phase' = [phase EXCEPT ![r] = "Live"] /\ Finish(h)
       ELSE phase' = phase /\ Goto(h, "rollback")
    /\ UNCHANGED <<adv, finalizer, deleting, released, terminated, peer, rec,
                   credits, lost, faults>>

(* client.Create failed for another reason: same rollback.                 *)
CreateFails(h) ==
    /\ hs[h].pc = "create"
    /\ faults < MaxFaults
    /\ faults' = faults + 1
    /\ Goto(h, "rollback")
    /\ UNCHANGED <<adv, resvVars, rec, credits, lost>>

(* adjustReservedChunks(-ChunkCount) after a failed create.                *)
Rollback(h) ==
    /\ hs[h].pc = "rollback"
    /\ adv' = Credited(adv)
    /\ Finish(h)
    /\ UNCHANGED <<resvVars, rec, credits, lost, faults>>

-----------------------------------------------------------------------------
(* DELETE /api/v1/reservations/{id}                                        *)

(* Mutant: the reservation is marked without being credited. *)
ReleaseBeginMarksOnly(h, r) ==
    /\ Idle(h)
    /\ phase[r] = "Live"
    /\ phase' = [phase EXCEPT ![r] = "Unpeering"]
    /\ hs' = [hs EXCEPT ![h] = [pc |-> "mark", resv |-> r]]
    /\ UNCHANGED <<adv, finalizer, deleting, released, terminated, peer, rec,
                   credits, lost, faults>>

(* handleReservationRelease up to the status write: a reservation already  *)
(* Unpeering or terminal is answered 202 without a write.                  *)
ReleaseBegin(h, r) ==
    /\ Idle(h)
    /\ phase[r] = "Live"
    /\ phase' = [phase EXCEPT ![r] = "Unpeering"]
    /\ hs' = [hs EXCEPT ![h] = [pc |-> "adjust", resv |-> r]]
    /\ UNCHANGED <<adv, finalizer, deleting, released, terminated, peer, rec,
                   credits, lost, faults>>

(* adjustReservedChunks(-ChunkCount): ChunksReleased is not consulted.     *)
ReleaseAdjust(h) ==
    /\ hs[h].pc = "adjust"
    /\ adv' = Credited(adv)
    /\ CreditFor(hs[h].resv)
    /\ Goto(h, "mark")
    /\ UNCHANGED <<resvVars, rec, lost, faults>>

(* markChunksReleased: re-read by name and set the annotation; an object   *)
(* that is gone is an error the handler only logs.                         *)
MarkChunksReleased(h) ==
    LET r == hs[h].resv IN
    /\ hs[h].pc = "mark"
    /\ released' = IF Exists(r) THEN [released EXCEPT ![r] = TRUE] ELSE released
    /\ Finish(h)
    /\ UNCHANGED <<adv, phase, finalizer, deleting, terminated, peer, rec,
                   credits, lost, faults>>

-----------------------------------------------------------------------------
(* The Reservation reconciler's worker: one pass at a time                 *)

WorkerIdle == rec.pc = "idle"

(* Reconcile on a live object without the finalizer: it is added first.    *)
AddFinalizer(r) ==
    /\ WorkerIdle
    /\ Exists(r) /\ ~deleting[r] /\ ~finalizer[r]
    /\ finalizer' = [finalizer EXCEPT ![r] = TRUE]
    /\ UNCHANGED <<adv, phase, deleting, released, terminated, peer, hs, rec,
                   credits, lost, faults>>

(* Mutant: the credit is attempted on the pass that stamps TerminatedAt    *)
(* and on no later one.                                                    *)
HandleTerminalOnce(r) ==
    /\ WorkerIdle
    /\ phase[r] = "Terminal" /\ ~deleting[r] /\ finalizer[r] /\ ~terminated[r]
    /\ terminated' = [terminated EXCEPT ![r] = TRUE]
    /\ rec' = IF released[r] THEN rec
              ELSE [pc |-> "credit", resv |-> r, deletion |-> FALSE]
    /\ UNCHANGED <<adv, phase, finalizer, deleting, released, peer, hs,
                   credits, lost, faults>>

(* handleTerminal: stamp TerminatedAt, then releaseChunks unless the       *)
(* reservation, as read at the start of the pass, carries the annotation.  *)
HandleTerminal(r) ==
    /\ WorkerIdle
    /\ phase[r] = "Terminal" /\ ~deleting[r] /\ finalizer[r]
    /\ ~terminated[r] \/ ~released[r]
    /\ terminated' = [terminated EXCEPT ![r] = TRUE]
    /\ rec' = IF released[r] THEN rec
              ELSE [pc |-> "credit", resv |-> r, deletion |-> FALSE]
    /\ UNCHANGED <<adv, phase, finalizer, deleting, released, peer, hs,
                   credits, lost, faults>>

(* handleTerminal after TerminalTTL, on a pass that did not stamp          *)
(* TerminatedAt itself: delete the object, which the finalizer holds.      *)
CollectTerminal(r) ==
    /\ WorkerIdle
    /\ phase[r] = "Terminal" /\ ~deleting[r] /\ finalizer[r] /\ terminated[r]
    /\ deleting' = [deleting EXCEPT ![r] = TRUE]
    /\ UNCHANGED <<adv, phase, finalizer, released, terminated, peer, hs, rec,
                   credits, lost, faults>>

(* handleDeletion: releaseChunks unless annotated, then the finalizer.     *)
HandleDeletion(r) ==
    /\ WorkerIdle
    /\ Exists(r) /\ deleting[r] /\ finalizer[r]
    /\ rec' = [pc |-> IF released[r] THEN "finalize" ELSE "credit",
               resv |-> r, deletion |-> TRUE]
    /\ UNCHANGED <<adv, resvVars, hs, credits, lost, faults>>

(* releaseChunks, the write to the ClusterAdvertisement.                   *)
ReleaseChunks ==
    /\ rec.pc = "credit"
    /\ adv' = Credited(adv)
    /\ CreditFor(rec.resv)
    /\ rec' = [rec EXCEPT !.pc = "stamp"]
    /\ UNCHANGED <<resvVars, hs, lost, faults>>

(* stampChunksReleased, the write to the Reservation.                      *)
StampChunksReleased ==
    /\ rec.pc = "stamp"
    /\ released' = [released EXCEPT ![rec.resv] = TRUE]
    /\ rec' = IF rec.deletion THEN [rec EXCEPT !.pc = "finalize"] ELSE IdleWorker
    /\ UNCHANGED <<adv, phase, finalizer, deleting, terminated, peer, hs,
                   credits, lost, faults>>

(* RemoveFinalizer: the API server drops the object.                       *)
RemoveFinalizer ==
    /\ rec.pc = "finalize"
    /\ Drop(rec.resv)
    /\ rec' = IdleWorker
    /\ UNCHANGED <<adv, hs, credits, lost, faults>>

(* A write of the pass fails (an error, or three conflicts in a row): the  *)
(* pass ends and the reservation is queued again.                          *)
PassFails ==
    /\ ~WorkerIdle
    /\ faults < MaxFaults
    /\ faults' = faults + 1
    /\ rec' = IdleWorker
    /\ UNCHANGED <<adv, resvVars, hs, credits, lost>>

-----------------------------------------------------------------------------
(* The rest of the Broker, the provider and the operators                  *)

(* handleKubeconfigReady queues the reservation's Peer instruction.        *)
IssuePeer(r) ==
    /\ WorkerIdle
    /\ phase[r] = "Live" /\ finalizer[r] /\ ~deleting[r]
    /\ peer[r] = "none"
    /\ peer' = [peer EXCEPT ![r] = "armed"]
    /\ UNCHANGED <<adv, phase, finalizer, deleting, released, terminated, hs,
                   rec, credits, lost, faults>>

(* applyPeerPayload: a successful Peer makes the reservation Peered,       *)
(* whatever its phase was.                                                 *)
PeerSucceeds(r) ==
    /\ Exists(r) /\ peer[r] = "armed"
    /\ peer' = [peer EXCEPT ![r] = "enforced"]
    /\ phase' = [phase EXCEPT ![r] = "Live"]
    /\ UNCHANGED <<adv, finalizer, deleting, released, terminated, hs, rec,
                   credits, lost, faults>>

(* Released by the Unpeer result, Expired or Failed by the reconciler, or  *)
(* Failed by a result or by an expired instruction.  All of these follow a *)
(* pass of the reconciler over the reservation, hence the finalizer.       *)
Terminate(r) ==
    /\ phase[r] \in {"Live", "Unpeering"} /\ finalizer[r]
    /\ phase' = [phase EXCEPT ![r] = "Terminal"]
    /\ UNCHANGED <<adv, finalizer, deleting, released, terminated, peer, hs,
                   rec, credits, lost, faults>>

(* POST /api/v1/advertisements, the status half.                           *)
Report(count) ==
    /\ adv' = Touched(adv, count)
    /\ adv' # adv
    /\ UNCHANGED <<resvVars, hs, rec, credits, lost, faults>>

(* ClusterAdvertisementReconciler: no report for longer than StaleAfter.   *)
GoStale ==
    /\ adv.available \/ adv.free # 0
    /\ adv' = Staled(adv)
    /\ UNCHANGED <<resvVars, hs, rec, credits, lost, faults>>

(* kubectl delete reservation: without the finalizer the object goes at    *)
(* once, and an uncredited charge with it.                                 *)
UserDelete(r) ==
    /\ Exists(r) /\ ~deleting[r]
    /\ IF finalizer[r]
       THEN /\ deleting' = [deleting EXCEPT ![r] = TRUE]
            /\ UNCHANGED <<phase, finalizer, released, terminated, peer, lost>>
       ELSE /\ Drop(r)
            /\ lost' = IF credits[r] = 0 THEN lost + 1 ELSE lost
    /\ UNCHANGED <<adv, hs, rec, credits, faults>>

(* Handlers between the charge and the object that stands for it.          *)
Charging == {h \in Handlers : hs[h].pc \in {"create", "rollback"}}

(* A handler is cut short: its request context is cancelled, which fails   *)
(* all its later calls, the rollback included, or a write fails for good.  *)
CutShort(h) ==
    /\ ~Idle(h)
    /\ faults < MaxFaults
    /\ faults' = faults + 1
    /\ lost' = IF h \in Charging THEN lost + 1 ELSE lost
    /\ Finish(h)
    /\ UNCHANGED <<adv, resvVars, rec, credits>>

(* The Broker's pod is replaced: goroutines vanish, objects stay.          *)
Crash ==
    /\ ~WorkerIdle \/ \E h \in Handlers : ~Idle(h)
    /\ faults < MaxFaults
    /\ faults' = faults + 1
    /\ lost' = lost + Cardinality(Charging)
    /\ hs' = [h \in Handlers |-> IdleHandler]
    /\ rec' = IdleWorker
    /\ UNCHANGED <<adv, resvVars, credits>>

-----------------------------------------------------------------------------

HandlerStep(h) ==
    \/ ReserveChunks(h) \/ CreateReservation(h) \/ Rollback(h)
    \/ ReleaseAdjust(h) \/ MarkChunksReleased(h)

WorkerStep == ReleaseChunks \/ StampChunksReleased \/ RemoveFinalizer

Next ==
    \/ \E h \in Handlers : \E r \in Resv : CreateBegin(h, r) \/ ReleaseBegin(h, r)
    \/ \E h \in Handlers : HandlerStep(h) \/ CreateFails(h) \/ CutShort(h)
    \/ \E r \in Resv : AddFinalizer(r) \/ HandleTerminal(r) \/ CollectTerminal(r)
                       \/ HandleDeletion(r)
    \/ WorkerStep \/ PassFails
    \/ \E r \in Resv : IssuePeer(r) \/ PeerSucceeds(r) \/ Terminate(r) \/ UserDelete(r)
    \/ \E count \in Counts : Report(count)
    \/ GoStale
    \/ Crash

Spec == Init /\ [][Next]_vars

(* A started handler runs on, and the reconciler comes back to an object   *)
(* that needs it: handleTerminal always requeues, an error is retried with *)
(* back-off, and a deletion is an event on the object.                     *)
Fairness ==
    /\ \A h \in Handlers : WF_vars(HandlerStep(h))
    /\ WF_vars(WorkerStep)
    /\ \A r \in Resv : WF_vars(HandleTerminal(r)) /\ WF_vars(HandleDeletion(r))

FairSpec == Spec /\ Fairness

-----------------------------------------------------------------------------
(* Properties                                                              *)

TypeOK ==
    /\ adv \in AdvertisementStatus
    /\ phase \in [Resv -> Phases]
    /\ finalizer \in [Resv -> BOOLEAN]
    /\ deleting \in [Resv -> BOOLEAN]
    /\ released \in [Resv -> BOOLEAN]
    /\ terminated \in [Resv -> BOOLEAN]
    /\ peer \in [Resv -> PeerStates]
    /\ hs \in [Handlers -> HandlerStates]
    /\ rec \in WorkerStates
    /\ credits \in [Resv -> 0..2]
    /\ lost \in Nat
    /\ faults \in 0..MaxFaults

(* The free count that reserveChunks trusts never exceeds what the counter *)
(* leaves, though five different writers maintain the two fields.          *)
FreeIsCovered == adv.free <= Monus(adv.total, adv.reserved)

(* The annotation is only ever on a reservation whose chunk has come back, *)
(* so IsChunksReleased never suppresses the credit that is still owed.     *)
MarkedMeansCredited == \A r \in Resv : released[r] => credits[r] > 0

(* Charges that something still stands for.                                *)
Uncredited == {r \in Resv : Exists(r) /\ credits[r] = 0}

(* No chunk stays reserved without a reason: the counter is covered by the *)
(* uncredited reservations, the creates in flight and the charges lost to  *)
(* a cut-short create, a crash, or a delete that beat the finalizer.       *)
NoSilentLeak ==
    adv.reserved <= Cardinality(Uncredited) + Cardinality(Charging) + lost

(* handleTerminal is the safety net: a reservation that died gets its      *)
(* chunk credited, unless a late Peer result makes it live again.  One     *)
(* that is deleted is finalized in the end and only with its chunk         *)
(* credited: the finalizer holds the object until releaseChunks succeeded. *)
EndedIsCredited ==
    \A r \in Resv :
        /\ (phase[r] = "Terminal") ~> (credits[r] > 0 \/ phase[r] = "Live")
        /\ (deleting[r]) ~> (phase[r] = "Gone" /\ credits[r] > 0)

(* The ledger implements the abstract gate: whatever interleaving of       *)
(* handlers, reports and credits, no reservation is admitted at a moment   *)
(* when as many chunks are out as the provider offers.                     *)
Gate == INSTANCE AdmissionGate WITH offered <- adv.total, out <- adv.reserved
ImplementsGate == Gate!Spec

(* common_types.go: "Both call sites check the annotation before           *)
(* decrementing, so double-release is impossible."                         *)
NoDoubleRelease == \A r \in Resv : credits[r] <= 1
=============================================================================
