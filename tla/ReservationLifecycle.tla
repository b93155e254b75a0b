------------------------ MODULE ReservationLifecycle ------------------------
(***************************************************************************)
(* The reservations between one consumer and one provider: the phase       *)
(* machine, the instructions the Broker queues for the two agents, what    *)
(* the agents do with them, and the peering-user credential the            *)
(* reservations of the pair share.                                         *)
(*                                                                         *)
(*   Broker     ReservationReconciler (one action per phase handler), the  *)
(*              instruction reconcilers, the result handler, POST and      *)
(*              DELETE /api/v1/reservations;                               *)
(*   Provider   the poll loop with GenerateKubeconfig and Cleanup;         *)
(*   Consumer   the poll loop with Peer, Unpeer and Cleanup.               *)
(*                                                                         *)
(* A pass of the reconciler, whose worker is single, is one step, or is    *)
(* cut short between two of its writes (PassCutShort).  An agent's         *)
(* dispatch is one step as well: what its handler does on the cluster      *)
(* before it succeeds or fails part-way, and the post of its result, which *)
(* may get lost or be applied in part.  Agents act on the copies of the    *)
(* instructions that their last poll returned, in any order: the Broker    *)
(* lists them from an unordered cache.  Chunk counters and the finalizer   *)
(* are in ChunkLedger.                                                     *)
(***************************************************************************)
EXTENDS Naturals

CONSTANTS
    Resv,       \* names of the pair's reservations
    NoResv,     \* the reservation of an instruction that does not exist
    Expiring,   \* the reservations whose ExpiresAt may pass
    Deletable,  \* the reservations deleted by an operator or after TerminalTTL
    MaxFaults   \* bound on lost results and writes, failed calls, restarts

ASSUME LifecycleAssumption ==
    NoResv \notin Resv /\ Expiring \subseteq Resv /\ Deletable \subseteq Resv
    /\ MaxFaults \in Nat

VARIABLES
    phase,      \* [Resv -> Phases]: Status.Phase
    deleting,   \* [Resv -> BOOLEAN]: DeletionTimestamp is set
    terminated, \* [Resv -> BOOLEAN]: Status.TerminatedAt is set
    due,        \* [Resv -> BOOLEAN]: Status.ExpiresAt has passed
    gk, pcl,    \* the pair's ProviderInstructions gk-<c>-<p> and pcleanup-<c>-<p>
    ri,         \* [Resv -> [RIKinds -> ...]]: the ReservationInstructions
    secret,     \* the credential in the Broker's staging Secret
    provUp,     \* the provider's ClusterAdvertisement is Available
    user,       \* the provider has a peering-user for the consumer
    pbox,       \* the provider agent's undispatched instructions
    kc,         \* [Resv -> Creds]: the consumer's Secret kubeconfig-<resv>
    node,       \* [Resv -> BOOLEAN]: its ResourceSlice, hence a virtual node
    tunnel,     \* the consumer's Liqo peering with the provider is in place
    cbox,       \* the consumer agent's undispatched instructions
    missed,     \* [Resv -> BOOLEAN]: a failure was marked, its phase not written
    faults

resvVars == <<phase, deleting, terminated, due>>
provVars == <<user, pbox>>
consVars == <<kc, node, tunnel, cbox>>
vars == <<resvVars, gk, pcl, ri, secret, provUp, provVars, consVars, missed,
          faults>>

Terminal == {"Released", "Expired", "Failed"}
InFlight == {"Pending", "GeneratingKubeconfig", "KubeconfigReady", "Peering"}
Phases == InFlight \cup {"Peered", "Unpeering", "Absent", "Gone"} \cup Terminal

States == {"none", "armed", "enforced"}   \* missing, to be delivered, done
RIKinds == {"Peer", "Unpeer", "Cleanup"}
PIs == {pi \in [st: States, resv: Resv \cup {NoResv}] :
            pi.st # "none" => pi.resv \in Resv}
RIs == [st: States, last: BOOLEAN, owned: BOOLEAN]
NoPI == [st |-> "none", resv |-> NoResv]
NoRI == [st |-> "none", last |-> FALSE, owned |-> FALSE]

(* No kubeconfig, one of the current peering-user, one of a deleted one.   *)
Creds == {"none", "live", "dead"}
Revoked(cred) == IF cred = "live" THEN "dead" ELSE cred

Views == [kind: RIKinds, resv: Resv, last: BOOLEAN, cred: Creds]

Exists(r) == phase[r] \notin {"Absent", "Gone"}

Init ==
    /\ phase = [r \in Resv |-> "Absent"]
    /\ deleting = [r \in Resv |-> FALSE]
    /\ terminated = [r \in Resv |-> FALSE]
    /\ due = [r \in Resv |-> FALSE]
    /\ gk = NoPI /\ pcl = NoPI
    /\ ri = [r \in Resv |-> [k \in RIKinds |-> NoRI]]
    /\ secret = "none"
    /\ provUp = TRUE
    /\ user = FALSE /\ pbox = {}
    /\ kc = [r \in Resv |-> "none"]
    /\ node = [r \in Resv |-> FALSE]
    /\ tunnel = FALSE /\ cbox = {}
    /\ missed = [r \in Resv |-> FALSE]
    /\ faults = 0

-----------------------------------------------------------------------------
(* Reconciler helpers                                                      *)

SetPhase(r, p) == phase' = [phase EXCEPT ![r] = p]

(* anyOtherSibling with the predicates of hasOtherActiveReservation and    *)
(* hasOtherHoldingReservation.                                             *)
OtherSibling(r, outside) ==
    \E s \in Resv \ {r} : Exists(s) /\ ~deleting[s] /\ phase[s] \notin outside
(* Mutant: siblings are not ref-counted. *)
OtherActiveUnchecked(r) == FALSE

OtherActive(r) == OtherSibling(r, Terminal)
OtherHolding(r) == OtherSibling(r, Terminal \cup {"Unpeering"})

(* Mutant: an enforced copy is not re-armed. *)
ArmedOnce(pi, r) == IF pi.st # "none" THEN pi ELSE [st |-> "armed", resv |-> r]

(* ensureSharedInstruction: create, or re-arm an enforced copy; a copy     *)
(* still in flight is left alone.                                          *)
Armed(pi, r) == IF pi.st = "armed" THEN pi ELSE [st |-> "armed", resv |-> r]

(* ensureInstruction, and ensureSharedInstruction of a                     *)
(* ReservationInstruction: an existing copy is left alone.                 *)
Queued(r, kind, last, owned) ==
    IF ri[r][kind].st # "none" THEN ri
    ELSE [ri EXCEPT ![r][kind] = [st |-> "armed", last |-> last, owned |-> owned]]

(* emitConsumerCleanup *)
CleanupQueued(r, owned) == Queued(r, "Cleanup", ~OtherHolding(r), owned)

(* Past the guards of Reconcile: checkExpired, checkProviderAvailable.     *)
Reconciled(r) == Exists(r) /\ ~deleting[r]
Proceeds(r) == Reconciled(r) /\ ~due[r] /\ provUp

-----------------------------------------------------------------------------
(* ReservationReconciler                                                   *)

(* Mutant: a reservation that reached Peered is not expired. *)
CheckExpiredInFlight(r) ==
    /\ Reconciled(r) /\ due[r] /\ phase[r] \in InFlight
    /\ SetPhase(r, "Expired")
    /\ UNCHANGED <<deleting, terminated, due, gk, pcl, ri, secret, provUp,
                   provVars, consVars, missed, faults>>

(* checkExpired *)
CheckExpired(r) ==
    /\ Reconciled(r) /\ due[r] /\ phase[r] \notin Terminal
    /\ SetPhase(r, "Expired")
    /\ UNCHANGED <<deleting, terminated, due, gk, pcl, ri, secret, provUp,
                   provVars, consVars, missed, faults>>

(* checkProviderAvailable *)
CheckProviderAvailable(r) ==
    /\ Reconciled(r) /\ ~due[r] /\ ~provUp
    /\ phase[r] \notin Terminal \cup {"Unpeering"}
    /\ ri' = IF phase[r] \in {"Peering", "Peered"} THEN CleanupQueued(r, TRUE) ELSE ri
    /\ SetPhase(r, "Failed")
    /\ UNCHANGED <<deleting, terminated, due, gk, pcl, secret, provUp,
                   provVars, consVars, missed, faults>>

(* handlePending: reuse the pair's staged credential, or ask for one.      *)
HandlePending(r) ==
    /\ Proceeds(r) /\ phase[r] = "Pending"
    /\ IF secret # "none"
       THEN SetPhase(r, "KubeconfigReady") /\ UNCHANGED gk
       ELSE SetPhase(r, "GeneratingKubeconfig") /\ gk' = Armed(gk, r)
    /\ UNCHANGED <<deleting, terminated, due, pcl, ri, secret, provUp,
                   provVars, consVars, missed, faults>>

(* handleGeneratingKubeconfig, on the gkResync tick that finds the Secret. *)
HandleGeneratingKubeconfig(r) ==
    /\ Proceeds(r) /\ phase[r] = "GeneratingKubeconfig"
    /\ secret # "none"
    /\ SetPhase(r, "KubeconfigReady")
    /\ UNCHANGED <<deleting, terminated, due, gk, pcl, ri, secret, provUp,
                   provVars, consVars, missed, faults>>

(* handleKubeconfigReady *)
HandleKubeconfigReady(r) ==
    /\ Proceeds(r) /\ phase[r] = "KubeconfigReady"
    /\ ri' = Queued(r, "Peer", FALSE, TRUE)
    /\ SetPhase(r, "Peering")
    /\ UNCHANGED <<deleting, terminated, due, gk, pcl, secret, provUp,
                   provVars, consVars, missed, faults>>

(* handleUnpeering *)
HandleUnpeering(r) ==
    /\ Reconciled(r) /\ ~due[r] /\ phase[r] = "Unpeering"
    /\ ri' = Queued(r, "Unpeer", ~OtherHolding(r), TRUE)
    /\ UNCHANGED <<resvVars, gk, pcl, secret, provUp, provVars, consVars, missed, faults>>

(* Mutant: the credential is looked at on the first terminal pass only. *)
HandleTerminalOnce(r) ==
    /\ Reconciled(r) /\ phase[r] \in Terminal /\ ~terminated[r]
    /\ terminated' = [terminated EXCEPT ![r] = TRUE]
    /\ ri' = IF secret = "none" THEN ri ELSE CleanupQueued(r, FALSE)
    /\ IF secret = "none" \/ OtherActive(r)
       THEN UNCHANGED <<pcl, secret>>
       ELSE pcl' = Armed(pcl, r) /\ secret' = "none"
    /\ UNCHANGED <<phase, deleting, due, gk, provUp, provVars, consVars, missed, faults>>

(* handleTerminal before TerminalTTL.  Without the staging Secret nothing  *)
(* is queued; the pair's credential goes with its last active reservation. *)
HandleTerminal(r) ==
    /\ Reconciled(r) /\ phase[r] \in Terminal
    /\ terminated' = [terminated EXCEPT ![r] = TRUE]
    /\ ri' = IF secret = "none" THEN ri ELSE CleanupQueued(r, FALSE)
    /\ IF secret = "none" \/ OtherActive(r)
       THEN UNCHANGED <<pcl, secret>>
       ELSE pcl' = Armed(pcl, r) /\ secret' = "none"
    /\ UNCHANGED <<phase, deleting, due, gk, provUp, provVars, consVars, missed, faults>>

(* handleTerminal after TerminalTTL, on a later pass than the first.       *)
CollectTerminal(r) ==
    /\ r \in Deletable
    /\ Reconciled(r) /\ phase[r] \in Terminal /\ terminated[r]
    /\ deleting' = [deleting EXCEPT ![r] = TRUE]
    /\ UNCHANGED <<phase, terminated, due, gk, pcl, ri, secret, provUp,
                   provVars, consVars, missed, faults>>

(* handleDeletion: queue the un-owned Cleanup, then drop the finalizer.    *)
HandleDeletion(r) ==
    /\ Exists(r) /\ deleting[r]
    /\ ri' = CleanupQueued(r, FALSE)
    /\ SetPhase(r, "Gone")
    /\ deleting' = [deleting EXCEPT ![r] = FALSE]
    /\ terminated' = [terminated EXCEPT ![r] = FALSE]
    /\ UNCHANGED <<due, gk, pcl, secret, provUp, provVars, consVars, missed, faults>>

(* The first `n` instructions that the pass on r would queue are written,  *)
(* and then a write fails, or the Broker restarts: the phase, the Secret   *)
(* and the finalizer stay as they are, and a later pass starts over.       *)
(* TerminatedAt is stamped before a terminal pass queues anything.         *)
PassCutShort(r, n) ==
    /\ Exists(r) /\ faults < MaxFaults /\ faults' = faults + 1
    /\ \/ /\ n = 1 /\ Proceeds(r) /\ phase[r] = "Pending" /\ secret = "none"
          /\ gk' = Armed(gk, r) /\ UNCHANGED <<pcl, ri>>
       \/ /\ n = 1 /\ Proceeds(r) /\ phase[r] = "KubeconfigReady"
          /\ ri' = Queued(r, "Peer", FALSE, TRUE) /\ UNCHANGED <<gk, pcl>>
       \/ /\ n = 1 /\ Reconciled(r) /\ ~due[r] /\ ~provUp
          /\ phase[r] \in {"Peering", "Peered"}
          /\ ri' = CleanupQueued(r, TRUE) /\ UNCHANGED <<gk, pcl>>
       \/ /\ Reconciled(r) /\ phase[r] \in Terminal /\ secret # "none"
          /\ n = 2 => ~OtherActive(r)
          /\ ri' = IF n = 0 THEN ri ELSE CleanupQueued(r, FALSE)
          /\ pcl' = IF n = 2 THEN Armed(pcl, r) ELSE pcl
          /\ UNCHANGED gk
       \/ /\ n = 1 /\ deleting[r]
          /\ ri' = CleanupQueued(r, FALSE) /\ UNCHANGED <<gk, pcl>>
    /\ terminated' = [terminated EXCEPT
                         ![r] = @ \/ (phase[r] \in Terminal /\ ~deleting[r])]
    /\ UNCHANGED <<phase, deleting, due, secret, provUp, provVars, consVars, missed>>

-----------------------------------------------------------------------------
(* Instruction reconcilers and the API server's garbage collector          *)

(* failParentReservationOnExpiry *)
FailedParent(r) ==
    IF r \in Resv /\ Exists(r) /\ phase[r] \notin Terminal
    THEN [phase EXCEPT ![r] = "Failed"] ELSE phase

(* ProviderInstructionReconciler: enforced for EnforcedTTL, or past its    *)
(* ExpiresAt, which only a GenerateKubeconfig has.                         *)
BookkeepGK ==
    /\ \/ gk.st = "enforced" /\ UNCHANGED phase
       \/ gk.st = "armed" /\ due[gk.resv] /\ phase' = FailedParent(gk.resv)
    /\ gk' = NoPI
    /\ UNCHANGED <<deleting, terminated, due, pcl, ri, secret, provUp,
                   provVars, consVars, missed, faults>>

BookkeepProviderCleanup ==
    /\ pcl.st = "enforced"
    /\ pcl' = NoPI
    /\ UNCHANGED <<resvVars, gk, ri, secret, provUp, provVars, consVars, missed, faults>>

(* ReservationInstructionReconciler: same, and only a Peer has ExpiresAt.  *)
BookkeepRI(r, kind) ==
    /\ \/ ri[r][kind].st = "enforced" /\ UNCHANGED phase
       \/ kind = "Peer" /\ ri[r][kind].st = "armed" /\ due[r]
          /\ phase' = FailedParent(r)
    /\ ri' = [ri EXCEPT ![r][kind] = NoRI]
    /\ UNCHANGED <<deleting, terminated, due, gk, pcl, secret, provUp,
                   provVars, consVars, missed, faults>>

(* Owner references: an owned instruction follows its reservation, later.  *)
CascadeDelete(r, kind) ==
    /\ phase[r] = "Gone" /\ ri[r][kind].st # "none" /\ ri[r][kind].owned
    /\ ri' = [ri EXCEPT ![r][kind] = NoRI]
    /\ UNCHANGED <<resvVars, gk, pcl, secret, provUp, provVars, consVars, missed, faults>>

-----------------------------------------------------------------------------
(* Requests, operators and time                                            *)

(* handleReservationCreate; the charge is in ChunkLedger.                  *)
Create(r) ==
    /\ provUp /\ phase[r] = "Absent"
    /\ SetPhase(r, "Pending")
    /\ UNCHANGED <<deleting, terminated, due, gk, pcl, ri, secret, provUp,
                   provVars, consVars, missed, faults>>

(* Mutant: a terminal reservation can be released again. *)
ReleaseAny(r) ==
    /\ Exists(r)
    /\ SetPhase(r, "Unpeering")
    /\ UNCHANGED <<deleting, terminated, due, gk, pcl, ri, secret, provUp,
                   provVars, consVars, missed, faults>>

(* handleReservationRelease *)
Release(r) ==
    /\ phase[r] \in InFlight \cup {"Peered"}
    /\ SetPhase(r, "Unpeering")
    /\ UNCHANGED <<deleting, terminated, due, gk, pcl, ri, secret, provUp,
                   provVars, consVars, missed, faults>>

(* kubectl delete reservation *)
UserDelete(r) ==
    /\ r \in Deletable
    /\ Exists(r) /\ ~deleting[r]
    /\ deleting' = [deleting EXCEPT ![r] = TRUE]
    /\ UNCHANGED <<phase, terminated, due, gk, pcl, ri, secret, provUp,
                   provVars, consVars, missed, faults>>

(* ExpiresAt, stamped or backfilled by ensureExpiry, goes by.              *)
Deadline(r) ==
    /\ r \in Expiring
    /\ phase[r] # "Absent" /\ ~due[r]
    /\ due' = [due EXCEPT ![r] = TRUE]
    /\ UNCHANGED <<phase, deleting, terminated, gk, pcl, ri, secret, provUp,
                   provVars, consVars, missed, faults>>

(* The provider's reports stop for StaleAfter, or come back.               *)
ProviderFlips ==
    /\ \/ provUp /\ faults < MaxFaults /\ faults' = faults + 1
       \/ ~provUp /\ UNCHANGED faults
    /\ provUp' = ~provUp
    /\ UNCHANGED <<resvVars, gk, pcl, ri, secret, provVars, consVars, missed>>

-----------------------------------------------------------------------------
(* Results.  What becomes of a posted result: applied; applied but for the *)
(* Enforced mark, whose update is not retried; applied but for the phase   *)
(* of the reservation, whose update is best-effort; or lost on the way.    *)

Outcomes == {"applied", "unmarked", "unphased", "lost"}
Accounted(faulty) ==
    IF faulty THEN faults < MaxFaults /\ faults' = faults + 1 ELSE faults' = faults
Marked(i, o) ==
    IF o \in {"applied", "unphased"} THEN [i EXCEPT !.st = "enforced"] ELSE i

-----------------------------------------------------------------------------
(* Provider agent                                                          *)

(* collectInstructionsForCaller for the provider, and the tick's batch.    *)
ProviderPoll ==
    /\ pbox = {}
    /\ pbox' = {k \in {"GenerateKubeconfig", "Cleanup"} :
                   (IF k = "Cleanup" THEN pcl ELSE gk).st = "armed"}
    /\ UNCHANGED <<resvVars, gk, pcl, ri, secret, provUp, user, consVars, missed,
                   faults>>

(* applyProviderResult on the reservation, in phase p, that the            *)
(* GenerateKubeconfig names: a delivered kubeconfig moves it on before the *)
(* mark, a failure fails it, in any phase, after the mark.                 *)
AfterGenerate(p, minted, o) ==
    CASE minted /\ p = "GeneratingKubeconfig" /\ o # "unphased" -> "KubeconfigReady"
      [] ~minted /\ o = "applied" -> "Failed"
      [] OTHER -> p

(* How far liqoctl generate peering-user gets. *)
Mintings == {"nothing", "user", "kubeconfig"}

(* NewGenerateKubeconfigHandler and the post of its result: liqoctl        *)
(* refuses to mint a second peering-user, and may fail after creating one; *)
(* a kubeconfig is staged in the pair's Secret (persistKubeconfigPayload). *)
ProviderGenerate(made, o) ==
    LET minted == made = "kubeconfig"
        open == o # "lost" /\ gk.st = "armed"
    IN
    /\ "GenerateKubeconfig" \in pbox
    /\ user => made = "nothing"
    /\ pbox' = pbox \ {"GenerateKubeconfig"}
    /\ Accounted(o # "applied" \/ (~user /\ ~minted))
    /\ user' = (user \/ made # "nothing")
    /\ secret' = IF open /\ minted THEN "live" ELSE secret
    /\ gk' = IF open THEN Marked(gk, o) ELSE gk
    /\ phase' = IF open /\ Exists(gk.resv)
                THEN [phase EXCEPT ![gk.resv] = AfterGenerate(@, minted, o)]
                ELSE phase
    /\ missed' = IF open /\ ~minted /\ o = "unphased"
                 THEN [missed EXCEPT ![gk.resv] = TRUE] ELSE missed
    /\ UNCHANGED <<deleting, terminated, due, pcl, ri, provUp, consVars>>

(* NewCleanupHandler of the provider: delete the peering-user; not found   *)
(* is success.  Every kubeconfig of that user is dead from here on.  A     *)
(* failed Cleanup is marked Enforced like a successful one.                *)
ProviderCleanup(works, o) ==
    LET after(cred) == IF works THEN Revoked(cred) ELSE cred IN
    /\ "Cleanup" \in pbox
    /\ pbox' = pbox \ {"Cleanup"}
    /\ Accounted(o # "applied" \/ ~works)
    /\ user' = (user /\ ~works)
    /\ secret' = after(secret)
    /\ kc' = [r \in Resv |-> after(kc[r])]
    /\ cbox' = {[v EXCEPT !.cred = after(@)] : v \in cbox}
    /\ pcl' = IF pcl.st = "armed" THEN Marked(pcl, o) ELSE pcl
    /\ UNCHANGED <<resvVars, gk, ri, provUp, node, tunnel, missed>>

ProviderRestart ==
    /\ pbox # {}
    /\ Accounted(TRUE)
    /\ pbox' = {}
    /\ UNCHANGED <<resvVars, gk, pcl, ri, secret, provUp, user, consVars, missed>>

-----------------------------------------------------------------------------
(* Consumer agent                                                          *)

(* collectInstructionsForCaller for the consumer: a Peer is left out while *)
(* the staging Secret is missing, and carries its kubeconfig otherwise.    *)
ConsumerPoll ==
    LET view(r, k) == [kind |-> k, resv |-> r, last |-> ri[r][k].last,
                       cred |-> IF k = "Peer" THEN secret ELSE "none"]
        armed == {x \in Resv \X RIKinds : ri[x[1]][x[2]].st = "armed"}
        sent == {x \in armed : x[2] = "Peer" => secret # "none"}
    IN
    /\ cbox = {}
    /\ cbox' = {view(x[1], x[2]) : x \in sent}
    /\ UNCHANGED <<resvVars, gk, pcl, ri, secret, provUp, provVars, kc, node,
                   tunnel, missed, faults>>

(* Mutant: a failure is marked Enforced but leaves the reservation alone. *)
ApplyResultIgnoringFailures(v, ok, o, onSuccess) ==
    LET r == v.resv
        open == o # "lost" /\ ri[r][v.kind].st = "armed"
    IN
    /\ phase' = IF open /\ ok /\ Exists(r) THEN [phase EXCEPT ![r] = onSuccess] ELSE phase
    /\ missed' = missed
    /\ ri' = IF open THEN [ri EXCEPT ![r][v.kind] = Marked(@, o)] ELSE ri

(* applyReservationResult for the instruction of view v: a failure fails   *)
(* the reservation in any phase; `onSuccess` is its phase after a success. *)
(* A Peer that cannot be recorded is answered 500 and not marked.          *)
ApplyResult(v, ok, o, onSuccess) ==
    LET r == v.resv
        open == o # "lost" /\ ri[r][v.kind].st = "armed"
        refused == ok /\ v.kind = "Peer" /\ (~Exists(r) \/ o = "unphased")
    IN
    /\ phase' = IF open /\ Exists(r) /\ o # "unphased"
                THEN [phase EXCEPT ![r] = IF ok THEN onSuccess ELSE "Failed"]
                ELSE phase
    /\ missed' = IF open /\ ~ok /\ o = "unphased"
                 THEN [missed EXCEPT ![r] = TRUE] ELSE missed
    /\ ri' = IF open /\ ~refused
             THEN [ri EXCEPT ![r][v.kind] = Marked(@, o)] ELSE ri

(* NewPeerHandler, of which the first `n` steps work: (1) the kubeconfig   *)
(* is stored, (2) liqoctl peer, which needs a live peering-user, (3) the   *)
(* ResourceSlice, (4) the VirtualNodeState.  applyPeerPayload makes the    *)
(* reservation Peered, whatever its phase was.                             *)
ConsumerPeer(v, n, o) ==
    LET possible == IF v.cred = "live" THEN 4 ELSE 1 IN
    /\ v.kind = "Peer" /\ n <= possible
    /\ cbox' = cbox \ {v}
    /\ Accounted(o # "applied" \/ n < possible)
    /\ kc' = [kc EXCEPT ![v.resv] = IF n >= 1 THEN v.cred ELSE @]
    /\ tunnel' = (tunnel \/ n >= 2)
    /\ node' = [node EXCEPT ![v.resv] = @ \/ n >= 3]
    /\ ApplyResult(v, n = 4, o, "Peered")
    /\ UNCHANGED <<deleting, terminated, due, gk, pcl, secret, provUp, provVars>>

(* NewUnpeerHandler: (1) VirtualNodeState and ResourceSlice go, (2) for    *)
(* the last chunk liqoctl unpeer, skipped without a kubeconfig and failing *)
(* on a dead one, (3) the kubeconfig goes, (4) for the last chunk the      *)
(* ForeignCluster.  applyUnpeerPayload: Unpeering to Released.             *)
ConsumerUnpeer(v, n, o) ==
    LET r == v.resv
        possible == IF v.last /\ kc[r] = "dead" THEN 1 ELSE 4
        unpeered == n >= 2 /\ (kc[r] = "none" => n = 4)
    IN
    /\ v.kind = "Unpeer" /\ n <= possible
    /\ cbox' = cbox \ {v}
    /\ Accounted(o # "applied" \/ n < possible)
    /\ node' = [node EXCEPT ![r] = @ /\ n = 0]
    /\ kc' = [kc EXCEPT ![r] = IF n >= 3 THEN "none" ELSE @]
    /\ tunnel' = (tunnel /\ ~(v.last /\ unpeered))
    /\ ApplyResult(v, n = 4, o,
                   IF phase[r] = "Unpeering" THEN "Released" ELSE phase[r])
    /\ UNCHANGED <<deleting, terminated, due, gk, pcl, secret, provUp, provVars>>

(* NewCleanupHandler of the consumer: (1) VirtualNodeState and             *)
(* ResourceSlice go, (2) the kubeconfig.  Its success moves no phase, and  *)
(* its failure fails the reservation like any other.                       *)
ConsumerCleanup(v, n, o) ==
    /\ v.kind = "Cleanup" /\ n <= 2
    /\ cbox' = cbox \ {v}
    /\ Accounted(o # "applied" \/ n < 2)
    /\ node' = [node EXCEPT ![v.resv] = @ /\ n = 0]
    /\ kc' = [kc EXCEPT ![v.resv] = IF n = 2 THEN "none" ELSE @]
    /\ ApplyResult(v, n = 2, o, phase[v.resv])
    /\ UNCHANGED <<deleting, terminated, due, gk, pcl, secret, provUp, tunnel,
                   provVars>>

ConsumerRestart ==
    /\ cbox # {}
    /\ Accounted(TRUE)
    /\ cbox' = {}
    /\ UNCHANGED <<resvVars, gk, pcl, ri, secret, provUp, provVars, kc, node, tunnel,
                   missed>>

-----------------------------------------------------------------------------

ReconcileStep(r) ==
    \/ CheckExpired(r) \/ CheckProviderAvailable(r)
    \/ HandlePending(r) \/ HandleGeneratingKubeconfig(r)
    \/ HandleKubeconfigReady(r) \/ HandleUnpeering(r)
    \/ HandleTerminal(r) \/ HandleDeletion(r)

ConsumerDispatch(v, n, o) ==
    ConsumerPeer(v, n, o) \/ ConsumerUnpeer(v, n, o) \/ ConsumerCleanup(v, n, o)

Next ==
    \/ \E r \in Resv : ReconcileStep(r) \/ CollectTerminal(r)
    \/ \E r \in Resv, n \in 0..2 : PassCutShort(r, n)
    \/ BookkeepGK \/ BookkeepProviderCleanup
    \/ \E r \in Resv, k \in RIKinds : BookkeepRI(r, k) \/ CascadeDelete(r, k)
    \/ \E r \in Resv : Create(r) \/ Release(r) \/ UserDelete(r) \/ Deadline(r)
    \/ ProviderFlips
    \/ ProviderPoll \/ ConsumerPoll \/ ProviderRestart \/ ConsumerRestart
    \/ \E o \in Outcomes :
          \/ \E made \in Mintings : ProviderGenerate(made, o)
          \/ \E works \in BOOLEAN : ProviderCleanup(works, o)
          \/ \E v \in cbox, n \in 0..4 : ConsumerDispatch(v, n, o)

Spec == Init /\ [][Next]_vars

(* The reconcilers come back to an object that needs them (events, resync, *)
(* requeue), the instruction reconcilers wake up at EnforcedTTL and        *)
(* ExpiresAt, agents keep polling and work through their batch.  Nothing   *)
(* forces a request, an operator, a deadline, TerminalTTL or a fault.      *)
Fairness ==
    /\ \A r \in Resv : WF_vars(ReconcileStep(r))
    /\ WF_vars(BookkeepGK) /\ WF_vars(BookkeepProviderCleanup)
    /\ \A r \in Resv, k \in RIKinds : WF_vars(BookkeepRI(r, k) \/ CascadeDelete(r, k))
    /\ WF_vars(ProviderPoll) /\ WF_vars(ConsumerPoll)
    /\ WF_vars(\/ \E made \in Mintings : ProviderGenerate(made, "applied")
               \/ ProviderCleanup(TRUE, "applied"))
    /\ WF_vars(\E v \in cbox, n \in 0..4 : ConsumerDispatch(v, n, "applied"))

FairSpec == Spec /\ Fairness

(* Deadlines do pass. *)
TimelySpec == FairSpec /\ \A r \in Resv : WF_vars(Deadline(r))

-----------------------------------------------------------------------------
(* Properties                                                              *)

TypeOK ==
    /\ phase \in [Resv -> Phases]
    /\ deleting \in [Resv -> BOOLEAN]
    /\ terminated \in [Resv -> BOOLEAN]
    /\ due \in [Resv -> BOOLEAN]
    /\ gk \in PIs /\ pcl \in PIs
    /\ ri \in [Resv -> [RIKinds -> RIs]]
    /\ secret \in Creds
    /\ provUp \in BOOLEAN /\ user \in BOOLEAN /\ tunnel \in BOOLEAN
    /\ pbox \subseteq {"GenerateKubeconfig", "Cleanup"}
    /\ kc \in [Resv -> Creds]
    /\ node \in [Resv -> BOOLEAN]
    /\ cbox \subseteq Views
    /\ missed \in [Resv -> BOOLEAN]
    /\ faults \in 0..MaxFaults

(* The shared credential is staged for as long as a reservation is on its  *)
(* way to using it: however siblings end, handleTerminal of one never      *)
(* takes the Secret from under another, whose Peer would otherwise be      *)
(* skipped at every poll until the reservation expires.                    *)
CredentialHeld ==
    \A r \in Resv :
        (phase[r] \in {"KubeconfigReady", "Peering"} /\ ~deleting[r])
            => secret # "none"

(* While nothing fails and nothing is lost, the staged credential is one   *)
(* the provider honours: between the deletion of the Secret, the provider  *)
(* Cleanup and a re-armed GenerateKubeconfig, in any order of delivery, no *)
(* later reservation is handed the kubeconfig of a deleted peering-user.   *)
(* And, unless something expires, no peering-user is forgotten: its        *)
(* kubeconfig is staged, or the provider Cleanup that removes it is        *)
(* queued.  handleTerminal relies on the Secret to know of the user.       *)
CredentialAccounted ==
    faults = 0 =>
        /\ secret # "dead"
        /\ user /\ (\A r \in Resv : ~due[r])
             => secret = "live" \/ pcl.st = "armed"

Rank(p) ==
    CASE p = "Absent" -> 0 [] p = "Pending" -> 1 [] p = "GeneratingKubeconfig" -> 2
      [] p = "KubeconfigReady" -> 3 [] p = "Peering" -> 4 [] p = "Peered" -> 5
      [] p = "Unpeering" -> 6 [] p \in Terminal -> 7 [] p = "Gone" -> 8

Advances(r) ==
    \/ phase'[r] = phase[r]
    \/ Rank(phase[r]) < Rank(phase'[r])
    \/ phase'[r] = "Peered" /\ Exists(r)
    \/ phase'[r] = "Failed" /\ phase[r] \in Terminal

(* Among all the writers of Status.Phase (reconciler, result handler,      *)
(* instruction expiry, DELETE), only a Peer result moves a reservation     *)
(* back; and only to Failed does a terminal phase change otherwise.        *)
PhasesAdvance == [][\A r \in Resv : Advances(r)]_vars

(* A reservation does not wait for an answer for good.  In Peering, a lost *)
(* or unmarked result, a handler that fails part-way, a restart, a pass    *)
(* cut short or a dead credential never leave it without an instruction    *)
(* the consumer will still answer; in GeneratingKubeconfig the one that    *)
(* the instruction names is served, whether the provider succeeds, fails   *)
(* after creating the peering-user or goes away.  Only a failure that the  *)
(* Broker marked without writing the phase leaves one waiting (`missed`).  *)
WaitersAnswered ==
    \A r \in Resv :
        /\ phase[r] = "Peering" ~> (phase[r] # "Peering" \/ missed[r])
        /\ (phase[r] = "GeneratingKubeconfig" /\ gk.st = "armed" /\ gk.resv = r)
             ~> (phase[r] # "GeneratingKubeconfig" \/ missed[r])

(* Past its deadline a reservation ends (checkExpired), whatever the       *)
(* results that still come in make of its phase; and a release that the    *)
(* Broker accepted ends it, even with the provider gone, unless a late     *)
(* Peer result makes it Peered again.                                      *)
EndsWhenDue ==
    \A r \in Resv :
        /\ (due[r] /\ Exists(r)) ~> phase[r] \in Terminal \cup {"Gone"}
        /\ phase[r] = "Unpeering"
             ~> phase[r] \in Terminal \cup {"Gone", "Peered"}

Active(r) == Exists(r) /\ phase[r] \notin Terminal

(* When the last active reservation of the pair has ended, the pair's      *)
(* staged kubeconfig goes (handleTerminal), even if the provider delivers  *)
(* it only after the reservation's end; as long, that is, as the           *)
(* Reservation object is there to be reconciled.                           *)
SecretRetired ==
    (\A r \in Resv : ~Active(r))
        ~> (secret = "none"
              \/ \E r \in Resv : Active(r) \/ deleting[r] \/ phase[r] = "Gone")

-----------------------------------------------------------------------------
(* What comments and documents say, and the program does not keep          *)

(* applyProviderResult: a failed GenerateKubeconfig fails "the waiting     *)
(* Reservation", which would otherwise sit in GeneratingKubeconfig until   *)
(* its deadline.                                                           *)
WaiterServed ==
    \A r \in Resv :
        phase[r] = "GeneratingKubeconfig"
            ~> (phase[r] # "GeneratingKubeconfig" \/ missed[r])

(* applyProviderResult: when the write that fails the reservation is lost, *)
(* it "is retried on the instruction-expiry tick": something other than    *)
(* the reservation's own expiry gets it out of GeneratingKubeconfig.       *)
MissedIsRetried ==
    \A r \in Resv :
        (missed[r] /\ ~due[r] /\ phase[r] = "GeneratingKubeconfig")
            ~> phase[r] \notin {"GeneratingKubeconfig", "Expired"}

(* handleUnpeering: releasing one reservation does not "rip the peering    *)
(* out from under the others".                                             *)
SiblingKeepsPeering == \A r \in Resv : (phase[r] = "Peered" /\ node[r]) => tunnel

(* handleDeletion: a hard delete does not leak the consumer's              *)
(* ResourceSlice and virtual node.                                         *)
DeletedLeavesNoNode == \A r \in Resv : phase[r] = "Gone" ~> ~node[r]
=============================================================================
