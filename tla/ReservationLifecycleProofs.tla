---------------------- MODULE ReservationLifecycleProofs ----------------------
(***************************************************************************)
(* Proofs about ReservationLifecycle, for any number of reservations of    *)
(* the pair and any number of faults.                                      *)
(***************************************************************************)
EXTENDS ReservationLifecycle, TLAPS

-----------------------------------------------------------------------------
(* Type correctness                                                        *)

(* ensureSharedInstruction and the Enforced mark keep an instruction       *)
(* well-formed.                                                            *)
LEMMA SharedType ==
    /\ NoPI \in PIs
    /\ \A pi \in PIs, r \in Resv : Armed(pi, r) \in PIs
    /\ \A pi \in PIs, o \in Outcomes : pi.st = "armed" => Marked(pi, o) \in PIs
    /\ \A pi \in PIs : pi.st # "none" => pi.resv \in Resv
BY DEF PIs, NoPI, Armed, Marked, States, Outcomes

(* ensureInstruction queues a well-formed instruction.                     *)
LEMMA QueuedType ==
    ASSUME TypeOK, NEW r \in Resv, NEW kind \in RIKinds,
           NEW last \in BOOLEAN, NEW owned \in BOOLEAN
    PROVE  Queued(r, kind, last, owned) \in [Resv -> [RIKinds -> RIs]]
BY DEF Queued, TypeOK, RIs, States

(* emitConsumerCleanup queues a well-formed instruction.                   *)
LEMMA CleanupQueuedType ==
    ASSUME TypeOK, NEW r \in Resv, NEW owned \in BOOLEAN
    PROVE  CleanupQueued(r, owned) \in [Resv -> [RIKinds -> RIs]]
<1>1. OtherHolding(r) \in BOOLEAN BY DEF OtherHolding, OtherSibling
<1> QED BY <1>1, QueuedType DEF CleanupQueued, RIKinds

(* A result leaves phases and instructions well-formed.                    *)
LEMMA ApplyResultType ==
    ASSUME TypeOK, NEW v \in cbox, NEW ok \in BOOLEAN, NEW o \in Outcomes,
           NEW p \in Phases, ApplyResult(v, ok, o, p)
    PROVE  /\ phase' \in [Resv -> Phases]
           /\ missed' \in [Resv -> BOOLEAN]
           /\ ri' \in [Resv -> [RIKinds -> RIs]]
<1>1. v.resv \in Resv /\ v.kind \in RIKinds BY DEF TypeOK, Views
<1>2. phase' \in [Resv -> Phases]
    BY <1>1 DEF ApplyResult, TypeOK, Phases, Terminal
<1>3. ri[v.resv][v.kind] \in RIs BY <1>1 DEF TypeOK, RIs
<1>4. Marked(ri[v.resv][v.kind], o) \in RIs
    BY <1>3 DEF Marked, RIs, States
<1>5. ri' \in [Resv -> [RIKinds -> RIs]]
    BY <1>1, <1>4 DEF ApplyResult, TypeOK, RIs
<1>6. missed' \in [Resv -> BOOLEAN]
    BY <1>1 DEF ApplyResult, TypeOK
<1> QED BY <1>2, <1>5, <1>6

(* The empty federation is well-typed.                                     *)
LEMMA TypeInit == Init => TypeOK
<1> SUFFICES ASSUME Init PROVE TypeOK
    OBVIOUS
<1>1. gk \in PIs /\ pcl \in PIs BY SharedType DEF Init
<1>2. ri \in [Resv -> [RIKinds -> RIs]] BY DEF Init, NoRI, RIs, States
<1>3. faults \in 0..MaxFaults BY LifecycleAssumption DEF Init
<1> QED BY <1>1, <1>2, <1>3 DEF Init, TypeOK, Creds, Phases

(* Every pass, request, poll and dispatch keeps every object well-typed.   *)
LEMMA TypeStep == TypeOK /\ [Next]_vars => TypeOK'
<1> SUFFICES ASSUME TypeOK, [Next]_vars PROVE TypeOK'
    OBVIOUS
<1> USE LifecycleAssumption
    DEF TypeOK, Phases, Terminal, InFlight, Creds, resvVars, provVars, consVars,
        SetPhase, Reconciled, Proceeds, Exists, Accounted
<1>1. ASSUME NEW r \in Resv, CheckExpired(r) PROVE TypeOK'
    BY <1>1 DEF CheckExpired
<1>2. ASSUME NEW r \in Resv, CheckProviderAvailable(r) PROVE TypeOK'
    BY <1>2, CleanupQueuedType DEF CheckProviderAvailable
<1>3. ASSUME NEW r \in Resv, HandlePending(r) PROVE TypeOK'
  <2>1. gk' \in PIs BY <1>3, SharedType DEF HandlePending
  <2>2. \E p \in Phases : phase' = [phase EXCEPT ![r] = p]
    BY <1>3 DEF HandlePending
  <2>3. phase' \in [Resv -> Phases] BY <2>2
  <2> QED BY <1>3, <2>1, <2>3 DEF HandlePending
<1>4. ASSUME NEW r \in Resv, HandleGeneratingKubeconfig(r) PROVE TypeOK'
    BY <1>4 DEF HandleGeneratingKubeconfig
<1>5. ASSUME NEW r \in Resv, HandleKubeconfigReady(r) PROVE TypeOK'
    BY <1>5, QueuedType DEF HandleKubeconfigReady, RIKinds
<1>6. ASSUME NEW r \in Resv, HandleUnpeering(r) PROVE TypeOK'
  <2>1. OtherHolding(r) \in BOOLEAN BY DEF OtherHolding, OtherSibling
  <2> QED BY <1>6, <2>1, QueuedType DEF HandleUnpeering, RIKinds
<1>7. ASSUME NEW r \in Resv, HandleTerminal(r) PROVE TypeOK'
  <2>1. ri' \in [Resv -> [RIKinds -> RIs]]
    BY <1>7, CleanupQueuedType DEF HandleTerminal
  <2>2. pcl' \in PIs /\ secret' \in Creds
    BY <1>7, SharedType DEF HandleTerminal
  <2> QED BY <1>7, <2>1, <2>2 DEF HandleTerminal
<1>8. ASSUME NEW r \in Resv, CollectTerminal(r) PROVE TypeOK'
    BY <1>8 DEF CollectTerminal
<1>9. ASSUME NEW r \in Resv, HandleDeletion(r) PROVE TypeOK'
    BY <1>9, CleanupQueuedType DEF HandleDeletion
<1>10. ASSUME BookkeepGK PROVE TypeOK'
    BY <1>10, SharedType DEF BookkeepGK, FailedParent
<1>11. ASSUME BookkeepProviderCleanup PROVE TypeOK'
    BY <1>11, SharedType DEF BookkeepProviderCleanup
<1>12. ASSUME NEW r \in Resv, NEW k \in RIKinds,
              BookkeepRI(r, k)
       PROVE  TypeOK'
    BY <1>12 DEF BookkeepRI, FailedParent, NoRI, RIs, States
<1>13. ASSUME NEW r \in Resv, NEW k \in RIKinds,
              CascadeDelete(r, k)
       PROVE  TypeOK'
    BY <1>13 DEF CascadeDelete, NoRI, RIs, States
<1>14. ASSUME NEW r \in Resv, Create(r) PROVE TypeOK'
    BY <1>14 DEF Create
<1>15. ASSUME NEW r \in Resv, Release(r) PROVE TypeOK'
    BY <1>15 DEF Release
<1>16. ASSUME NEW r \in Resv, UserDelete(r) PROVE TypeOK'
    BY <1>16 DEF UserDelete
<1>17. ASSUME NEW r \in Resv, Deadline(r) PROVE TypeOK'
    BY <1>17 DEF Deadline
<1>18. ASSUME ProviderFlips PROVE TypeOK'
    BY <1>18 DEF ProviderFlips
<1>19. ASSUME ProviderPoll PROVE TypeOK'
    BY <1>19 DEF ProviderPoll
<1>20. ASSUME ConsumerPoll PROVE TypeOK'
  <2>1. cbox' \subseteq Views
    BY <1>20 DEF ConsumerPoll, Views, RIs
  <2> QED BY <1>20, <2>1 DEF ConsumerPoll
<1>21. ASSUME ProviderRestart PROVE TypeOK'
    BY <1>21 DEF ProviderRestart
<1>22. ASSUME ConsumerRestart PROVE TypeOK'
    BY <1>22 DEF ConsumerRestart
<1>23. ASSUME NEW made \in Mintings, NEW o \in Outcomes,
              ProviderGenerate(made, o)
       PROVE  TypeOK'
  <2>1. gk' \in PIs /\ (gk.st = "armed" => gk.resv \in Resv)
    BY <1>23, SharedType DEF ProviderGenerate
  <2>2. phase' \in [Resv -> Phases]
    BY <1>23, <2>1 DEF ProviderGenerate, AfterGenerate
  <2>3. user' \in BOOLEAN /\ secret' \in Creds /\ missed' \in [Resv -> BOOLEAN]
    BY <1>23, <2>1 DEF ProviderGenerate
  <2> QED BY <1>23, <2>1, <2>2, <2>3 DEF ProviderGenerate
<1>24. ASSUME NEW works \in BOOLEAN, NEW o \in Outcomes,
              ProviderCleanup(works, o)
       PROVE  TypeOK'
  <2>1. pcl' \in PIs
    BY <1>24, SharedType DEF ProviderCleanup
  <2>2. \A c \in Creds : Revoked(c) \in Creds
    BY DEF Revoked
  <2>3. secret' \in Creds /\ kc' \in [Resv -> Creds] /\ user' \in BOOLEAN
    BY <1>24, <2>2 DEF ProviderCleanup
  <2>4. \A w \in Views, c \in Creds : [w EXCEPT !.cred = c] \in Views
    BY DEF Views
  <2>5. \A w \in Views : w.cred \in Creds
    BY DEF Views
  <2>6. ASSUME NEW w \in cbox' PROVE w \in Views
    <3>1. PICK u \in cbox :
             w = [u EXCEPT !.cred = IF works THEN Revoked(u.cred) ELSE u.cred]
      BY <1>24, <2>6 DEF ProviderCleanup
    <3> QED BY <2>2, <2>4, <2>5, <3>1
  <2> QED BY <1>24, <2>1, <2>3, <2>6 DEF ProviderCleanup
<1>25. ASSUME NEW v \in cbox, NEW n \in 0..4, NEW o \in Outcomes,
              ConsumerPeer(v, n, o)
       PROVE  TypeOK'
  <2>1. v.resv \in Resv /\ v.cred \in Creds BY DEF Views
  <2>2. /\ phase' \in [Resv -> Phases] /\ missed' \in [Resv -> BOOLEAN]
        /\ ri' \in [Resv -> [RIKinds -> RIs]]
    BY <1>25, <2>1, ApplyResultType DEF ConsumerPeer
  <2>3. kc' \in [Resv -> Creds] /\ node' \in [Resv -> BOOLEAN] /\ tunnel' \in BOOLEAN
    BY <1>25, <2>1 DEF ConsumerPeer
  <2> QED BY <1>25, <2>2, <2>3 DEF ConsumerPeer
<1>26. ASSUME NEW v \in cbox, NEW n \in 0..4, NEW o \in Outcomes,
              ConsumerUnpeer(v, n, o)
       PROVE  TypeOK'
  <2>1. v.resv \in Resv /\ v.cred \in Creds BY DEF Views
  <2>2. /\ phase' \in [Resv -> Phases] /\ missed' \in [Resv -> BOOLEAN]
        /\ ri' \in [Resv -> [RIKinds -> RIs]]
    BY <1>26, <2>1, ApplyResultType DEF ConsumerUnpeer
  <2>3. kc' \in [Resv -> Creds] /\ node' \in [Resv -> BOOLEAN] /\ tunnel' \in BOOLEAN
    BY <1>26, <2>1 DEF ConsumerUnpeer
  <2> QED BY <1>26, <2>2, <2>3 DEF ConsumerUnpeer
<1>27. ASSUME NEW v \in cbox, NEW n \in 0..4, NEW o \in Outcomes,
              ConsumerCleanup(v, n, o)
       PROVE  TypeOK'
  <2>1. v.resv \in Resv /\ v.cred \in Creds BY DEF Views
  <2>2. /\ phase' \in [Resv -> Phases] /\ missed' \in [Resv -> BOOLEAN]
        /\ ri' \in [Resv -> [RIKinds -> RIs]]
    BY <1>27, <2>1, ApplyResultType DEF ConsumerCleanup
  <2>3. kc' \in [Resv -> Creds] /\ node' \in [Resv -> BOOLEAN] /\ tunnel' \in BOOLEAN
    BY <1>27, <2>1 DEF ConsumerCleanup
  <2> QED BY <1>27, <2>2, <2>3 DEF ConsumerCleanup
<1>29. ASSUME NEW r \in Resv, NEW n \in 0..2, PassCutShort(r, n)
       PROVE  TypeOK'
  <2>1. gk' \in PIs /\ pcl' \in PIs
    <3>1. (gk' = gk \/ gk' = Armed(gk, r)) /\ (pcl' = pcl \/ pcl' = Armed(pcl, r))
      BY <1>29 DEF PassCutShort
    <3> QED BY <3>1, SharedType
  <2>2. ri' \in [Resv -> [RIKinds -> RIs]]
    <3>1. \/ ri' = ri \/ ri' = Queued(r, "Peer", FALSE, TRUE)
          \/ ri' = CleanupQueued(r, TRUE) \/ ri' = CleanupQueued(r, FALSE)
      BY <1>29 DEF PassCutShort
    <3>2. Queued(r, "Peer", FALSE, TRUE) \in [Resv -> [RIKinds -> RIs]]
      BY QueuedType DEF RIKinds
    <3>3. \A owned \in BOOLEAN : CleanupQueued(r, owned) \in [Resv -> [RIKinds -> RIs]]
      BY CleanupQueuedType
    <3> QED BY <3>1, <3>2, <3>3
  <2>3. terminated' \in [Resv -> BOOLEAN] /\ faults' \in 0..MaxFaults
    BY <1>29 DEF PassCutShort
  <2> QED BY <1>29, <2>1, <2>2, <2>3 DEF PassCutShort
<1>28. ASSUME UNCHANGED vars PROVE TypeOK'
    BY <1>28 DEF vars
<1> QED
    BY <1>1, <1>2, <1>3, <1>4, <1>5, <1>6, <1>7, <1>8, <1>9, <1>10,
       <1>11, <1>12, <1>13, <1>14, <1>15, <1>16, <1>17, <1>18, <1>19,
       <1>20, <1>21, <1>22, <1>23, <1>24, <1>25, <1>26, <1>27, <1>28, <1>29 DEF
       Next, ReconcileStep, ConsumerDispatch

(* Every object keeps its type, and every instruction that exists names a  *)
(* reservation: no write of reconciler, handlers or agents goes astray.    *)
THEOREM TypeCorrect == Spec => []TypeOK
BY TypeInit, TypeStep, PTL DEF Spec

-----------------------------------------------------------------------------
(* The credential is there for those who need it                           *)

(* No step strands a reservation that is about to peer: the cases that     *)
(* matter are handleTerminal, which deletes the Secret, and the steps into *)
(* KubeconfigReady, which find it.                                         *)
LEMMA CredentialHeldStep ==
    TypeOK /\ CredentialHeld /\ [Next]_vars => CredentialHeld'
<1> SUFFICES ASSUME TypeOK, CredentialHeld, [Next]_vars PROVE CredentialHeld'
    OBVIOUS
<1> USE DEF TypeOK, CredentialHeld, Phases, Terminal, InFlight, resvVars, provVars,
        consVars, SetPhase, Reconciled, Proceeds, Exists
<1>1. ASSUME NEW r \in Resv, CheckExpired(r) PROVE CredentialHeld'
    BY <1>1 DEF CheckExpired
<1>2. ASSUME NEW r \in Resv, CheckProviderAvailable(r) PROVE CredentialHeld'
    BY <1>2 DEF CheckProviderAvailable
<1>3. ASSUME NEW r \in Resv, HandlePending(r) PROVE CredentialHeld'
    BY <1>3 DEF HandlePending
<1>4. ASSUME NEW r \in Resv,
              HandleGeneratingKubeconfig(r)
       PROVE  CredentialHeld'
    BY <1>4 DEF HandleGeneratingKubeconfig
<1>5. ASSUME NEW r \in Resv, HandleKubeconfigReady(r) PROVE CredentialHeld'
    BY <1>5 DEF HandleKubeconfigReady
<1>6. ASSUME NEW r \in Resv, HandleUnpeering(r) PROVE CredentialHeld'
    BY <1>6 DEF HandleUnpeering
<1>7. ASSUME NEW r \in Resv, HandleTerminal(r) PROVE CredentialHeld'
  <2>1. CASE secret' = secret
    BY <1>7, <2>1 DEF HandleTerminal
  <2>2. CASE secret' # secret
    <3>1. ~OtherActive(r) BY <1>7, <2>2 DEF HandleTerminal
    <3> QED BY <1>7, <3>1 DEF HandleTerminal, OtherActive, OtherSibling
  <2> QED BY <2>1, <2>2
<1>8. ASSUME NEW r \in Resv, CollectTerminal(r) PROVE CredentialHeld'
    BY <1>8 DEF CollectTerminal
<1>9. ASSUME NEW r \in Resv, HandleDeletion(r) PROVE CredentialHeld'
    BY <1>9 DEF HandleDeletion
<1>10. ASSUME BookkeepGK PROVE CredentialHeld'
  <2>1. \A s \in Resv : phase'[s] = phase[s] \/ phase'[s] = "Failed"
    BY <1>10 DEF BookkeepGK, FailedParent
  <2> QED BY <1>10, <2>1 DEF BookkeepGK
<1>11. ASSUME BookkeepProviderCleanup PROVE CredentialHeld'
    BY <1>11 DEF BookkeepProviderCleanup
<1>12. ASSUME NEW r \in Resv, NEW k \in RIKinds,
              BookkeepRI(r, k)
       PROVE  CredentialHeld'
  <2>1. \A s \in Resv : phase'[s] = phase[s] \/ phase'[s] = "Failed"
    BY <1>12 DEF BookkeepRI, FailedParent
  <2> QED BY <1>12, <2>1 DEF BookkeepRI
<1>13. ASSUME NEW r \in Resv, NEW k \in RIKinds,
              CascadeDelete(r, k)
       PROVE  CredentialHeld'
    BY <1>13 DEF CascadeDelete
<1>14. ASSUME NEW r \in Resv, Create(r) PROVE CredentialHeld'
    BY <1>14 DEF Create
<1>15. ASSUME NEW r \in Resv, Release(r) PROVE CredentialHeld'
    BY <1>15 DEF Release
<1>16. ASSUME NEW r \in Resv, UserDelete(r) PROVE CredentialHeld'
    BY <1>16 DEF UserDelete
<1>17. ASSUME NEW r \in Resv, Deadline(r) PROVE CredentialHeld'
    BY <1>17 DEF Deadline
<1>18. ASSUME ProviderFlips PROVE CredentialHeld'
    BY <1>18 DEF ProviderFlips
<1>19. ASSUME ProviderPoll PROVE CredentialHeld'
    BY <1>19 DEF ProviderPoll
<1>20. ASSUME ConsumerPoll PROVE CredentialHeld'
    BY <1>20 DEF ConsumerPoll
<1>21. ASSUME ProviderRestart PROVE CredentialHeld'
    BY <1>21 DEF ProviderRestart
<1>22. ASSUME ConsumerRestart PROVE CredentialHeld'
    BY <1>22 DEF ConsumerRestart
<1>23. ASSUME NEW made \in Mintings, NEW o \in Outcomes,
              ProviderGenerate(made, o)
       PROVE  CredentialHeld'
  <2>1. gk.st = "armed" => gk.resv \in Resv BY SharedType
  <2>2. secret # "none" => secret' # "none" BY <1>23 DEF ProviderGenerate
  <2>3. \A s \in Resv : phase'[s] = phase[s] \/ phase'[s] = "Failed" \/ secret' # "none"
    BY <1>23, <2>1 DEF ProviderGenerate, AfterGenerate
  <2> QED BY <1>23, <2>2, <2>3 DEF ProviderGenerate
<1>24. ASSUME NEW works \in BOOLEAN, NEW o \in Outcomes,
              ProviderCleanup(works, o)
       PROVE  CredentialHeld'
    BY <1>24 DEF ProviderCleanup, Revoked
<1>25. ASSUME NEW v \in cbox, NEW n \in 0..4, NEW o \in Outcomes,
              ConsumerPeer(v, n, o)
       PROVE  CredentialHeld'
  <2>1. v.resv \in Resv BY DEF Views
  <2>2. \A s \in Resv : \/ phase'[s] = phase[s]
                        \/ phase'[s] \in {"Peered", "Released", "Failed"}
    BY <1>25, <2>1 DEF ConsumerPeer, ApplyResult
  <2> QED BY <1>25, <2>2 DEF ConsumerPeer
<1>26. ASSUME NEW v \in cbox, NEW n \in 0..4, NEW o \in Outcomes,
              ConsumerUnpeer(v, n, o)
       PROVE  CredentialHeld'
  <2>1. v.resv \in Resv BY DEF Views
  <2>2. \A s \in Resv : \/ phase'[s] = phase[s]
                        \/ phase'[s] \in {"Peered", "Released", "Failed"}
    BY <1>26, <2>1 DEF ConsumerUnpeer, ApplyResult
  <2> QED BY <1>26, <2>2 DEF ConsumerUnpeer
<1>27. ASSUME NEW v \in cbox, NEW n \in 0..4, NEW o \in Outcomes,
              ConsumerCleanup(v, n, o)
       PROVE  CredentialHeld'
  <2>1. v.resv \in Resv BY DEF Views
  <2>2. \A s \in Resv : \/ phase'[s] = phase[s]
                        \/ phase'[s] \in {"Peered", "Released", "Failed"}
    BY <1>27, <2>1 DEF ConsumerCleanup, ApplyResult
  <2> QED BY <1>27, <2>2 DEF ConsumerCleanup
<1>29. ASSUME NEW r \in Resv, NEW n \in 0..2, PassCutShort(r, n)
       PROVE  CredentialHeld'
    BY <1>29 DEF PassCutShort
<1>28. ASSUME UNCHANGED vars PROVE CredentialHeld'
    BY <1>28 DEF vars
<1> QED
    BY <1>1, <1>2, <1>3, <1>4, <1>5, <1>6, <1>7, <1>8, <1>9, <1>10,
       <1>11, <1>12, <1>13, <1>14, <1>15, <1>16, <1>17, <1>18, <1>19,
       <1>20, <1>21, <1>22, <1>23, <1>24, <1>25, <1>26, <1>27, <1>28, <1>29 DEF
       Next, ReconcileStep, ConsumerDispatch

(* However many reservations share the credential and however they end,    *)
(* handleTerminal's ref-count never removes the staged kubeconfig from     *)
(* under a reservation that is about to peer with it.                      *)
THEOREM CredentialStaysHeld == Spec => []CredentialHeld
<1>1. Init => TypeOK /\ CredentialHeld
    BY TypeInit DEF Init, CredentialHeld
<1>2. TypeOK /\ CredentialHeld /\ [Next]_vars => (TypeOK /\ CredentialHeld)'
    BY TypeStep, CredentialHeldStep
<1> QED BY <1>1, <1>2, PTL DEF Spec

-----------------------------------------------------------------------------
(* The credential is a good one                                            *)

(* As long as nothing went wrong: a staged credential excludes a queued    *)
(* provider Cleanup, which in turn always has a peering-user to remove; an *)
(* instruction the provider holds is one the Broker still has queued.      *)
Sound ==
    faults = 0 =>
        /\ secret # "dead"
        /\ secret = "live" => user /\ pcl.st # "armed"
        /\ pcl.st = "armed" => user
        /\ "Cleanup" \in pbox => pcl.st = "armed"
        /\ (\A r \in Resv : ~due[r]) =>
              /\ "GenerateKubeconfig" \in pbox => gk.st = "armed"
              /\ user => secret = "live" \/ pcl.st = "armed"

Same ==
    /\ secret' = secret /\ user' = user /\ pbox' = pbox /\ pcl' = pcl /\ gk' = gk
    /\ due' = due

(* Every step keeps the credential, its user and the Cleanup in agreement. *)
LEMMA SoundStep == TypeOK /\ Sound /\ [Next]_vars => Sound'
<1> SUFFICES ASSUME TypeOK, Sound, [Next]_vars PROVE Sound'
    OBVIOUS
<1>f. faults \in Nat BY LifecycleAssumption DEF TypeOK
<1>a. ASSUME Same, faults' = faults PROVE Sound'
    BY <1>a DEF Same, Sound
<1>b. ASSUME faults' = faults + 1 PROVE Sound'
    BY <1>b, <1>f DEF Sound
<1> USE <1>f DEF resvVars, provVars, consVars, Accounted
<1>1. ASSUME NEW r \in Resv, CheckExpired(r) PROVE Sound'
    BY <1>a, <1>1 DEF CheckExpired, Same
<1>2. ASSUME NEW r \in Resv, CheckProviderAvailable(r) PROVE Sound'
    BY <1>a, <1>2 DEF CheckProviderAvailable, Same
<1>3. ASSUME NEW r \in Resv, HandlePending(r) PROVE Sound'
  <2>1. gk' = gk \/ gk'.st = "armed" BY <1>3 DEF HandlePending, Armed
  <2> QED BY <1>3, <2>1 DEF HandlePending, Sound
<1>4. ASSUME NEW r \in Resv, HandleGeneratingKubeconfig(r) PROVE Sound'
    BY <1>a, <1>4 DEF HandleGeneratingKubeconfig, Same
<1>5. ASSUME NEW r \in Resv, HandleKubeconfigReady(r) PROVE Sound'
    BY <1>a, <1>5 DEF HandleKubeconfigReady, Same
<1>6. ASSUME NEW r \in Resv, HandleUnpeering(r) PROVE Sound'
    BY <1>a, <1>6 DEF HandleUnpeering, Same
<1>7. ASSUME NEW r \in Resv, HandleTerminal(r) PROVE Sound'
  <2>1. CASE UNCHANGED <<pcl, secret>>
    BY <1>7, <2>1, <1>a DEF HandleTerminal, Same
  <2>2. CASE secret # "none" /\ pcl' = Armed(pcl, r) /\ secret' = "none"
    <3>1. secret \in Creds /\ pcl'.st = "armed" BY <2>2 DEF TypeOK, Armed
    <3> QED BY <1>7, <2>2, <3>1 DEF HandleTerminal, Sound, Creds
  <2> QED BY <1>7, <2>1, <2>2 DEF HandleTerminal
<1>8. ASSUME NEW r \in Resv, CollectTerminal(r) PROVE Sound'
    BY <1>a, <1>8 DEF CollectTerminal, Same
<1>9. ASSUME NEW r \in Resv, HandleDeletion(r) PROVE Sound'
    BY <1>a, <1>9 DEF HandleDeletion, Same
<1>10. ASSUME BookkeepGK PROVE Sound'
  <2>1. UNCHANGED <<secret, user, pbox, pcl, due, faults>>
    BY <1>10 DEF BookkeepGK
  <2>2. CASE gk.st = "enforced"
    BY <2>1, <2>2 DEF Sound
  <2>3. CASE gk.st = "armed" /\ due[gk.resv]
    <3>1. gk.resv \in Resv BY <2>3, SharedType DEF TypeOK
    <3> QED BY <2>1, <2>3, <3>1 DEF Sound
  <2> QED BY <1>10, <2>2, <2>3 DEF BookkeepGK
<1>11. ASSUME BookkeepProviderCleanup PROVE Sound'
    BY <1>11 DEF BookkeepProviderCleanup, NoPI, Sound
<1>12. ASSUME NEW r \in Resv, NEW k \in RIKinds,
              BookkeepRI(r, k)
       PROVE  Sound'
    BY <1>a, <1>12 DEF BookkeepRI, Same
<1>13. ASSUME NEW r \in Resv, NEW k \in RIKinds,
              CascadeDelete(r, k)
       PROVE  Sound'
    BY <1>a, <1>13 DEF CascadeDelete, Same
<1>14. ASSUME NEW r \in Resv, Create(r) PROVE Sound'
    BY <1>a, <1>14 DEF Create, Same
<1>15. ASSUME NEW r \in Resv, Release(r) PROVE Sound'
    BY <1>a, <1>15 DEF Release, Same
<1>16. ASSUME NEW r \in Resv, UserDelete(r) PROVE Sound'
    BY <1>a, <1>16 DEF UserDelete, Same
<1>17. ASSUME NEW r \in Resv, Deadline(r) PROVE Sound'
  <2>1. due'[r] BY <1>17 DEF Deadline, TypeOK
  <2> QED BY <1>17, <2>1 DEF Deadline, Sound
<1>18. ASSUME ProviderFlips PROVE Sound'
    BY <1>a, <1>b, <1>18 DEF ProviderFlips, Same
<1>19. ASSUME ProviderPoll PROVE Sound'
    BY <1>19 DEF ProviderPoll, Sound
<1>20. ASSUME ConsumerPoll PROVE Sound'
    BY <1>a, <1>20 DEF ConsumerPoll, Same
<1>21. ASSUME ProviderRestart PROVE Sound'
    BY <1>b, <1>21 DEF ProviderRestart
<1>22. ASSUME ConsumerRestart PROVE Sound'
    BY <1>b, <1>22 DEF ConsumerRestart
<1>23. ASSUME NEW made \in Mintings, NEW o \in Outcomes,
              ProviderGenerate(made, o)
       PROVE  Sound'
  <2>1. CASE faults' = faults + 1
    BY <2>1, <1>b
  <2>2. CASE faults' = faults /\ o = "applied" /\ (user \/ made = "kubeconfig")
    <3>1. CASE user
      BY <1>23, <2>2, <3>1 DEF ProviderGenerate, Sound, Marked
    <3>2. CASE ~user
      BY <1>23, <2>2, <3>2 DEF ProviderGenerate, Sound, Marked
    <3> QED BY <3>1, <3>2
  <2> QED BY <1>23, <2>1, <2>2 DEF ProviderGenerate
<1>24. ASSUME NEW works \in BOOLEAN, NEW o \in Outcomes,
              ProviderCleanup(works, o)
       PROVE  Sound'
  <2>1. CASE faults' = faults + 1
    BY <2>1, <1>b
  <2>2. CASE faults' = faults /\ works /\ o = "applied"
    <3>1. ASSUME pcl.st = "armed" PROVE pcl'.st = "enforced"
      BY <1>24, <2>2, <3>1 DEF ProviderCleanup, Marked, TypeOK, PIs
    <3> QED BY <1>24, <2>2, <3>1 DEF ProviderCleanup, Sound, Revoked
  <2> QED BY <1>24, <2>1, <2>2 DEF ProviderCleanup
<1>25. ASSUME NEW v \in cbox, NEW n \in 0..4, NEW o \in Outcomes,
              ConsumerPeer(v, n, o)
       PROVE  Sound'
    BY <1>b, <1>a, <1>25 DEF ConsumerPeer, Same
<1>26. ASSUME NEW v \in cbox, NEW n \in 0..4, NEW o \in Outcomes,
              ConsumerUnpeer(v, n, o)
       PROVE  Sound'
    BY <1>b, <1>a, <1>26 DEF ConsumerUnpeer, Same
<1>27. ASSUME NEW v \in cbox, NEW n \in 0..4, NEW o \in Outcomes,
              ConsumerCleanup(v, n, o)
       PROVE  Sound'
    BY <1>b, <1>a, <1>27 DEF ConsumerCleanup, Same
<1>29. ASSUME NEW r \in Resv, NEW n \in 0..2, PassCutShort(r, n)
       PROVE  Sound'
    BY <1>b, <1>29 DEF PassCutShort
<1>28. ASSUME UNCHANGED vars PROVE Sound'
    BY <1>a, <1>28 DEF vars, Same
<1> QED
    BY <1>1, <1>2, <1>3, <1>4, <1>5, <1>6, <1>7, <1>8, <1>9, <1>10,
       <1>11, <1>12, <1>13, <1>14, <1>15, <1>16, <1>17, <1>18, <1>19,
       <1>20, <1>21, <1>22, <1>23, <1>24, <1>25, <1>26, <1>27, <1>28, <1>29 DEF
       Next, ReconcileStep, ConsumerDispatch

(* Sound is an invariant, given the types.                                 *)
LEMMA SoundAlways == Spec => [](TypeOK /\ Sound)
<1>1. Init => TypeOK /\ Sound
    BY TypeInit DEF Init, Sound, NoPI
<1>2. TypeOK /\ Sound /\ [Next]_vars => (TypeOK /\ Sound)'
    BY TypeStep, SoundStep
<1> QED BY <1>1, <1>2, PTL DEF Spec

(* For any number of reservations, in any order of delivery: unless a call *)
(* failed or a message was lost, the staged kubeconfig is never that of a  *)
(* peering-user the provider Cleanup has removed; and, unless something    *)
(* expired, every peering-user is known to the Broker, by its Secret or by *)
(* the Cleanup it has queued.                                              *)
THEOREM CredentialSound == Spec => []CredentialAccounted
<1>1. Sound => CredentialAccounted BY DEF Sound, CredentialAccounted
<1> QED BY <1>1, SoundAlways, PTL

-----------------------------------------------------------------------------
(* Phases                                                                  *)

(* Where each phase stands in the life of a reservation.                   *)
LEMMA RankValues ==
    /\ Rank("Absent") = 0 /\ Rank("Pending") = 1 /\ Rank("GeneratingKubeconfig") = 2
    /\ Rank("KubeconfigReady") = 3 /\ Rank("Peering") = 4 /\ Rank("Peered") = 5
    /\ Rank("Unpeering") = 6 /\ Rank("Released") = 7 /\ Rank("Expired") = 7
    /\ Rank("Failed") = 7 /\ Rank("Gone") = 8
BY DEF Rank, Terminal

(* Each of the writers of Status.Phase moves a reservation forward, or is  *)
(* one of the two exceptions that Advances names.                          *)
LEMMA AdvanceStep == TypeOK /\ [Next]_vars => \A s \in Resv : Advances(s)
<1> SUFFICES ASSUME TypeOK, [Next]_vars PROVE \A s \in Resv : Advances(s)
    OBVIOUS
<1> USE DEF TypeOK, Phases, Terminal, InFlight, resvVars, provVars, consVars,
        SetPhase, Reconciled, Proceeds, Exists
<1>a. ASSUME phase' = phase PROVE \A s \in Resv : Advances(s)
    BY <1>a DEF Advances
<1>b. ASSUME NEW r \in Resv, NEW p \in Phases, phase' = [phase EXCEPT ![r] = p],
             Rank(phase[r]) < Rank(p)
      PROVE  \A s \in Resv : Advances(s)
    BY <1>b DEF Advances
<1>c. ASSUME NEW s \in Resv, phase'[s] = "Failed", Exists(s) PROVE Advances(s)
  <2>1. CASE phase[s] \in Terminal
    BY <1>c, <2>1 DEF Advances
  <2>2. CASE phase[s] \notin Terminal
    BY <1>c, <2>2, RankValues DEF Advances
  <2> QED BY <2>1, <2>2
<1>d. ASSUME NEW s \in Resv,
             \/ phase'[s] = phase[s]
             \/ phase'[s] \in {"Failed", "Peered"} /\ Exists(s)
             \/ phase'[s] = "Released" /\ phase[s] = "Unpeering"
      PROVE  Advances(s)
  <2>1. CASE phase'[s] = phase[s]
    BY <2>1 DEF Advances
  <2>2. CASE phase'[s] = "Failed" /\ Exists(s)
    BY <1>c, <2>2
  <2>3. CASE phase'[s] = "Peered" /\ Exists(s)
    BY <2>3 DEF Advances
  <2>4. CASE phase'[s] = "Released" /\ phase[s] = "Unpeering"
    BY <2>4, RankValues DEF Advances
  <2> QED BY <1>d, <2>1, <2>2, <2>3, <2>4
<1>1. ASSUME NEW r \in Resv,
              CheckExpired(r)
       PROVE  \A s \in Resv : Advances(s)
  <2>1. phase' = [phase EXCEPT ![r] = "Expired"] /\ phase[r] \in InFlight \cup {"Peered", "Unpeering"}
    BY <1>1 DEF CheckExpired
  <2>2. Rank(phase[r]) < Rank("Expired")
    BY <2>1, RankValues
  <2> QED BY <1>b, <2>1, <2>2
<1>2. ASSUME NEW r \in Resv,
              CheckProviderAvailable(r)
       PROVE  \A s \in Resv : Advances(s)
  <2>1. phase' = [phase EXCEPT ![r] = "Failed"] /\ phase[r] \in InFlight \cup {"Peered"}
    BY <1>2 DEF CheckProviderAvailable
  <2>2. Rank(phase[r]) < Rank("Failed")
    BY <2>1, RankValues
  <2> QED BY <1>b, <2>1, <2>2
<1>3. ASSUME NEW r \in Resv,
              HandlePending(r)
       PROVE  \A s \in Resv : Advances(s)
  <2>1. /\ phase[r] = "Pending"
        /\ \/ phase' = [phase EXCEPT ![r] = "KubeconfigReady"]
           \/ phase' = [phase EXCEPT ![r] = "GeneratingKubeconfig"]
    BY <1>3 DEF HandlePending
  <2>2. /\ Rank(phase[r]) < Rank("KubeconfigReady")
        /\ Rank(phase[r]) < Rank("GeneratingKubeconfig")
    BY <2>1, RankValues
  <2> QED BY <1>b, <2>1, <2>2
<1>4. ASSUME NEW r \in Resv,
              HandleGeneratingKubeconfig(r)
       PROVE  \A s \in Resv : Advances(s)
  <2>1. \E p \in Phases : phase' = [phase EXCEPT ![r] = p] /\ Rank(phase[r]) < Rank(p)
    BY <1>4, RankValues DEF HandleGeneratingKubeconfig
  <2> QED BY <1>b, <2>1
<1>5. ASSUME NEW r \in Resv,
              HandleKubeconfigReady(r)
       PROVE  \A s \in Resv : Advances(s)
  <2>1. \E p \in Phases : phase' = [phase EXCEPT ![r] = p] /\ Rank(phase[r]) < Rank(p)
    BY <1>5, RankValues DEF HandleKubeconfigReady
  <2> QED BY <1>b, <2>1
<1>6. ASSUME NEW r \in Resv,
              HandleUnpeering(r)
       PROVE  \A s \in Resv : Advances(s)
    BY <1>a, <1>6 DEF HandleUnpeering
<1>7. ASSUME NEW r \in Resv,
              HandleTerminal(r)
       PROVE  \A s \in Resv : Advances(s)
    BY <1>a, <1>7 DEF HandleTerminal
<1>8. ASSUME NEW r \in Resv,
              CollectTerminal(r)
       PROVE  \A s \in Resv : Advances(s)
    BY <1>a, <1>8 DEF CollectTerminal
<1>9. ASSUME NEW r \in Resv,
              HandleDeletion(r)
       PROVE  \A s \in Resv : Advances(s)
  <2>1. phase' = [phase EXCEPT ![r] = "Gone"] /\ phase[r] \in InFlight \cup {"Peered", "Unpeering"} \cup Terminal
    BY <1>9 DEF HandleDeletion
  <2>2. Rank(phase[r]) < Rank("Gone")
    BY <2>1, RankValues
  <2> QED BY <1>b, <2>1, <2>2
<1>10. ASSUME BookkeepGK PROVE \A s \in Resv : Advances(s)
  <2>1. \A s \in Resv : phase'[s] = phase[s] \/ (phase'[s] = "Failed" /\ Exists(s))
    BY <1>10 DEF BookkeepGK, FailedParent
  <2> QED BY <1>c, <2>1 DEF Advances
<1>11. ASSUME BookkeepProviderCleanup PROVE \A s \in Resv : Advances(s)
    BY <1>a, <1>11 DEF BookkeepProviderCleanup
<1>12. ASSUME NEW r \in Resv, NEW k \in RIKinds,
              BookkeepRI(r, k)
       PROVE  \A s \in Resv : Advances(s)
  <2>1. \A s \in Resv : phase'[s] = phase[s] \/ (phase'[s] = "Failed" /\ Exists(s))
    BY <1>12 DEF BookkeepRI, FailedParent
  <2> QED BY <1>c, <2>1 DEF Advances
<1>13. ASSUME NEW r \in Resv, NEW k \in RIKinds,
              CascadeDelete(r, k)
       PROVE  \A s \in Resv : Advances(s)
    BY <1>a, <1>13 DEF CascadeDelete
<1>14. ASSUME NEW r \in Resv, Create(r) PROVE \A s \in Resv : Advances(s)
  <2>1. \E p \in Phases : phase' = [phase EXCEPT ![r] = p] /\ Rank(phase[r]) < Rank(p)
    BY <1>14, RankValues DEF Create
  <2> QED BY <1>b, <2>1
<1>15. ASSUME NEW r \in Resv, Release(r) PROVE \A s \in Resv : Advances(s)
  <2>1. \E p \in Phases : phase' = [phase EXCEPT ![r] = p] /\ Rank(phase[r]) < Rank(p)
    BY <1>15, RankValues DEF Release
  <2> QED BY <1>b, <2>1
<1>16. ASSUME NEW r \in Resv,
              UserDelete(r)
       PROVE  \A s \in Resv : Advances(s)
    BY <1>a, <1>16 DEF UserDelete
<1>17. ASSUME NEW r \in Resv, Deadline(r) PROVE \A s \in Resv : Advances(s)
    BY <1>a, <1>17 DEF Deadline
<1>18. ASSUME ProviderFlips PROVE \A s \in Resv : Advances(s)
    BY <1>a, <1>18 DEF ProviderFlips
<1>19. ASSUME ProviderPoll PROVE \A s \in Resv : Advances(s)
    BY <1>a, <1>19 DEF ProviderPoll
<1>20. ASSUME ConsumerPoll PROVE \A s \in Resv : Advances(s)
    BY <1>a, <1>20 DEF ConsumerPoll
<1>21. ASSUME ProviderRestart PROVE \A s \in Resv : Advances(s)
    BY <1>a, <1>21 DEF ProviderRestart
<1>22. ASSUME ConsumerRestart PROVE \A s \in Resv : Advances(s)
    BY <1>a, <1>22 DEF ConsumerRestart
<1>23. ASSUME NEW made \in Mintings, NEW o \in Outcomes,
              ProviderGenerate(made, o)
       PROVE  \A s \in Resv : Advances(s)
  <2>1. gk.st = "armed" => gk.resv \in Resv BY SharedType
  <2>2. \A s \in Resv : \/ phase'[s] = phase[s]
                        \/ phase'[s] = "Failed" /\ Exists(s)
                        \/ phase'[s] = "KubeconfigReady" /\ phase[s] = "GeneratingKubeconfig"
    BY <1>23, <2>1 DEF ProviderGenerate, AfterGenerate
  <2> QED BY <2>2, <1>c, RankValues DEF Advances
<1>24. ASSUME NEW works \in BOOLEAN, NEW o \in Outcomes,
              ProviderCleanup(works, o)
       PROVE  \A s \in Resv : Advances(s)
    BY <1>a, <1>24 DEF ProviderCleanup
<1>25. ASSUME NEW v \in cbox, NEW n \in 0..4, NEW o \in Outcomes,
              ConsumerPeer(v, n, o)
       PROVE  \A s \in Resv : Advances(s)
  <2>1. v.resv \in Resv BY DEF Views
  <2>2. \A s \in Resv : \/ phase'[s] = phase[s]
                        \/ phase'[s] \in {"Failed", "Peered"} /\ Exists(s)
                        \/ phase'[s] = "Released" /\ phase[s] = "Unpeering"
    BY <1>25, <2>1 DEF ConsumerPeer, ApplyResult
  <2> QED BY <2>2, <1>d
<1>26. ASSUME NEW v \in cbox, NEW n \in 0..4, NEW o \in Outcomes,
              ConsumerUnpeer(v, n, o)
       PROVE  \A s \in Resv : Advances(s)
  <2>1. v.resv \in Resv BY DEF Views
  <2>2. \A s \in Resv : \/ phase'[s] = phase[s]
                        \/ phase'[s] \in {"Failed", "Peered"} /\ Exists(s)
                        \/ phase'[s] = "Released" /\ phase[s] = "Unpeering"
    BY <1>26, <2>1 DEF ConsumerUnpeer, ApplyResult
  <2> QED BY <2>2, <1>d
<1>27. ASSUME NEW v \in cbox, NEW n \in 0..4, NEW o \in Outcomes,
              ConsumerCleanup(v, n, o)
       PROVE  \A s \in Resv : Advances(s)
  <2>1. v.resv \in Resv BY DEF Views
  <2>2. \A s \in Resv : \/ phase'[s] = phase[s]
                        \/ phase'[s] \in {"Failed", "Peered"} /\ Exists(s)
                        \/ phase'[s] = "Released" /\ phase[s] = "Unpeering"
    BY <1>27, <2>1 DEF ConsumerCleanup, ApplyResult
  <2> QED BY <2>2, <1>d
<1>29. ASSUME NEW r \in Resv, NEW n \in 0..2, PassCutShort(r, n)
       PROVE  \A s \in Resv : Advances(s)
    BY <1>a, <1>29 DEF PassCutShort
<1>28. ASSUME UNCHANGED vars PROVE \A s \in Resv : Advances(s)
    BY <1>a, <1>28 DEF vars
<1> QED
    BY <1>1, <1>2, <1>3, <1>4, <1>5, <1>6, <1>7, <1>8, <1>9, <1>10,
       <1>11, <1>12, <1>13, <1>14, <1>15, <1>16, <1>17, <1>18, <1>19,
       <1>20, <1>21, <1>22, <1>23, <1>24, <1>25, <1>26, <1>27, <1>28, <1>29 DEF
       Next, ReconcileStep, ConsumerDispatch

(* Only a Peer result ever moves a reservation back, whatever the order in *)
(* which reconciler, result handler, instruction expiry and DELETE write.  *)
THEOREM PhasesOnlyAdvance == Spec => PhasesAdvance
<1>1. TypeOK /\ [Next]_vars => [\A r \in Resv : Advances(r)]_vars
    BY AdvanceStep
<1>2. Spec => []TypeOK /\ [][Next]_vars
    BY TypeCorrect, PTL DEF Spec
<1> QED BY <1>1, <1>2, PTL DEF PhasesAdvance
=============================================================================
