----------------------- MODULE ResourceRequestsProofs -----------------------
(***************************************************************************)
(* Proofs about ResourceRequests, for any set of providers, any answers of *)
(* the agent, any number of migrations and any number of faults.           *)
(*                                                                         *)
(* The argument: the worker is the only writer of the status, and a write  *)
(* lands only when the cache was up to date as the pass began.  So a copy  *)
(* of the object, in the cache or in the worker, is at most one write of   *)
(* an id behind (Behind), a pass on an outdated copy posts no reservation  *)
(* but the recorded one, and the record always names the live one.         *)
(***************************************************************************)
EXTENDS ResourceRequests, TLAPS

(* What the copy a of the object may say of the reservation in b.  A copy  *)
(* from before a migration has an id of its own and is not Migrating, so   *)
(* that no pass posts from it.                                             *)
Behind(a, b) ==
    \/ a.id = b.id
    \/ a.id = NoId /\ b.id = 1
    \/ a.id # NoId /\ a.phase # "Migrating"

NoneLive == \A i \in Ids : broker[i].state # "live"

(* What is fresh is up to date. *)
Versions ==
    /\ synced => cached = obj
    /\ work.fresh => synced /\ work.pc # "idle"
    /\ work.fresh /\ work.pc # "write" => work.rr = obj
    /\ Behind(cached, obj)
    /\ work.pc \notin {"idle", "write"} => Behind(work.rr, obj)

(* What the branch the worker is in says of the object it read. *)
Branch ==
    /\ work.pc \in {"release", "unfinalize"} => work.rr.state = "deleting"
    /\ work.pc = "release" => work.rr.id # NoId
    /\ work.pc \in {"pick", "post", "reeval", "break", "complete", "hold"}
          => work.rr.state = "live" /\ work.rr.finalizer
    /\ work.pc = "pick" => work.rr.id = NoId
    /\ work.pc = "complete" => work.rr.phase = "Migrating"
    /\ work.pc = "post" => work.rr.id = NoId \/ work.rr.phase = "Migrating"
    /\ work.pc \in {"reeval", "break"} =>
          work.rr.id # NoId /\ work.rr.phase # "Migrating" /\ work.rr.rested
    /\ work.pc = "break" => work.rr.migrations < MaxMigrations
    /\ work.pc = "unfinalize" /\ work.rr.id # NoId =>
          broker[work.rr.id].state # "live"

(* What a status write that will land changes. *)
Landing ==
    work.fresh /\ work.pc = "write" =>
        /\ obj.state = "live" /\ obj.finalizer
        /\ work.next.migrations # obj.migrations => obj.rested
        /\ \/ work.next.id = obj.id
           \/ obj.id = NoId /\ work.next.id = 1
           \/ obj.id # NoId /\ obj.phase # "Migrating" /\ NoneLive

(* The record names what is live; nothing is recorded before the finalizer *)
(* is there, and nothing happens to a request that is gone.                *)
Record ==
    /\ \A i \in Ids : broker[i].state = "live" =>
          i = obj.id \/ (obj.id = NoId /\ i = 1)
    /\ obj.state = "live" /\ ~obj.finalizer => obj.id = NoId
    /\ obj.state = "gone" /\ obj.id # NoId =>
          /\ cached.state # "live"
          /\ work.pc \in {"idle", "release", "unfinalize"}
          /\ NoneLive

IInv == RequestTypeOK /\ Versions /\ Branch /\ Landing /\ Record

-----------------------------------------------------------------------------
(* The operators on the object and on the Broker's reservations            *)

(* writePhase changes the phase and the clock only.                        *)
LEMMA WithPhaseType ==
    ASSUME NEW rr \in Objects, NEW phase \in Phases
    PROVE  /\ WithPhase(rr, phase) \in Objects
           /\ WithPhase(rr, phase).id = rr.id
           /\ WithPhase(rr, phase).migrations = rr.migrations
BY DEF WithPhase, Objects

(* setReserved records the id and the provider.                            *)
LEMMA WithReservedType ==
    ASSUME NEW rr \in Objects, NEW id \in Ids, NEW p \in AnyProvider
    PROVE  /\ WithReserved(rr, id, p) \in Objects
           /\ WithReserved(rr, id, p).id = id
           /\ WithReserved(rr, id, p).migrations = rr.migrations
<1>1. "Reserved" \in Phases BY DEF Phases
<1>2. WithPhase(rr, "Reserved") \in Objects BY <1>1, WithPhaseType
<1>3. WithPhase(rr, "Reserved").migrations = rr.migrations
  BY <1>1, WithPhaseType
<1> QED BY <1>2, <1>3 DEF WithReserved, Objects

(* setMigrating stays within the ids while a migration is left.            *)
LEMMA WithMigrationType ==
    ASSUME NEW rr \in Objects, rr.migrations < MaxMigrations
    PROVE  /\ WithMigration(rr) \in Objects
           /\ WithMigration(rr).id # NoId
<1>1. rr.migrations \in 0 .. MaxMigrations BY DEF Objects
<1>2. rr.migrations + 2 \in Ids /\ rr.migrations + 1 \in 0 .. MaxMigrations
  BY <1>1, FederationAssumption DEF Ids
<1>3. "Migrating" \in Phases BY DEF Phases
<1>4. WithMigration(rr) \in Objects BY <1>2, <1>3 DEF WithMigration, Objects
<1>5. WithMigration(rr).id = rr.migrations + 2 BY DEF WithMigration, Objects
<1> QED BY <1>1, <1>4, <1>5, FederationAssumption DEF NoId

(* A DELETE leaves its reservation dead and makes no other one live.       *)
LEMMA EndedType ==
    ASSUME broker \in [Ids -> BrokerStates], NEW i \in Ids
    PROVE  /\ Ended(i) \in [Ids -> BrokerStates]
           /\ Ended(i)[i].state # "live"
           /\ \A j \in Ids : Ended(i)[j].state = "live" =>
                                  j # i /\ broker[j].state = "live"
BY DEF Ended, BrokerStates

(* A POST makes no reservation live but its own.                           *)
LEMMA PostedType ==
    ASSUME broker \in [Ids -> BrokerStates], NEW i \in Ids,
           NEW p \in AnyProvider
    PROVE  /\ Posted(i, p) \in [Ids -> BrokerStates]
           /\ \A j \in Ids : Posted(i, p)[j].state = "live" =>
                                  j = i \/ broker[j].state = "live"
BY DEF Posted, BrokerStates

(* The pick is one of the providers.                                       *)
LEMMA PicksType == \A pick \in Picks : pick.provider \in Providers
BY DEF Picks, pickProviderAndSize

(* The id a post uses is one of the ids.                                   *)
LEMMA PostIdType ==
    ASSUME RequestTypeOK PROVE PostId \in Ids
BY FederationAssumption DEF RequestTypeOK, Work, Objects, PostId, Ids, NoId

(* The worker's bookkeeping: what each form of it leaves in `work`.        *)
LEMMA NewObjectType == NewObject \in Objects
BY FederationAssumption DEF NewObject, Objects, Phases, AnyProvider, Ids

(* The types of what the controller's steps make of it.                    *)
LEMMA DoneType ==
    ASSUME Done
    PROVE  work' \in Work /\ work'.pc = "idle" /\ ~work'.fresh
BY NewObjectType DEF Done, Idle, Work, WorkPCs, AnyProvider

(* The controller moves on.                                                *)
LEMMA GotoType ==
    ASSUME work \in Work, NEW pc \in WorkPCs, Goto(pc)
    PROVE  /\ work' \in Work /\ work'.pc = pc
           /\ work'.rr = work.rr /\ work'.fresh = work.fresh
BY DEF Goto, Work

(* The provider a request is placed on.                                    *)
LEMMA TargetType ==
    ASSUME work \in Work, NEW p \in Providers,
           work' = [work EXCEPT !.pc = "post", !.target = p]
    PROVE  /\ work' \in Work /\ work'.pc = "post"
           /\ work'.rr = work.rr /\ work'.fresh = work.fresh
BY DEF Work, WorkPCs, AnyProvider

(* What is about to be written.                                            *)
LEMMA ToWriteType ==
    ASSUME work \in Work, NEW next \in Objects, ToWrite(next)
    PROVE  /\ work' \in Work /\ work'.pc = "write"
           /\ work'.next = next /\ work'.fresh = work.fresh
BY NewObjectType DEF ToWrite, Idle, Work, WorkPCs, AnyProvider

(* A write that lands makes the cache stale unless it changes nothing.     *)
LEMMA StoreType ==
    ASSUME obj \in Objects, synced \in BOOLEAN, work \in Work,
           NEW new \in Objects, Store(new)
    PROVE  /\ obj' \in Objects /\ synced' \in BOOLEAN
           /\ ~work.fresh => obj' = obj /\ synced' = synced
           /\ work.fresh => obj' = new
           /\ work.fresh /\ synced' => synced /\ obj' = obj
           /\ cached' = cached /\ broker' = broker /\ node' = node
           /\ faults' = faults
BY DEF Store, Work

(* Typed values, as the steps below use them.                              *)
LEMMA Typed ==
    ASSUME RequestTypeOK
    PROVE  /\ obj \in Objects /\ cached \in Objects
           /\ work.rr \in Objects /\ work.next \in Objects
           /\ work.rr.id \in Ids \cup {NoId} /\ work.target \in AnyProvider
           /\ NoId \notin Ids /\ 1 \in Ids
BY FederationAssumption DEF RequestTypeOK, Work, Objects, Ids, NoId

-----------------------------------------------------------------------------
(* The invariant holds at the start.                                       *)
LEMMA InitIInv == RequestInit => IInv
<1> SUFFICES ASSUME RequestInit PROVE IInv OBVIOUS
<1>1. Idle \in Work BY NewObjectType DEF Idle, Work, WorkPCs, AnyProvider
<1>2. RequestTypeOK
  BY NewObjectType, <1>1, FederationAssumption
     DEF RequestInit, RequestTypeOK, BrokerStates, NodeStates, NoNode, AnyProvider
<1>3. Versions /\ Branch /\ Landing /\ Record
  BY DEF RequestInit, Versions, Branch, Landing, Record, Behind, NoneLive, Idle,
         NewObject
<1> QED BY <1>2, <1>3 DEF IInv

-----------------------------------------------------------------------------
(* The worker's steps keep it.  A pass begins with what the cache holds.   *)
LEMMA BeginStep == IInv /\ Begin => IInv'
<1> SUFFICES ASSUME IInv, Begin PROVE IInv' OBVIOUS
<1> USE DEF IInv
<1>1. cached \in Objects BY Typed
<1>2. FirstStep(cached) \in WorkPCs BY DEF FirstStep, WorkPCs
<1>3. /\ work' \in Work /\ work'.pc = FirstStep(cached)
      /\ work'.rr = cached /\ work'.fresh = synced
  BY <1>1, <1>2, NewObjectType DEF Begin, Idle, Work, AnyProvider, RequestTypeOK
<1>4. RequestTypeOK' BY <1>3 DEF RequestTypeOK, Begin
<1>5. Versions' BY <1>3 DEF Versions, Begin, Behind
<1>6. cached.state \in {"live", "deleting"} BY <1>1 DEF Begin, Objects
<1>7. Branch'
  BY <1>3, <1>6 DEF Branch, FirstStep
<1>8. Landing' BY <1>3 DEF Landing, FirstStep
<1>9. Record' BY <1>3, <1>6 DEF Record, NoneLive, FirstStep, Begin
<1> QED BY <1>4, <1>5, <1>7, <1>8, <1>9

(* The deletion branch: the reservation on record is dead before the       *)
(* finalizer goes, and a stale pass removes nothing.                       *)
LEMMA DeletionStep ==
    IInv /\ (Release \/ Unfinalize \/ AddFinalizer) => IInv'
<1> SUFFICES ASSUME IInv, Release \/ Unfinalize \/ AddFinalizer PROVE IInv'
  OBVIOUS
<1> USE DEF IInv
<1>1. CASE Release
  <2>1. work.rr.id \in Ids BY <1>1, Typed DEF Release, Branch
  <2>2. /\ work' \in Work /\ work'.pc = "unfinalize"
        /\ work'.rr = work.rr /\ work'.fresh = work.fresh
    BY <1>1, GotoType DEF Release, RequestTypeOK, WorkPCs
  <2>3. /\ broker' \in [Ids -> BrokerStates]
        /\ broker'[work.rr.id].state # "live"
        /\ \A j \in Ids : broker'[j].state = "live" =>
                              broker[j].state = "live"
    BY <1>1, <2>1, EndedType DEF Release, RequestTypeOK
  <2>4. RequestTypeOK' BY <1>1, <2>2, <2>3 DEF Release, RequestTypeOK
  <2>5. Versions' BY <1>1, <2>2 DEF Release, Versions, Behind
  <2>6. Branch' /\ Landing' BY <1>1, <2>2, <2>3 DEF Release, Branch, Landing
  <2>7. Record' BY <1>1, <2>2, <2>3 DEF Release, Record, NoneLive
  <2> QED BY <2>4, <2>5, <2>6, <2>7
<1>2. CASE Unfinalize
  <2> DEFINE new == [obj EXCEPT !.state = "gone", !.finalizer = FALSE]
  <2>1. /\ new \in Objects /\ new.id = obj.id /\ new.state = "gone"
        /\ new.phase = obj.phase
    BY Typed DEF Objects
  <2>2. Store(new) /\ Done /\ work.pc = "unfinalize" BY <1>2 DEF Unfinalize
  <2>3. work' \in Work /\ work'.pc = "idle" /\ ~work'.fresh
    BY <2>2, DoneType
  <2> HIDE DEF new
  <2>4. /\ obj' \in Objects /\ synced' \in BOOLEAN
        /\ ~work.fresh => obj' = obj /\ synced' = synced
        /\ work.fresh => obj' = new
        /\ work.fresh /\ synced' => synced /\ obj' = obj
        /\ cached' = cached /\ broker' = broker /\ node' = node
        /\ faults' = faults
    BY <2>1, <2>2, StoreType DEF RequestTypeOK
  <2>5. RequestTypeOK' BY <2>3, <2>4 DEF RequestTypeOK
  <2>6. obj'.id = obj.id /\ obj'.phase = obj.phase BY <2>1, <2>4 DEF RequestTypeOK, Work
  <2>7. Versions' BY <2>2, <2>3, <2>4, <2>6 DEF Versions, Behind
  <2>8. Branch' /\ Landing' BY <2>3 DEF Branch, Landing
  <2>9. Record'
    <3>1. CASE ~work.fresh
      BY <3>1, <2>2, <2>3, <2>4 DEF Record, NoneLive
    <3>2. CASE work.fresh
      <4>1. /\ work.rr = obj /\ cached = obj /\ obj.state = "deleting"
            /\ obj.id # NoId => broker[obj.id].state # "live"
        BY <3>2, <2>2 DEF Versions, Branch
      <4>2. obj.id # NoId => NoneLive BY <4>1 DEF Record, NoneLive
      <4> QED BY <3>2, <4>1, <4>2, <2>1, <2>3, <2>4, <2>6
              DEF Record, NoneLive
    <3> QED BY <3>1, <3>2
  <2> QED BY <2>5, <2>7, <2>8, <2>9
<1>3. CASE AddFinalizer
  <2> DEFINE new == [obj EXCEPT !.finalizer = TRUE]
  <2>1. /\ new \in Objects /\ new.id = obj.id /\ new.state = obj.state
        /\ new.phase = obj.phase /\ new.finalizer
    BY Typed DEF Objects
  <2>2. Store(new) /\ Done /\ work.pc = "finalizer" BY <1>3 DEF AddFinalizer
  <2>3. work' \in Work /\ work'.pc = "idle" /\ ~work'.fresh
    BY <2>2, DoneType
  <2> HIDE DEF new
  <2>4. /\ obj' \in Objects /\ synced' \in BOOLEAN
        /\ ~work.fresh => obj' = obj /\ synced' = synced
        /\ work.fresh => obj' = new
        /\ work.fresh /\ synced' => synced /\ obj' = obj
        /\ cached' = cached /\ broker' = broker /\ node' = node
        /\ faults' = faults
    BY <2>1, <2>2, StoreType DEF RequestTypeOK
  <2>5. RequestTypeOK' BY <2>3, <2>4 DEF RequestTypeOK
  <2>6. /\ obj'.id = obj.id /\ obj'.phase = obj.phase
        /\ obj'.state = obj.state /\ (obj.finalizer => obj'.finalizer)
    BY <2>1, <2>4 DEF RequestTypeOK, Work
  <2>7. Versions' BY <2>2, <2>3, <2>4, <2>6 DEF Versions, Behind
  <2>8. Branch' /\ Landing' BY <2>3 DEF Branch, Landing
  <2>9. Record' BY <2>2, <2>3, <2>4, <2>6 DEF Record, NoneLive
  <2> QED BY <2>5, <2>7, <2>8, <2>9
<1> QED BY <1>1, <1>2, <1>3

(* Reserving: a pass posts only the id on record, or the first one while   *)
(* none is.                                                                *)
LEMMA ReservingStep ==
    IInv /\ (Pick \/ Post \/ PostRefused \/ PostReplyLost \/ WriteStatus)
      => IInv'
<1> SUFFICES ASSUME IInv,
                    Pick \/ Post \/ PostRefused \/ PostReplyLost \/ WriteStatus
             PROVE  IInv'
  OBVIOUS
<1> USE DEF IInv
<1>1. CASE Pick
  <2>1. work.pc = "pick" /\ work.rr.id = NoId BY <1>1 DEF Pick, Branch
  <2>2. CASE ToWrite(WithPhase(work.rr, "Pending"))
    <3> DEFINE next == WithPhase(work.rr, "Pending")
    <3>1. /\ next \in Objects /\ next.id = work.rr.id
          /\ next.migrations = work.rr.migrations
      BY Typed, WithPhaseType DEF Phases
    <3> HIDE DEF next
    <3>2. /\ work' \in Work /\ work'.pc = "write"
          /\ work'.next = next /\ work'.fresh = work.fresh
      BY <2>2, <3>1, ToWriteType DEF RequestTypeOK, next
    <3>3. RequestTypeOK' BY <1>1, <3>2 DEF Pick, RequestTypeOK
    <3>4. Versions' BY <1>1, <2>1, <3>2 DEF Pick, Versions, Behind
    <3>5. Branch' BY <3>2 DEF Branch
    <3>6. Landing'
      BY <1>1, <2>1, <3>1, <3>2 DEF Pick, Landing, Versions, Branch
    <3>7. Record' BY <1>1, <2>1, <3>2 DEF Pick, Record, NoneLive
    <3> QED BY <3>3, <3>4, <3>5, <3>6, <3>7
  <2>3. ASSUME NEW pick \in Picks,
               work' = [work EXCEPT !.pc = "post", !.target = pick.provider]
        PROVE  IInv'
    <3>1. /\ work' \in Work /\ work'.pc = "post"
          /\ work'.rr = work.rr /\ work'.fresh = work.fresh
      BY <2>3, PicksType, TargetType DEF RequestTypeOK
    <3>2. RequestTypeOK' BY <1>1, <3>1 DEF Pick, RequestTypeOK
    <3>3. Versions' BY <1>1, <2>1, <3>1 DEF Pick, Versions, Behind
    <3>4. Branch' /\ Landing' BY <2>1, <3>1 DEF Branch, Landing
    <3>5. Record' BY <1>1, <2>1, <3>1 DEF Pick, Record, NoneLive
    <3> QED BY <3>2, <3>3, <3>4, <3>5
  <2> QED BY <1>1, <2>2, <2>3 DEF Pick
<1>2. CASE Post \/ PostRefused \/ PostReplyLost
  <2>1. /\ work.pc = "post" /\ PostId \in Ids
        /\ work.rr.id = NoId \/ work.rr.phase = "Migrating"
    BY <1>2, PostIdType DEF Post, PostRefused, PostReplyLost, Branch
  <2>2. PICK next \in Objects :
              /\ ToWrite(next) /\ next.migrations = work.rr.migrations
              /\ next.id \in {work.rr.id, PostId}
    <3>1. CASE Post
      BY <3>1, <2>1, Typed, WithReservedType DEF Post
    <3>2. CASE PostRefused \/ PostReplyLost
      BY <3>2, Typed, WithPhaseType DEF PostRefused, PostReplyLost, Phases
    <3> QED BY <1>2, <3>1, <3>2
  <2>3. /\ work' \in Work /\ work'.pc = "write"
        /\ work'.next = next /\ work'.fresh = work.fresh
    BY <2>2, ToWriteType DEF RequestTypeOK
  <2>4. /\ broker' \in [Ids -> BrokerStates]
        /\ \A j \in Ids : broker'[j].state = "live" =>
                              j = PostId \/ broker[j].state = "live"
    <3>1. broker' = broker \/ broker' = Posted(PostId, work.target)
      BY <1>2 DEF Post, PostRefused, PostReplyLost
    <3> QED BY <3>1, <2>1, Typed, PostedType DEF RequestTypeOK
  <2>5. /\ obj' = obj /\ cached' = cached /\ synced' = synced
        /\ node' = node /\ faults' \in 0 .. MaxFaults
    BY <1>2, FederationAssumption
       DEF Post, PostRefused, PostReplyLost, Fault, RequestTypeOK
  <2>6. RequestTypeOK' BY <2>3, <2>4, <2>5 DEF RequestTypeOK
  <2>7. Versions' BY <2>1, <2>3, <2>5 DEF Versions, Behind
  <2>8. Branch' BY <2>3 DEF Branch
  <2>9. Landing'
    BY <2>1, <2>2, <2>3, <2>5 DEF Landing, Versions, Branch, PostId
  <2>10. PostId = obj.id \/ (obj.id = NoId /\ PostId = 1)
    BY <2>1 DEF PostId, Versions, Behind
  <2>11. Record' BY <2>1, <2>3, <2>4, <2>5, <2>10 DEF Record, NoneLive
  <2> QED BY <2>6, <2>7, <2>8, <2>9, <2>11
<1>3. CASE WriteStatus
  <2> DEFINE new == [work.next EXCEPT !.state = obj.state,
                                      !.finalizer = obj.finalizer]
  <2>1. /\ new \in Objects /\ new.id = work.next.id
        /\ new.state = obj.state /\ new.finalizer = obj.finalizer
    BY Typed DEF Objects
  <2>2. Store(new) /\ Done /\ work.pc = "write" BY <1>3 DEF WriteStatus
  <2>3. work' \in Work /\ work'.pc = "idle" /\ ~work'.fresh
    BY <2>2, DoneType
  <2> HIDE DEF new
  <2>4. /\ obj' \in Objects /\ synced' \in BOOLEAN
        /\ ~work.fresh => obj' = obj /\ synced' = synced
        /\ work.fresh => obj' = new
        /\ work.fresh /\ synced' => synced /\ obj' = obj
        /\ cached' = cached /\ broker' = broker /\ node' = node
        /\ faults' = faults
    BY <2>1, <2>2, StoreType DEF RequestTypeOK
  <2>5. RequestTypeOK' BY <2>3, <2>4 DEF RequestTypeOK
  <2>6. Branch' /\ Landing' BY <2>3 DEF Branch, Landing
  <2>7. CASE ~work.fresh
    <3>1. Versions' BY <2>7, <2>3, <2>4 DEF Versions, Behind
    <3>2. Record' BY <2>7, <2>2, <2>3, <2>4 DEF Record, NoneLive
    <3> QED BY <2>5, <2>6, <3>1, <3>2
  <2>8. CASE work.fresh
    <3>1. /\ obj' = new /\ cached = obj
          /\ obj.state = "live" /\ obj.finalizer
          /\ \/ new.id = obj.id
             \/ obj.id = NoId /\ new.id = 1
             \/ obj.id # NoId /\ obj.phase # "Migrating" /\ NoneLive
      BY <2>8, <2>1, <2>2, <2>4 DEF Versions, Landing
    <3>2. Versions' BY <2>8, <2>3, <2>4, <3>1 DEF Versions, Behind
    <3>3. Record' BY <2>1, <2>3, <2>4, <3>1, Typed DEF Record, NoneLive
    <3> QED BY <2>5, <2>6, <3>2, <3>3
  <2> QED BY <2>7, <2>8 DEF RequestTypeOK, Work
<1> QED BY <1>1, <1>2, <1>3

(* With a reservation: a migration records the next id only once the last  *)
(* one is dead.                                                            *)
LEMMA HoldingStep ==
    IInv /\ (ReEvaluate \/ BreakOld \/ CompleteMigration \/ HoldReservation)
      => IInv'
<1> SUFFICES ASSUME IInv,
                    \/ ReEvaluate \/ BreakOld
                    \/ CompleteMigration \/ HoldReservation
             PROVE  IInv'
  OBVIOUS
<1> USE DEF IInv
<1>1. CASE ReEvaluate
  <2>1. PICK pc \in {"hold", "break"} :
              /\ Goto(pc)
              /\ pc = "break" => work.rr.migrations < MaxMigrations
    BY <1>1 DEF ReEvaluate
  <2>2. /\ work' \in Work /\ work'.pc = pc
        /\ work'.rr = work.rr /\ work'.fresh = work.fresh
    BY <2>1, GotoType DEF RequestTypeOK, WorkPCs
  <2>3. RequestTypeOK' BY <1>1, <2>2 DEF ReEvaluate, RequestTypeOK
  <2>4. Versions' BY <1>1, <2>2 DEF ReEvaluate, Versions, Behind
  <2>5. Branch' /\ Landing'
    BY <1>1, <2>1, <2>2 DEF ReEvaluate, Branch, Landing
  <2>6. Record' BY <1>1, <2>2 DEF ReEvaluate, Record, NoneLive
  <2> QED BY <2>3, <2>4, <2>5, <2>6
<1>2. CASE BreakOld
  <2> DEFINE next == WithMigration(work.rr)
  <2>1. /\ work.pc = "break" /\ work.rr.id \in Ids /\ work.rr.rested
        /\ work.rr.phase # "Migrating" /\ next \in Objects
    BY <1>2, Typed, WithMigrationType DEF BreakOld, Branch
  <2> HIDE DEF next
  <2>2. /\ work' \in Work /\ work'.pc = "write"
        /\ work'.next = next /\ work'.fresh = work.fresh
    BY <1>2, <2>1, ToWriteType DEF BreakOld, RequestTypeOK, next
  <2>3. /\ broker' \in [Ids -> BrokerStates]
        /\ broker'[work.rr.id].state # "live"
        /\ \A j \in Ids : broker'[j].state = "live" =>
                              broker[j].state = "live"
    BY <1>2, <2>1, EndedType DEF BreakOld, RequestTypeOK
  <2>4. RequestTypeOK' BY <1>2, <2>2, <2>3 DEF BreakOld, RequestTypeOK
  <2>5. Versions' BY <1>2, <2>1, <2>2 DEF BreakOld, Versions, Behind
  <2>6. Branch' BY <2>2 DEF Branch
  <2>7. Landing'
    <3>1. SUFFICES ASSUME work.fresh PROVE Landing'
      BY <2>2 DEF Landing
    <3>2. work.rr = obj /\ obj.state = "live" /\ obj.finalizer
      BY <2>1, <3>1 DEF Versions, Branch
    <3>3. NoneLive' BY <2>1, <2>3, <3>2, Typed DEF NoneLive, Record
    <3> QED BY <1>2, <2>1, <3>2, <3>3, Typed DEF Landing, BreakOld
  <2>8. Record' BY <1>2, <2>1, <2>2, <2>3 DEF BreakOld, Record, NoneLive
  <2> QED BY <2>4, <2>5, <2>6, <2>7, <2>8
<1>3. CASE CompleteMigration
  <2>1. work.pc = "complete" /\ work.rr.phase = "Migrating"
    BY <1>3 DEF CompleteMigration, Branch
  <2>2. CASE Done
    <3>1. work' \in Work /\ work'.pc = "idle" /\ ~work'.fresh
      BY <2>2, DoneType
    <3> QED BY <1>3, <2>1, <3>1
            DEF CompleteMigration, RequestTypeOK, Versions, Behind, Branch, Landing,
                Record, NoneLive
  <2>3. ASSUME NEW pick \in Picks,
               work' = [work EXCEPT !.pc = "post", !.target = pick.provider]
        PROVE  IInv'
    <3>1. /\ work' \in Work /\ work'.pc = "post"
          /\ work'.rr = work.rr /\ work'.fresh = work.fresh
      BY <2>3, PicksType, TargetType DEF RequestTypeOK
    <3>2. RequestTypeOK' BY <1>3, <3>1 DEF CompleteMigration, RequestTypeOK
    <3>3. Versions' BY <1>3, <2>1, <3>1 DEF CompleteMigration, Versions, Behind
    <3>4. Branch' /\ Landing' BY <2>1, <3>1 DEF Branch, Landing
    <3>5. Record' BY <1>3, <2>1, <3>1 DEF CompleteMigration, Record, NoneLive
    <3> QED BY <3>2, <3>3, <3>4, <3>5
  <2> QED BY <1>3, <2>2, <2>3 DEF CompleteMigration
<1>4. CASE HoldReservation
  <2>1. PICK next \in Objects :
              /\ ToWrite(next) /\ next.id = work.rr.id
              /\ next.migrations = work.rr.migrations
    BY <1>4, Typed, WithPhaseType DEF HoldReservation, Phases
  <2>2. /\ work' \in Work /\ work'.pc = "write"
        /\ work'.next = next /\ work'.fresh = work.fresh
    BY <2>1, ToWriteType DEF RequestTypeOK
  <2>3. node' \in NodeStates BY <1>4 DEF HoldReservation, RequestTypeOK, NodeStates
  <2>4. RequestTypeOK' BY <1>4, <2>2, <2>3 DEF HoldReservation, RequestTypeOK
  <2>5. Versions' BY <1>4, <2>2 DEF HoldReservation, Versions, Behind
  <2>6. Branch' BY <2>2 DEF Branch
  <2>7. Landing'
    BY <1>4, <2>1, <2>2 DEF HoldReservation, Landing, Versions, Branch
  <2>8. Record' BY <1>4, <2>2 DEF HoldReservation, Record, NoneLive
  <2> QED BY <2>4, <2>5, <2>6, <2>7, <2>8
<1> QED BY <1>1, <1>2, <1>3, <1>4

-----------------------------------------------------------------------------
(* Faults of the worker, and the steps of everything around it.            *)
LEMMA FaultStep == IInv /\ (ReleaseFails \/ Crash) => IInv'
<1> SUFFICES ASSUME IInv, ReleaseFails \/ Crash PROVE IInv' OBVIOUS
<1> USE DEF IInv
<1>1. work' \in Work /\ work'.pc = "idle" /\ ~work'.fresh
  BY DoneType DEF ReleaseFails, Crash
<1>2. /\ broker' \in [Ids -> BrokerStates]
      /\ \A j \in Ids : broker'[j].state = "live" =>
                            broker[j].state = "live"
  <2>1. CASE Crash BY <2>1 DEF Crash, RequestTypeOK
  <2>2. CASE ReleaseFails
    <3>1. work.rr.id \in Ids BY <2>2, Typed DEF ReleaseFails, Branch
    <3> QED BY <2>2, <3>1, EndedType DEF ReleaseFails, RequestTypeOK
  <2> QED BY <2>1, <2>2
<1>3. /\ obj' = obj /\ cached' = cached /\ synced' = synced
      /\ node' = node /\ faults' \in 0 .. MaxFaults
  BY FederationAssumption DEF ReleaseFails, Crash, Fault, RequestTypeOK
<1>4. RequestTypeOK' BY <1>1, <1>2, <1>3 DEF RequestTypeOK
<1>5. Versions' BY <1>1, <1>3 DEF Versions, Behind
<1>6. Branch' /\ Landing' BY <1>1 DEF Branch, Landing
<1>7. Record' BY <1>1, <1>2, <1>3 DEF Record, NoneLive
<1> QED BY <1>4, <1>5, <1>6, <1>7

(* The object: a deletion makes every copy stale; a request that goes      *)
(* at once, without a finalizer, has nothing on record.                    *)
LEMMA ObjectStep == IInv /\ (UserDelete \/ Sync \/ Rest) => IInv'
<1> SUFFICES ASSUME IInv, UserDelete \/ Sync \/ Rest PROVE IInv' OBVIOUS
<1> USE DEF IInv
<1>1. CASE UserDelete
  <2>1. /\ obj' \in Objects /\ obj'.id = obj.id /\ obj'.phase = obj.phase
        /\ obj'.state \in {"deleting", "gone"}
        /\ obj'.state = "gone" => ~obj.finalizer
    BY <1>1, Typed DEF UserDelete, Objects
  <2>2. /\ work' \in Work /\ work'.pc = work.pc /\ work'.rr = work.rr
        /\ ~work'.fresh
    BY <1>1 DEF UserDelete, RequestTypeOK, Work
  <2>3. RequestTypeOK' BY <1>1, <2>1, <2>2 DEF UserDelete, RequestTypeOK
  <2>4. Versions' BY <1>1, <2>1, <2>2 DEF UserDelete, Versions, Behind
  <2>5. Branch' /\ Landing' BY <1>1, <2>2 DEF UserDelete, Branch, Landing
  <2>6. Record' BY <1>1, <2>1 DEF UserDelete, Record, NoneLive
  <2> QED BY <2>3, <2>4, <2>5, <2>6
<1>2. CASE Sync
  <2>1. RequestTypeOK' BY <1>2 DEF Sync, RequestTypeOK
  <2>2. Versions' BY <1>2 DEF Sync, Versions, Behind
  <2>3. Branch' /\ Landing' BY <1>2 DEF Sync, Branch, Landing, NoneLive
  <2>4. Record' BY <1>2 DEF Sync, Record, NoneLive
  <2> QED BY <2>1, <2>2, <2>3, <2>4
<1>3. CASE Rest
  <2> DEFINE Aged(o) == [o EXCEPT !.rested = TRUE]
  <2>1. \A o \in Objects :
            /\ Aged(o) \in Objects /\ Aged(o).rested
            /\ Aged(o).id = o.id /\ Aged(o).phase = o.phase
            /\ Aged(o).state = o.state /\ Aged(o).finalizer = o.finalizer
            /\ Aged(o).migrations = o.migrations
    BY DEF Objects
  <2>2. /\ work'.pc = work.pc /\ work'.fresh = work.fresh
        /\ work'.rr = Aged(work.rr) /\ work'.next = Aged(work.next)
    BY <1>3 DEF Rest, RequestTypeOK, Work
  <2>3. work' \in Work BY <1>3, <2>1, Typed DEF Rest, RequestTypeOK, Work
  <2>4. obj' = Aged(obj) /\ cached' = Aged(cached) BY <1>3 DEF Rest
  <2> HIDE DEF Aged
  <2>5. /\ obj' \in Objects /\ cached' \in Objects
        /\ obj'.rested /\ obj'.id = obj.id /\ obj'.phase = obj.phase
        /\ obj'.state = obj.state /\ obj'.finalizer = obj.finalizer
        /\ obj'.migrations = obj.migrations
        /\ cached'.id = cached.id /\ cached'.phase = cached.phase
        /\ cached'.state = cached.state
    BY <2>1, <2>4, Typed
  <2>6. /\ synced' = synced /\ broker' = broker /\ node' = node
        /\ faults' = faults
    BY <1>3 DEF Rest
  <2>7. RequestTypeOK' BY <2>3, <2>5, <2>6 DEF RequestTypeOK
  <2>8. /\ cached = obj => cached' = obj'
        /\ work.rr = obj => work'.rr = obj'
        /\ work'.rr.id = work.rr.id /\ work'.rr.phase = work.rr.phase
    BY <2>1, <2>2, <2>4, Typed
  <2>9. Versions' BY <2>2, <2>5, <2>6, <2>8 DEF Versions, Behind
  <2>10. Branch' BY <2>1, <2>2, <2>6, Typed DEF Branch
  <2>11. Landing'
    BY <2>1, <2>2, <2>5, <2>6, Typed DEF Landing, NoneLive
  <2>12. Record' BY <2>2, <2>5, <2>6 DEF Record, NoneLive
  <2> QED BY <2>7, <2>9, <2>10, <2>11, <2>12
<1> QED BY <1>1, <1>2, <1>3

(* The Broker and the nodes: nothing of theirs makes a reservation live.   *)
LEMMA AroundStep ==
    ASSUME IInv,
           \/ NodeDisappears \/ ScaleDown
           \/ \E i \in Ids : BrokerEnds(i) \/ BrokerPrunes(i) \/ NodeAppears(i)
    PROVE  IInv'
<1> USE DEF IInv
<1>1. /\ obj' = obj /\ cached' = cached /\ synced' = synced
      /\ work' = work /\ faults' = faults
  BY DEF NodeDisappears, ScaleDown, BrokerEnds, BrokerPrunes, NodeAppears
<1>2. /\ broker' \in [Ids -> BrokerStates]
      /\ \A j \in Ids : broker'[j].state = "live" =>
                            broker[j].state = "live"
  <2>1. CASE ScaleDown
    <3>1. node.id = NoId => node = NoNode \/ node.protected
      BY DEF RequestTypeOK, NodeStates, NoNode
    <3>2. node.id \in Ids BY <2>1, <3>1 DEF ScaleDown, RequestTypeOK, NodeStates
    <3> QED BY <2>1, <3>2, EndedType DEF ScaleDown, RequestTypeOK
  <2>2. ASSUME NEW i \in Ids, BrokerEnds(i)
        PROVE  /\ broker' \in [Ids -> BrokerStates]
               /\ \A j \in Ids : broker'[j].state = "live" =>
                                     broker[j].state = "live"
    BY <2>2, EndedType DEF BrokerEnds, RequestTypeOK
  <2>3. ASSUME NEW i \in Ids, BrokerPrunes(i)
        PROVE  /\ broker' \in [Ids -> BrokerStates]
               /\ \A j \in Ids : broker'[j].state = "live" =>
                                     broker[j].state = "live"
    BY <2>3 DEF BrokerPrunes, RequestTypeOK, BrokerStates, AnyProvider
  <2> QED BY <2>1, <2>2, <2>3 DEF NodeDisappears, NodeAppears, RequestTypeOK
<1>3. node' \in NodeStates
  <2>1. NoNode \in NodeStates BY DEF NoNode, NodeStates
  <2>2. \A i \in Ids : [id |-> i, protected |-> FALSE] \in NodeStates
    BY DEF NodeStates
  <2> QED
    BY <2>1, <2>2 DEF NodeDisappears, ScaleDown, BrokerEnds, BrokerPrunes,
                      NodeAppears, RequestTypeOK
<1>4. RequestTypeOK' BY <1>1, <1>2, <1>3 DEF RequestTypeOK
<1>5. Versions' BY <1>1 DEF Versions, Behind
<1>6. Branch'
  BY <1>1, <1>2, Typed DEF Branch
<1>7. Landing' BY <1>1, <1>2 DEF Landing, NoneLive
<1>8. Record' BY <1>1, <1>2 DEF Record, NoneLive
<1> QED BY <1>4, <1>5, <1>6, <1>7, <1>8

(* Every step keeps the invariant.                                         *)
LEMMA NextIInv == IInv /\ [RequestNext]_RequestVars => IInv'
<1> SUFFICES ASSUME IInv, [RequestNext]_RequestVars PROVE IInv' OBVIOUS
<1>1. CASE RequestNext
  BY <1>1, BeginStep, DeletionStep, ReservingStep, HoldingStep, FaultStep,
     ObjectStep, AroundStep DEF RequestNext, Reconcile
<1>2. CASE UNCHANGED RequestVars
  BY <1>2 DEF RequestVars, IInv, RequestTypeOK, Versions, Branch, Landing, Record, Behind,
              NoneLive
<1> QED BY <1>1, <1>2

-----------------------------------------------------------------------------
(* The invariant holds of every behaviour of the controller.               *)
THEOREM RequestInvariant == RequestSpec => []IInv
BY InitIInv, NextIInv, PTL DEF RequestSpec

(* Ids, counts and phases stay in range: no migration beyond the last one  *)
(* counted (nextReservationID, setMigrating).                              *)
THEOREM RequestTypeCorrect == RequestSpec => []RequestTypeOK
<1>1. IInv => RequestTypeOK BY DEF IInv
<1> QED BY <1>1, RequestInvariant, PTL

(* A request never holds two reservations: the only live one is the one on *)
(* record, or the first one while none is (maybeStartMigration,            *)
(* nextReservationID).                                                     *)
THEOREM NeverTwoLive == RequestSpec => []OneLive
<1>1. IInv => OneLive
  BY Typed DEF IInv, Record, OneLive
<1> QED BY <1>1, RequestInvariant, PTL

(* The finalizer of a request with a reservation on record goes only when  *)
(* nothing of it is live (Reconcile's deletion branch).                    *)
THEOREM DeletionReleases == RequestSpec => []ReleasedOnDelete
<1>1. IInv => ReleasedOnDelete
  BY DEF IInv, Record, NoneLive, ReleasedOnDelete
<1> QED BY <1>1, RequestInvariant, PTL

(* The count of migrations grows only on a request whose last transition   *)
(* is ReEvalInterval old (needsReEvaluation, on whatever copy was read).   *)
THEOREM MigrationsRest == RequestSpec => NoFlap
<1>1. IInv /\ [RequestNext]_RequestVars =>
          [obj'.migrations # obj.migrations => obj.rested]_RequestVars
  <2> SUFFICES ASSUME IInv, RequestNext, obj'.migrations # obj.migrations
               PROVE  obj.rested
    OBVIOUS
  <2>1. CASE WriteStatus
    <3>1. obj'.migrations = work.next.migrations /\ work.fresh
      BY <2>1, Typed DEF WriteStatus, Store, Objects, IInv
    <3> QED BY <2>1, <3>1 DEF WriteStatus, IInv, Landing
  <2>2. CASE Unfinalize
    BY <2>2, Typed DEF Unfinalize, Store, Objects, IInv
  <2>3. CASE AddFinalizer
    BY <2>3, Typed DEF AddFinalizer, Store, Objects, IInv
  <2>4. CASE UserDelete BY <2>4, Typed DEF UserDelete, Objects, IInv
  <2>5. CASE Rest BY <2>5, Typed DEF Rest, Objects, IInv
  <2>6. CASE obj' = obj BY <2>6
  <2> QED
    BY <2>1, <2>2, <2>3, <2>4, <2>5, <2>6
       DEF RequestNext, Reconcile, Begin, Release, Pick, Post, PostRefused,
           ReEvaluate, BreakOld, CompleteMigration, HoldReservation,
           ReleaseFails, PostReplyLost, Crash, Sync, NodeDisappears,
           ScaleDown, BrokerEnds, BrokerPrunes, NodeAppears
<1> QED BY <1>1, RequestInvariant, PTL DEF RequestSpec, NoFlap
=============================================================================
