-------------------------- MODULE ChunkLedgerProofs --------------------------
(***************************************************************************)
(* Proofs about ChunkLedger, for any number of reservations and handlers,  *)
(* any reports of the provider and any number of faults.                   *)
(***************************************************************************)
EXTENDS ChunkLedger, FiniteSetTheorems, TLAPS

-----------------------------------------------------------------------------
(* The operators on a ClusterAdvertisement status                          *)

(* Clamped subtraction stays a natural number and undoes at most one step. *)
LEMMA MonusNat ==
    ASSUME NEW a \in Nat, NEW b \in Nat
    PROVE  Monus(a, b) \in Nat /\ Monus(a, b) <= a
BY DEF Monus

(* reserveChunks and the credits keep the shape of the status.             *)
LEMMA WithReservedType ==
    ASSUME NEW a \in AdvertisementStatus, NEW n \in Nat
    PROVE  /\ WithReserved(a, n) \in AdvertisementStatus
           /\ WithReserved(a, n).reserved = n
           /\ WithReserved(a, n).total = a.total
           /\ WithReserved(a, n).free = Monus(a.total, n)
BY MonusNat DEF WithReserved, AdvertisementStatus

(* reserveChunks adds one to the counter and recomputes the free count.    *)
LEMMA ChargedType ==
    ASSUME NEW a \in AdvertisementStatus
    PROVE  /\ Charged(a) \in AdvertisementStatus
           /\ Charged(a).reserved = a.reserved + 1
           /\ Charged(a).total = a.total
           /\ Charged(a).free = Monus(a.total, a.reserved + 1)
<1>1. a.reserved + 1 \in Nat BY DEF AdvertisementStatus
<1> QED BY <1>1, WithReservedType DEF Charged

(* adjustReservedChunks and releaseChunks take one off, never below zero.  *)
LEMMA CreditedType ==
    ASSUME NEW a \in AdvertisementStatus
    PROVE  /\ Credited(a) \in AdvertisementStatus
           /\ Credited(a).reserved = Monus(a.reserved, 1)
           /\ Credited(a).total = a.total
           /\ Credited(a).free = Monus(a.total, Monus(a.reserved, 1))
<1>1. a.reserved \in Nat BY DEF AdvertisementStatus
<1>2. Monus(a.reserved, 1) \in Nat BY <1>1, MonusNat
<1> QED BY <1>2, WithReservedType DEF Credited

(* A report keeps ReservedChunks and recomputes the free count from it.    *)
LEMMA TouchedType ==
    ASSUME NEW a \in AdvertisementStatus, NEW count \in Nat
    PROVE  /\ Touched(a, count) \in AdvertisementStatus
           /\ Touched(a, count).reserved = a.reserved
           /\ Touched(a, count).total = count
           /\ Touched(a, count).free = Monus(count, a.reserved)
BY MonusNat DEF Touched, AdvertisementStatus

(* An aged advertisement keeps its counters and offers nothing.            *)
LEMMA StaledType ==
    ASSUME NEW a \in AdvertisementStatus
    PROVE  /\ Staled(a) \in AdvertisementStatus
           /\ Staled(a).reserved = a.reserved
           /\ Staled(a).total = a.total
           /\ Staled(a).free = 0
BY DEF Staled, AdvertisementStatus

-----------------------------------------------------------------------------
(* Type correctness                                                        *)

(* Handlers and the worker always name a reservation while they are busy,  *)
(* and only one that exists or existed is released, credited or finalized. *)
Assigned ==
    /\ \A h \in Handlers :
          /\ hs[h].pc # "idle" => hs[h].resv \in Resv
          /\ hs[h].pc \in {"adjust", "mark"} => phase[hs[h].resv] # "Absent"
    /\ rec.pc # "idle" => rec.resv \in Resv /\ phase[rec.resv] # "Absent"

Inv0 == TypeOK /\ Assigned

(* Init establishes the invariant of the type proof: a Broker with no      *)
(* work.                                                                   *)
LEMMA Inv0Init == Init => Inv0
BY LedgerAssumption
DEF Init, Inv0, TypeOK, Assigned, NoAdvertisement, AdvertisementStatus, Phases,
    PeerStates, HandlerStates, HandlerPCs, WorkerStates, WorkerPCs, IdleHandler,
    IdleWorker

(* Every handler, worker and environment step keeps types and assignments. *)
LEMMA Inv0Step == Inv0 /\ [Next]_vars => Inv0'
<1> SUFFICES ASSUME Inv0, [Next]_vars PROVE Inv0'
    OBVIOUS
<1> USE LedgerAssumption
    DEF Inv0, TypeOK, Assigned, Phases, PeerStates, HandlerStates, HandlerPCs,
        WorkerStates, WorkerPCs, IdleHandler, IdleWorker, resvVars, Exists, Idle,
        Goto, Finish, CreditFor, Drop, WorkerIdle
<1>1. ASSUME NEW h \in Handlers, NEW r \in Resv, CreateBegin(h, r) PROVE Inv0'
    BY <1>1 DEF CreateBegin
<1>2. ASSUME NEW h \in Handlers, NEW r \in Resv, ReleaseBegin(h, r) PROVE Inv0'
    BY <1>2 DEF ReleaseBegin
<1>3. ASSUME NEW h \in Handlers, ReserveChunks(h) PROVE Inv0'
  <2>1. UNCHANGED <<resvVars, rec, credits, lost, faults>>
    BY <1>3 DEF ReserveChunks
  <2>2. adv' \in AdvertisementStatus
    BY <1>3, ChargedType DEF ReserveChunks
  <2>3. \/ hs' = [hs EXCEPT ![h].pc = "create"]
        \/ hs' = [hs EXCEPT ![h] = IdleHandler]
    BY <1>3 DEF ReserveChunks
  <2>4. hs[h].pc = "reserve"
    BY <1>3 DEF ReserveChunks
  <2>5. hs' \in [Handlers -> HandlerStates]
    BY <2>3
  <2>6. Assigned'
    BY <2>1, <2>3, <2>4
  <2> QED BY <2>1, <2>2, <2>5, <2>6
<1>4. ASSUME NEW h \in Handlers, CreateReservation(h) PROVE Inv0'
  <2>1. CASE phase[hs[h].resv] = "Absent"
    BY <1>4, <2>1 DEF CreateReservation
  <2>2. CASE phase[hs[h].resv] # "Absent"
    <3>1. UNCHANGED <<adv, resvVars, rec, credits, lost, faults>>
      BY <1>4, <2>2 DEF CreateReservation
    <3>2. hs' \in [Handlers -> HandlerStates]
      BY <1>4, <2>2 DEF CreateReservation
    <3>3. \A k \in Handlers : k # h => hs'[k] = hs[k]
      BY <1>4, <2>2 DEF CreateReservation
    <3>4. hs'[h].pc = "rollback" /\ hs'[h].resv = hs[h].resv /\ hs[h].pc = "create"
      BY <1>4, <2>2 DEF CreateReservation
    <3>5. Assigned'
      BY <3>1, <3>3, <3>4
    <3> QED BY <3>1, <3>2, <3>5
  <2> QED BY <2>1, <2>2
<1>5. ASSUME NEW h \in Handlers, Rollback(h) PROVE Inv0'
    BY <1>5, CreditedType DEF Rollback
<1>6. ASSUME NEW h \in Handlers, ReleaseAdjust(h) PROVE Inv0'
    BY <1>6, CreditedType DEF ReleaseAdjust
<1>7. ASSUME NEW h \in Handlers, MarkChunksReleased(h) PROVE Inv0'
    BY <1>7 DEF MarkChunksReleased
<1>8. ASSUME NEW h \in Handlers, CreateFails(h) PROVE Inv0'
    BY <1>8 DEF CreateFails
<1>9. ASSUME NEW h \in Handlers, CutShort(h) PROVE Inv0'
    BY <1>9 DEF CutShort
<1>10. ASSUME NEW r \in Resv, AddFinalizer(r) PROVE Inv0'
    BY <1>10 DEF AddFinalizer
<1>11. ASSUME NEW r \in Resv, HandleTerminal(r) PROVE Inv0'
    BY <1>11 DEF HandleTerminal
<1>12. ASSUME NEW r \in Resv, CollectTerminal(r) PROVE Inv0'
    BY <1>12 DEF CollectTerminal
<1>13. ASSUME NEW r \in Resv, HandleDeletion(r) PROVE Inv0'
    BY <1>13 DEF HandleDeletion
<1>14. ASSUME ReleaseChunks PROVE Inv0'
    BY <1>14, CreditedType DEF ReleaseChunks
<1>15. ASSUME StampChunksReleased PROVE Inv0'
    BY <1>15 DEF StampChunksReleased
<1>16. ASSUME RemoveFinalizer PROVE Inv0'
    BY <1>16 DEF RemoveFinalizer
<1>17. ASSUME PassFails PROVE Inv0'
    BY <1>17 DEF PassFails
<1>18. ASSUME NEW r \in Resv, IssuePeer(r) PROVE Inv0'
    BY <1>18 DEF IssuePeer
<1>19. ASSUME NEW r \in Resv, PeerSucceeds(r) PROVE Inv0'
    BY <1>19 DEF PeerSucceeds
<1>20. ASSUME NEW r \in Resv, Terminate(r) PROVE Inv0'
    BY <1>20 DEF Terminate
<1>21. ASSUME NEW r \in Resv, UserDelete(r) PROVE Inv0'
  <2>1. CASE finalizer[r]
    BY <1>21, <2>1 DEF UserDelete
  <2>2. CASE ~finalizer[r]
    <3>1. lost' \in Nat BY <1>21, <2>2 DEF UserDelete
    <3>2. /\ phase' = [phase EXCEPT ![r] = "Gone"]
          /\ Drop(r)
          /\ UNCHANGED <<adv, hs, rec, credits, faults>>
      BY <1>21, <2>2 DEF UserDelete
    <3> QED BY <3>1, <3>2
  <2> QED BY <2>1, <2>2
<1>22. ASSUME NEW count \in Counts, Report(count) PROVE Inv0'
    BY <1>22, TouchedType DEF Report
<1>23. ASSUME GoStale PROVE Inv0'
    BY <1>23, StaledType DEF GoStale
<1>24. ASSUME Crash PROVE Inv0'
  <2>1. Cardinality(Charging) \in Nat
    BY FS_Subset, FS_CardinalityType DEF Charging
  <2> QED BY <1>24, <2>1 DEF Crash
<1>25. ASSUME UNCHANGED vars PROVE Inv0'
    BY <1>25 DEF vars
<1> QED
    BY <1>1, <1>2, <1>3, <1>4, <1>5, <1>6, <1>7, <1>8, <1>9, <1>10, <1>11,
       <1>12, <1>13, <1>14, <1>15, <1>16, <1>17, <1>18, <1>19, <1>20, <1>21,
       <1>22, <1>23, <1>24, <1>25 DEF Next, HandlerStep, WorkerStep

(* Every status the Broker writes keeps its type, the counters never go    *)
(* below zero, and no credit goes to a reservation that never existed.     *)
THEOREM TypeCorrect == Spec => []TypeOK
<1>1. Spec => []Inv0
    BY Inv0Init, Inv0Step, PTL DEF Spec
<1> QED BY <1>1, PTL DEF Inv0

-----------------------------------------------------------------------------
(* Admission                                                               *)

(* The writers of the ClusterAdvertisement status, whoever they are, make  *)
(* one of five updates, and charge it only when a chunk is free.           *)
LEMMA AdvStep ==
    Next => \/ adv' = adv
            \/ adv.free >= 1 /\ adv' = Charged(adv)
            \/ adv' = Credited(adv)
            \/ \E count \in Counts : adv' = Touched(adv, count)
            \/ adv' = Staled(adv)
BY DEF Next, HandlerStep, WorkerStep, CreateBegin, ReleaseBegin, ReserveChunks,
    CreateReservation, Rollback, ReleaseAdjust, MarkChunksReleased, CreateFails,
    CutShort, AddFinalizer, HandleTerminal, CollectTerminal, HandleDeletion,
    ReleaseChunks, StampChunksReleased, RemoveFinalizer, PassFails, IssuePeer,
    PeerSucceeds, Terminate, UserDelete, Report, GoStale, Crash

(* Each of the five status updates keeps the free count covered.           *)
LEMMA FreeIsCoveredStep == Inv0 /\ FreeIsCovered /\ [Next]_vars => FreeIsCovered'
<1> SUFFICES ASSUME Inv0, FreeIsCovered, [Next]_vars PROVE FreeIsCovered'
    OBVIOUS
<1>0. adv \in AdvertisementStatus BY DEF Inv0, TypeOK
<1>1. CASE adv' = adv
    BY <1>1 DEF FreeIsCovered
<1>2. CASE adv' = Charged(adv)
    BY <1>0, <1>2, ChargedType DEF FreeIsCovered, AdvertisementStatus, Monus
<1>3. CASE adv' = Credited(adv)
  <2>1. adv' \in AdvertisementStatus /\ adv'.free = Monus(adv'.total, adv'.reserved)
    BY <1>0, <1>3, CreditedType
  <2> QED BY <2>1 DEF FreeIsCovered, AdvertisementStatus
<1>4. ASSUME NEW count \in Counts, adv' = Touched(adv, count) PROVE FreeIsCovered'
  <2>1. count \in Nat BY LedgerAssumption
  <2>2. adv' \in AdvertisementStatus /\ adv'.free = Monus(adv'.total, adv'.reserved)
    BY <1>0, <1>4, <2>1, TouchedType
  <2> QED BY <2>2 DEF FreeIsCovered, AdvertisementStatus
<1>5. CASE adv' = Staled(adv)
    BY <1>0, <1>5, StaledType DEF FreeIsCovered, AdvertisementStatus, Monus
<1> QED BY <1>1, <1>2, <1>3, <1>4, <1>5, AdvStep DEF vars

(* The free count that reserveChunks trusts is covered by the counter, in  *)
(* every interleaving of handlers, reconciler, reports and faults.         *)
THEOREM FreeCovered == Spec => []FreeIsCovered
<1>1. Init => Inv0 /\ FreeIsCovered
    BY Inv0Init DEF Init, FreeIsCovered, NoAdvertisement, Monus
<1>2. Inv0 /\ FreeIsCovered /\ [Next]_vars => (Inv0 /\ FreeIsCovered)'
    BY Inv0Step, FreeIsCoveredStep
<1> QED BY <1>1, <1>2, PTL DEF Spec

(* A write of the ledger is an Admit, a Return, a Report or a stutter.     *)
LEMMA GateStep ==
    Inv0 /\ FreeIsCovered /\ [Next]_vars => [Gate!Next]_<<adv.total, adv.reserved>>
<1> SUFFICES ASSUME Inv0, FreeIsCovered, [Next]_vars
             PROVE  [Gate!Next]_<<adv.total, adv.reserved>>
    OBVIOUS
<1>0. adv \in AdvertisementStatus BY DEF Inv0, TypeOK
<1> USE DEF Gate!Next, Gate!Admit, Gate!Return, Gate!Report
<1>1. CASE adv' = adv
    BY <1>1
<1>2. CASE adv.free >= 1 /\ adv' = Charged(adv)
  <2>1. adv.reserved < adv.total
    BY <1>0, <1>2 DEF FreeIsCovered, AdvertisementStatus, Monus
  <2> QED BY <1>0, <1>2, <2>1, ChargedType
<1>3. CASE adv' = Credited(adv)
    BY <1>0, <1>3, CreditedType DEF AdvertisementStatus, Monus
<1>4. ASSUME NEW count \in Counts, adv' = Touched(adv, count)
      PROVE  [Gate!Next]_<<adv.total, adv.reserved>>
    BY <1>0, <1>4, TouchedType, LedgerAssumption
<1>5. CASE adv' = Staled(adv)
    BY <1>0, <1>5, StaledType
<1> QED BY <1>1, <1>2, <1>3, <1>4, <1>5, AdvStep DEF vars

(* The ledger implements AdmissionGate: the two handlers and the worker    *)
(* never admit a reservation when as many chunks are out as are offered.   *)
THEOREM LedgerImplementsGate == Spec => ImplementsGate
<1>1. Init => Gate!Init
    BY DEF Init, Gate!Init, NoAdvertisement
<1>2. Init => Inv0 /\ FreeIsCovered
    BY Inv0Init DEF Init, FreeIsCovered, NoAdvertisement, Monus
<1>3. Inv0 /\ FreeIsCovered /\ [Next]_vars => (Inv0 /\ FreeIsCovered)'
    BY Inv0Step, FreeIsCoveredStep
<1> QED BY <1>1, <1>2, <1>3, GateStep, PTL DEF Spec, ImplementsGate, Gate!Spec

-----------------------------------------------------------------------------
(* Credits                                                                 *)

(* A handler about to mark, a worker about to stamp or to finalize, and a  *)
(* marked reservation all have a credit behind them; a reservation that    *)
(* was never created has none.                                             *)
Credit ==
    /\ \A r \in Resv : /\ released[r] => credits[r] > 0
                       /\ phase[r] = "Absent" => credits[r] = 0
    /\ \A h \in Handlers : hs[h].pc = "mark" => credits[hs[h].resv] > 0
    /\ rec.pc \in {"stamp", "finalize"} => credits[rec.resv] > 0

(* No mark, stamp or finalizer removal is reached without a credit.        *)
LEMMA CreditStep == Inv0 /\ Credit /\ [Next]_vars => Credit'
<1> SUFFICES ASSUME Inv0, Credit, [Next]_vars PROVE Credit'
    OBVIOUS
<1> USE LedgerAssumption
    DEF Inv0, TypeOK, Assigned, Credit, Phases, HandlerStates, HandlerPCs,
        WorkerStates, WorkerPCs, IdleHandler, IdleWorker, resvVars, Exists, Idle,
        Goto, Finish, CreditFor, Drop, WorkerIdle
<1>1. ASSUME NEW h \in Handlers, NEW r \in Resv, CreateBegin(h, r) PROVE Credit'
    BY <1>1 DEF CreateBegin
<1>2. ASSUME NEW h \in Handlers, NEW r \in Resv, ReleaseBegin(h, r) PROVE Credit'
    BY <1>2 DEF ReleaseBegin
<1>3. ASSUME NEW h \in Handlers, ReserveChunks(h) PROVE Credit'
  <2>1. \A k \in Handlers : hs'[k].pc = "mark" => hs'[k] = hs[k]
    BY <1>3 DEF ReserveChunks
  <2>2. UNCHANGED <<released, credits, phase, rec>>
    BY <1>3 DEF ReserveChunks
  <2> QED BY <2>1, <2>2
<1>4. ASSUME NEW h \in Handlers, CreateReservation(h) PROVE Credit'
    BY <1>4 DEF CreateReservation
<1>5. ASSUME NEW h \in Handlers, Rollback(h) PROVE Credit'
    BY <1>5 DEF Rollback
<1>6. ASSUME NEW h \in Handlers, ReleaseAdjust(h) PROVE Credit'
    BY <1>6 DEF ReleaseAdjust
<1>7. ASSUME NEW h \in Handlers, MarkChunksReleased(h) PROVE Credit'
    BY <1>7 DEF MarkChunksReleased
<1>8. ASSUME NEW h \in Handlers, CreateFails(h) PROVE Credit'
    BY <1>8 DEF CreateFails
<1>9. ASSUME NEW h \in Handlers, CutShort(h) PROVE Credit'
    BY <1>9 DEF CutShort
<1>10. ASSUME NEW r \in Resv, AddFinalizer(r) PROVE Credit'
    BY <1>10 DEF AddFinalizer
<1>11. ASSUME NEW r \in Resv, HandleTerminal(r) PROVE Credit'
    BY <1>11 DEF HandleTerminal
<1>12. ASSUME NEW r \in Resv, CollectTerminal(r) PROVE Credit'
    BY <1>12 DEF CollectTerminal
<1>13. ASSUME NEW r \in Resv, HandleDeletion(r) PROVE Credit'
    BY <1>13 DEF HandleDeletion
<1>14. ASSUME ReleaseChunks PROVE Credit'
    BY <1>14 DEF ReleaseChunks
<1>15. ASSUME StampChunksReleased PROVE Credit'
    BY <1>15 DEF StampChunksReleased
<1>16. ASSUME RemoveFinalizer PROVE Credit'
    BY <1>16 DEF RemoveFinalizer
<1>17. ASSUME PassFails PROVE Credit'
    BY <1>17 DEF PassFails
<1>18. ASSUME NEW r \in Resv, IssuePeer(r) PROVE Credit'
    BY <1>18 DEF IssuePeer
<1>19. ASSUME NEW r \in Resv, PeerSucceeds(r) PROVE Credit'
    BY <1>19 DEF PeerSucceeds
<1>20. ASSUME NEW r \in Resv, Terminate(r) PROVE Credit'
    BY <1>20 DEF Terminate
<1>21. ASSUME NEW r \in Resv, UserDelete(r) PROVE Credit'
    BY <1>21 DEF UserDelete
<1>22. ASSUME NEW count \in Counts, Report(count) PROVE Credit'
    BY <1>22 DEF Report
<1>23. ASSUME GoStale PROVE Credit'
    BY <1>23 DEF GoStale
<1>24. ASSUME Crash PROVE Credit'
    BY <1>24 DEF Crash
<1>25. ASSUME UNCHANGED vars PROVE Credit'
    BY <1>25 DEF vars
<1> QED
    BY <1>1, <1>2, <1>3, <1>4, <1>5, <1>6, <1>7, <1>8, <1>9, <1>10,
       <1>11, <1>12, <1>13, <1>14, <1>15, <1>16, <1>17, <1>18, <1>19,
       <1>20, <1>21, <1>22, <1>23, <1>24, <1>25 DEF Next, HandlerStep,
       WorkerStep

(* The chunks-released annotation is only ever on a reservation that has   *)
(* been credited, across crashes, failed writes and racing handlers.       *)
THEOREM MarkedCredited == Spec => []MarkedMeansCredited
<1>1. Init => Inv0 /\ Credit
    BY Inv0Init DEF Init, Credit, IdleHandler, IdleWorker
<1>2. Inv0 /\ Credit /\ [Next]_vars => (Inv0 /\ Credit)'
    BY Inv0Step, CreditStep
<1>3. Credit => MarkedMeansCredited
    BY DEF Credit, MarkedMeansCredited
<1> QED BY <1>1, <1>2, <1>3, PTL DEF Spec

-----------------------------------------------------------------------------
(* Leaks                                                                   *)

(* What a step does to the reserved count and to the three things that may *)
(* account for it.  `Same` is the common case.                             *)
Same == Uncredited' = Uncredited /\ Charging' = Charging /\ lost' = lost

(* The reservations and handlers that account for a charge are countable.  *)
LEMMA Finite ==
    /\ IsFiniteSet(Uncredited) /\ Cardinality(Uncredited) \in Nat
    /\ IsFiniteSet(Charging) /\ Cardinality(Charging) \in Nat
BY LedgerAssumption, FS_Subset, FS_CardinalityType DEF Uncredited, Charging

(* Removing an element, present or not, from a finite set.                 *)
LEMMA Removal ==
    ASSUME NEW S, NEW x, IsFiniteSet(S)
    PROVE  /\ Cardinality(S \ {x}) \in Nat
           /\ x \in S => Cardinality(S \ {x}) = Cardinality(S) - 1
           /\ x \notin S => Cardinality(S \ {x}) = Cardinality(S)
<1>1. IsFiniteSet(S \ {x}) /\ Cardinality(S \ {x}) \in Nat
    BY FS_RemoveElement, FS_CardinalityType
<1>2. x \in S => Cardinality(S \ {x}) = Cardinality(S) - 1
    BY FS_RemoveElement
<1>3. x \notin S => S \ {x} = S
    OBVIOUS
<1> QED BY <1>1, <1>2, <1>3

(* Each write moves the counter and what accounts for it together.         *)
LEMMA NoSilentLeakStep ==
    Inv0 /\ Credit /\ NoSilentLeak /\ [Next]_vars => NoSilentLeak'
<1> SUFFICES ASSUME Inv0, Credit, NoSilentLeak, [Next]_vars PROVE NoSilentLeak'
    OBVIOUS
<1>a. /\ adv \in AdvertisementStatus /\ adv.reserved \in Nat /\ lost \in Nat
      /\ Cardinality(Uncredited) \in Nat /\ Cardinality(Charging) \in Nat
    BY Finite DEF Inv0, TypeOK, AdvertisementStatus
<1>b. ASSUME adv'.reserved = adv.reserved, Same PROVE NoSilentLeak'
    BY <1>a, <1>b DEF NoSilentLeak, Same
<1>c. ASSUME NEW r \in Resv, adv' = Credited(adv), lost' = lost,
             Uncredited' = Uncredited \ {r}, Charging' = Charging
      PROVE  NoSilentLeak'
    BY <1>a, <1>c, CreditedType, Removal, Finite DEF NoSilentLeak, Monus
<1>d. ASSUME NEW h \in Handlers, h \notin Charging, Charging' = Charging \cup {h},
             adv' = Charged(adv), lost' = lost, Uncredited' = Uncredited
      PROVE  NoSilentLeak'
  <2>1. Cardinality(Charging \cup {h}) = Cardinality(Charging) + 1
    BY <1>d, FS_AddElement, Finite
  <2> QED BY <1>a, <1>d, <2>1, ChargedType DEF NoSilentLeak
<1>e. ASSUME NEW h \in Charging, Charging' = Charging \ {h},
             NEW r \in Resv, r \notin Uncredited, Uncredited' = Uncredited \cup {r},
             adv' = adv, lost' = lost
      PROVE  NoSilentLeak'
  <2>1. Cardinality(Uncredited \cup {r}) = Cardinality(Uncredited) + 1
    BY <1>e, FS_AddElement, Finite
  <2>2. Cardinality(Charging \ {h}) = Cardinality(Charging) - 1
    BY <1>e, Removal, Finite
  <2> QED BY <1>a, <1>e, <2>1, <2>2 DEF NoSilentLeak
<1>f. ASSUME NEW h \in Charging, Charging' = Charging \ {h},
             adv' = Credited(adv), lost' = lost, Uncredited' = Uncredited
      PROVE  NoSilentLeak'
  <2>1. /\ Cardinality(Charging \ {h}) \in Nat
        /\ Cardinality(Charging \ {h}) = Cardinality(Charging) - 1
    BY <1>f, Removal, Finite
  <2> QED BY <1>a, <1>f, <2>1, CreditedType DEF NoSilentLeak, Monus
<1>g. ASSUME NEW h \in Handlers, Charging' = Charging \ {h},
             lost' = IF h \in Charging THEN lost + 1 ELSE lost,
             adv' = adv, Uncredited' = Uncredited
      PROVE  NoSilentLeak'
    BY <1>a, <1>g, Removal, Finite DEF NoSilentLeak
<1>h. ASSUME NEW r \in Resv, Uncredited' = Uncredited \ {r},
             lost' = IF r \in Uncredited THEN lost + 1 ELSE lost,
             adv' = adv, Charging' = Charging
      PROVE  NoSilentLeak'
    BY <1>a, <1>h, Removal, Finite DEF NoSilentLeak
<1>i. ASSUME adv' = adv, Uncredited' = Uncredited, Charging' = {},
             lost' = lost + Cardinality(Charging)
      PROVE  NoSilentLeak'
    BY <1>a, <1>i, FS_EmptySet DEF NoSilentLeak
<1> USE LedgerAssumption
    DEF Inv0, TypeOK, Assigned, Phases, HandlerStates, HandlerPCs, WorkerStates,
        WorkerPCs, IdleHandler, IdleWorker, resvVars, Exists, Idle, Goto, Finish,
        CreditFor, Drop, WorkerIdle, Uncredited, Charging
<1>1. ASSUME NEW h \in Handlers, NEW r \in Resv, CreateBegin(h, r) PROVE NoSilentLeak'
    BY <1>1, <1>b DEF CreateBegin, Same
<1>2. ASSUME NEW h \in Handlers, NEW r \in Resv, ReleaseBegin(h, r) PROVE NoSilentLeak'
    BY <1>2, <1>b DEF ReleaseBegin, Same
<1>3. ASSUME NEW h \in Handlers, ReserveChunks(h) PROVE NoSilentLeak'
  <2>1. CASE adv.free >= 1
    <3>1. /\ adv' = Charged(adv) /\ lost' = lost /\ Uncredited' = Uncredited
          /\ Charging' = Charging \cup {h} /\ h \notin Charging
      BY <1>3, <2>1 DEF ReserveChunks
    <3> QED BY <1>d, <3>1
  <2>2. CASE ~(adv.free >= 1)
    BY <1>3, <2>2, <1>b DEF ReserveChunks, Same
  <2> QED BY <2>1, <2>2
<1>4. ASSUME NEW h \in Handlers, CreateReservation(h) PROVE NoSilentLeak'
  <2> DEFINE r == hs[h].resv
  <2>0. r \in Resv BY <1>4 DEF CreateReservation
  <2>1. CASE phase[r] = "Absent"
    <3>1. /\ adv' = adv /\ lost' = lost
          /\ Uncredited' = Uncredited \cup {r} /\ r \notin Uncredited
          /\ Charging' = Charging \ {h} /\ h \in Charging
      BY <1>4, <2>0, <2>1 DEF CreateReservation, Credit
    <3> QED BY <1>e, <2>0, <3>1
  <2>2. CASE phase[r] # "Absent"
    BY <1>4, <2>2, <1>b DEF CreateReservation, Same
  <2> QED BY <2>1, <2>2
<1>5. ASSUME NEW h \in Handlers, Rollback(h) PROVE NoSilentLeak'
  <2>1. /\ adv' = Credited(adv) /\ lost' = lost /\ Uncredited' = Uncredited
        /\ Charging' = Charging \ {h} /\ h \in Charging
    BY <1>5 DEF Rollback
  <2> QED BY <1>f, <2>1
<1>6. ASSUME NEW h \in Handlers, ReleaseAdjust(h) PROVE NoSilentLeak'
  <2>1. /\ hs[h].resv \in Resv /\ adv' = Credited(adv) /\ lost' = lost
        /\ Uncredited' = Uncredited \ {hs[h].resv} /\ Charging' = Charging
    BY <1>6 DEF ReleaseAdjust
  <2> QED BY <1>c, <2>1
<1>7. ASSUME NEW h \in Handlers, MarkChunksReleased(h) PROVE NoSilentLeak'
    BY <1>7, <1>b DEF MarkChunksReleased, Same
<1>8. ASSUME NEW h \in Handlers, CreateFails(h) PROVE NoSilentLeak'
    BY <1>8, <1>b DEF CreateFails, Same
<1>9. ASSUME NEW h \in Handlers, CutShort(h) PROVE NoSilentLeak'
  <2>1. /\ adv' = adv /\ Uncredited' = Uncredited /\ Charging' = Charging \ {h}
        /\ lost' = IF h \in Charging THEN lost + 1 ELSE lost
    BY <1>9 DEF CutShort
  <2> QED BY <1>g, <2>1
<1>10. ASSUME NEW r \in Resv, AddFinalizer(r) PROVE NoSilentLeak'
    BY <1>10, <1>b DEF AddFinalizer, Same
<1>11. ASSUME NEW r \in Resv, HandleTerminal(r) PROVE NoSilentLeak'
    BY <1>11, <1>b DEF HandleTerminal, Same
<1>12. ASSUME NEW r \in Resv, CollectTerminal(r) PROVE NoSilentLeak'
    BY <1>12, <1>b DEF CollectTerminal, Same
<1>13. ASSUME NEW r \in Resv, HandleDeletion(r) PROVE NoSilentLeak'
    BY <1>13, <1>b DEF HandleDeletion, Same
<1>14. ASSUME ReleaseChunks PROVE NoSilentLeak'
  <2>1. /\ rec.resv \in Resv /\ adv' = Credited(adv) /\ lost' = lost
        /\ Uncredited' = Uncredited \ {rec.resv} /\ Charging' = Charging
    BY <1>14 DEF ReleaseChunks
  <2> QED BY <1>c, <2>1
<1>15. ASSUME StampChunksReleased PROVE NoSilentLeak'
    BY <1>15, <1>b DEF StampChunksReleased, Same
<1>16. ASSUME RemoveFinalizer PROVE NoSilentLeak'
  <2>1. rec.resv \in Resv /\ credits[rec.resv] > 0
    BY <1>16 DEF RemoveFinalizer, Credit
  <2>2. Uncredited' = Uncredited
    BY <1>16, <2>1 DEF RemoveFinalizer
  <2>3. adv' = adv /\ Charging' = Charging /\ lost' = lost
    BY <1>16 DEF RemoveFinalizer
  <2> QED BY <1>b, <2>2, <2>3 DEF Same
<1>17. ASSUME PassFails PROVE NoSilentLeak'
    BY <1>17, <1>b DEF PassFails, Same
<1>18. ASSUME NEW r \in Resv, IssuePeer(r) PROVE NoSilentLeak'
    BY <1>18, <1>b DEF IssuePeer, Same
<1>19. ASSUME NEW r \in Resv, PeerSucceeds(r) PROVE NoSilentLeak'
    BY <1>19, <1>b DEF PeerSucceeds, Same
<1>20. ASSUME NEW r \in Resv, Terminate(r) PROVE NoSilentLeak'
    BY <1>20, <1>b DEF Terminate, Same
<1>21. ASSUME NEW r \in Resv, UserDelete(r) PROVE NoSilentLeak'
  <2>1. CASE finalizer[r]
    BY <1>21, <2>1, <1>b DEF UserDelete, Same
  <2>2. CASE ~finalizer[r]
    <3>1. adv' = adv /\ Charging' = Charging
      BY <1>21, <2>2 DEF UserDelete
    <3>2. Uncredited' = Uncredited \ {r}
      BY <1>21, <2>2 DEF UserDelete
    <3>3. lost' = IF r \in Uncredited THEN lost + 1 ELSE lost
      BY <1>21, <2>2 DEF UserDelete
    <3> QED BY <1>h, <3>1, <3>2, <3>3
  <2> QED BY <2>1, <2>2
<1>22. ASSUME NEW count \in Counts, Report(count) PROVE NoSilentLeak'
    BY <1>22, <1>a, <1>b, TouchedType DEF Report, Same
<1>23. ASSUME GoStale PROVE NoSilentLeak'
    BY <1>23, <1>a, <1>b, StaledType DEF GoStale, Same
<1>24. ASSUME Crash PROVE NoSilentLeak'
  <2>1. /\ adv' = adv /\ Uncredited' = Uncredited /\ Charging' = {}
        /\ lost' = lost + Cardinality(Charging)
    BY <1>24 DEF Crash
  <2> QED BY <1>i, <2>1
<1>25. ASSUME UNCHANGED vars PROVE NoSilentLeak'
    BY <1>25, <1>b DEF vars, Same
<1> QED
    BY <1>1, <1>2, <1>3, <1>4, <1>5, <1>6, <1>7, <1>8, <1>9, <1>10,
       <1>11, <1>12, <1>13, <1>14, <1>15, <1>16, <1>17, <1>18, <1>19,
       <1>20, <1>21, <1>22, <1>23, <1>24, <1>25 DEF Next, HandlerStep,
       WorkerStep

(* Whatever crashes, every reserved chunk is accounted for by a            *)
(* reservation that still owes its credit, by a create in flight, or by    *)
(* one of the losses the model names (cut-short create, crash, delete      *)
(* before the finalizer): the release paths themselves leak nothing.       *)
THEOREM NoLeak == Spec => []NoSilentLeak
<1>1. Init => Inv0 /\ Credit /\ NoSilentLeak
  <2>1. Init => adv.reserved = 0 /\ lost = 0
    BY DEF Init, NoAdvertisement
  <2> QED BY <2>1, Inv0Init, Finite
          DEF Init, Credit, NoSilentLeak, IdleHandler, IdleWorker
<1>2. Inv0 /\ Credit /\ NoSilentLeak /\ [Next]_vars => (Inv0 /\ Credit /\ NoSilentLeak)'
    BY Inv0Step, CreditStep, NoSilentLeakStep
<1> QED BY <1>1, <1>2, PTL DEF Spec
=============================================================================
