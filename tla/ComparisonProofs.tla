-------------------------- MODULE ComparisonProofs --------------------------
(***************************************************************************)
(* Proofs about the comparative experiments (Comparison), for any number   *)
(* of consumers, of providers, of chunks and of iterations.                *)
(***************************************************************************)
EXTENDS Comparison, FiniteSetTheorems, TLAPS

Statuses == {"Pending", "Peered", "Unpeering", "Ended"}
Bookings == [id: Ids, st: Statuses]
CrewPcs == {"idle", "choose", "release", "unpeer", "reserve", "peer"}
Members ==
    [pc: CrewPcs, at: Providers \cup {NoProvider}, tries: 0 .. RaceRetries,
     round: 0 .. Iterations, seq: Nat, row: Rows]

(* The Broker has one reservation per id, and a consumer's reservation has *)
(* the consumer's name in its id.                                          *)
OneEach ==
    /\ IsFiniteSet(held)
    /\ \A b, d \in held : b.id = d.id => b = d
    /\ \A c \in Testers : active[c] # NoRes => active[c].who = c

(* The baseline is read while nothing is reserved.                         *)
CleanBaseline ==
    /\ base.total = 0
    /\ main.pc \in {"start", "baseline"} => held = {} /\ main.phase = "A"

(* Who is at work when: the consumers only inside a phase, and after it    *)
(* those whose reservation is cleaned up.                                  *)
AtWork ==
    /\ \A c \in Testers :
         /\ crew[c].pc # "idle" => main.pc \in {"run", "join", "cleanup"}
         /\ main.pc = "cleanup" =>
               crew[c].pc \in {"idle", "release", "unpeer"}
         /\ main.pc \in {"start", "baseline", "policy", "settle"} =>
               active[c] = NoRes
         /\ crew[c].pc # "idle" /\ main.pc # "cleanup" =>
               crew[c].round < Iterations

(* A consumer reserves when it has nothing, and gives up what it has.      *)
Handling ==
    \A c \in Testers :
        /\ crew[c].pc \in {"reserve", "peer"} =>
              active[c] = NoRes /\ crew[c].at \in Providers
        /\ crew[c].pc \in {"release", "unpeer"} =>
              /\ active[c] # NoRes
              /\ main.pc # "cleanup" => crew[c].at \in Providers

(* BooksAgree part by part, in terms of the Broker's reservations. *)
Holding ==
    \A c \in Testers : active[c] # NoRes =>
        \/ \E b \in held : b.id = active[c] /\ b.st = "Peered"
        \/ crew[c].pc = "unpeer"

RowsTell ==
    \A c \in Testers :
        crew[c].pc = "idle" /\ main.pc = "run" /\ plan.mode = "reserve" =>
            /\ crew[c].row = "success" => active[c] # NoRes
            /\ crew[c].row = "failure" => active[c] = NoRes

NoStray ==
    ~ stopped /\ testFaults = 0 =>
        \A b \in held : b.st # "Ended" =>
            \/ b.id = active[b.id.who]
            \/ crew[b.id.who].pc = "peer" /\ b.id = ReservationID(b.id.who)

ComparisonInv ==
    /\ ComparisonTypeOK /\ OneEach /\ CleanBaseline /\ AtWork /\ Handling
    /\ PhasesArePaired /\ Holding /\ RowsTell /\ NoStray

-----------------------------------------------------------------------------
(* Sets of numbers, and the next sequence number.                          *)

(* Among some numbers one is the least.                                    *)
LEMMA LeastNumber ==
    ASSUME NEW S, S \subseteq Nat, S # {}
    PROVE  \E n \in S : \A m \in S : n <= m
<1> DEFINE R == OpToRel(<, Nat)
<1>1. IsWellFoundedOn(R, Nat) BY NatLessThanWellFounded
<1>2. \A x, y \in Nat : x < y => <<x, y>> \in R BY DEF OpToRel
<1> HIDE DEF R
<1>3. PICK n \in S : \A m \in S : ~ (<<m, n>> \in R) BY <1>1, WFMin
<1>4. \A m \in S : ~ (m < n) BY <1>2, <1>3
<1> QED BY <1>3, <1>4

(* A consumer has fewer reservations than there are numbers to try.        *)
LEMMA SomeNumberFree ==
    ASSUME ComparisonTypeOK, OneEach, NEW c \in Testers
    PROVE  \E n \in 1 .. Cardinality(held) + 1 :
               \A b \in held : b.id.who = c => b.id.seq # n
<1> DEFINE k == Cardinality(held)
           N == 1 .. k + 1
<1>1. k \in Nat BY FS_CardinalityType DEF OneEach
<1>2. IsFiniteSet(N) /\ Cardinality(N) = k + 1 BY <1>1, FS_Interval
<1> SUFFICES ASSUME \A n \in N : \E b \in held : b.id.who = c /\ b.id.seq = n
             PROVE  FALSE
  OBVIOUS
<1> DEFINE f == [n \in N |-> CHOOSE b \in held : b.id.who = c /\ b.id.seq = n]
<1>3. f \in [N -> held] /\ \A n \in N : f[n].id.seq = n OBVIOUS
<1> HIDE DEF f
<1>4. \E x, y \in N : x # y /\ f[x] = f[y]
  <2>1. IsFiniteSet(held) /\ Cardinality(held) < Cardinality(N)
    BY <1>1, <1>2 DEF OneEach
  <2> HIDE DEF N
  <2> QED BY <1>2, <1>3, <2>1, FS_PigeonHole
<1> QED BY <1>3, <1>4

(* nextSeq gives a number that none of the consumer's reservations has.    *)
LEMMA NextSeqFresh ==
    ASSUME ComparisonTypeOK, OneEach, NEW c \in Testers
    PROVE  /\ nextSeq(c) \in Nat
           /\ \A b \in held : b.id.who = c => b.id.seq # nextSeq(c)
<1> DEFINE k == Cardinality(held)
           F == {n \in 1 .. k + 1 :
                   \A b \in held : b.id.who = c => b.id.seq # n}
           Good(n) == /\ \A b \in held : b.id.who = c => b.id.seq # n
                      /\ \A m \in 1 .. n - 1 :
                           \E b \in held : b.id.who = c /\ b.id.seq = m
<1>1. k \in Nat BY FS_CardinalityType DEF OneEach
<1>2. F # {} /\ F \subseteq Nat BY <1>1, SomeNumberFree
<1>3. PICK n \in F : \A m \in F : n <= m BY <1>2, LeastNumber
<1>4. ASSUME NEW m \in 1 .. n - 1
      PROVE  \E b \in held : b.id.who = c /\ b.id.seq = m
  <2>1. m \in 1 .. k + 1 /\ ~ (n <= m) BY <1>1, <1>3
  <2> QED BY <1>3, <2>1
<1>5. \E i \in 1 .. k + 1 : Good(i) BY <1>3, <1>4
<1>6. nextSeq(c) = CHOOSE i \in 1 .. k + 1 : Good(i) BY DEF nextSeq
<1> HIDE DEF Good
<1>7. nextSeq(c) \in 1 .. k + 1 /\ Good(nextSeq(c)) BY <1>5, <1>6
<1> QED BY <1>1, <1>7 DEF Good

-----------------------------------------------------------------------------
(* What an id says, and what a reservation of the Broker is.               *)

(* The status of a reservation is the one the Broker has it in. *)
LEMMA StatusOf ==
    ASSUME OneEach, NEW id
    PROVE  /\ \A b \in held : b.id = id => Status(id) = b.st
           /\ (\A b \in held : b.id # id) => Status(id) = "Ended"
<1>1. ASSUME NEW b \in held, b.id = id
      PROVE  Status(id) = b.st
  <2>1. (CHOOSE d \in held : d.id = id) \in held
        /\ (CHOOSE d \in held : d.id = id).id = id
    BY <1>1
  <2>2. (CHOOSE d \in held : d.id = id) = b BY <1>1, <2>1 DEF OneEach
  <2> QED BY <1>1, <2>2 DEF Status
<1> QED BY <1>1 DEF Status

(* No reservation has the id that stands for none.                         *)
LEMMA NoResIsNoId == NoRes \notin Ids /\ NoRes.at = NoProvider
BY DEF NoRes, Ids

(* The books agree when the three parts hold. *)
LEMMA PartsAgree ==
    ASSUME ComparisonInv
    PROVE  BooksAgree
<1>1. ASSUME NEW c \in Testers, active[c] # NoRes, crew[c].pc # "unpeer"
      PROVE  Status(active[c]) = "Peered"
  BY <1>1, StatusOf DEF ComparisonInv, Holding
<1>2. held \subseteq Bookings /\ OneEach
  BY DEF ComparisonInv, ComparisonTypeOK, Bookings, Statuses
<1> QED BY <1>1, <1>2 DEF ComparisonInv, RowsTell, NoStray, BooksAgree

(* What DELETE leaves at the Broker: the same reservations, of which only  *)
(* the one that was named, if it was live, is in another status.           *)
LEMMA AfterDelete ==
    ASSUME ComparisonTypeOK, OneEach, NEW id
    PROVE  /\ Deleted(id) \subseteq Bookings /\ IsFiniteSet(Deleted(id))
           /\ \A d \in Deleted(id) : \E b \in held :
                b.id = d.id /\ (d.st # "Ended" => b.st # "Ended")
           /\ \A b \in held : b.id # id => b \in Deleted(id)
           /\ \A d \in Deleted(id) : d.id # id => d \in held
           /\ \A d, e \in Deleted(id) : d.id = e.id => d = e
<1> DEFINE g(b) == IF b.id = id /\ b.st \in {"Pending", "Peered"}
                   THEN [b EXCEPT !.st = "Unpeering"] ELSE b
           f == [b \in held |-> g(b)]
<1>1. held \subseteq Bookings BY DEF ComparisonTypeOK, Bookings, Statuses
<1>2. ASSUME NEW b \in Bookings
      PROVE  /\ g(b) \in Bookings /\ g(b).id = b.id
             /\ g(b).st # "Ended" => b.st # "Ended"
             /\ b.id # id => g(b) = b
  BY DEF Bookings, Statuses
<1>3. Deleted(id) = {g(b) : b \in held} BY DEF Deleted
<1> HIDE DEF g
<1>4. IsFiniteSet(Deleted(id))
  <2>1. f \in Surjection(held, Deleted(id)) BY <1>3 DEF Surjection
  <2> QED BY <2>1, FS_Surjection DEF OneEach
<1>5. \A d, e \in Deleted(id) : d.id = e.id => d = e
  BY <1>1, <1>2, <1>3 DEF OneEach
<1> QED BY <1>1, <1>2, <1>3, <1>4, <1>5

-----------------------------------------------------------------------------
(* Steps of the Broker, of the providers and of whoever interrupts.        *)

(* A call that fails leaves a trace: the run is stopped, or one fault more *)
(* has happened.                                                           *)
LEMMA FailureShows ==
    ASSUME ComparisonTypeOK, CallFails
    PROVE  /\ testFaults' \in 0 .. MaxFaults
           /\ stopped \/ testFaults' # 0
BY FederationAssumption DEF ComparisonTypeOK, CallFails

(* A reservation moves on, or its chunk is credited. *)
LEMMA BrokerKeeps ==
    ASSUME ComparisonInv, BrokerMoves
    PROVE  ComparisonInv'
<1>0. /\ held \subseteq Bookings /\ IsFiniteSet(held)
      /\ UNCHANGED <<plan, main, endpoints, base, listed, active, crew,
                     stopped, lapses, testFaults>>
  BY DEF ComparisonInv, ComparisonTypeOK, Bookings, Statuses, OneEach,
         BrokerMoves
<1>1. PICK b \in held :
        /\ b.st # "Peered"
        /\ \/ held' = held \ {b}
           \/ \E st \in {"Peered", "Ended"} :
                /\ b.st # "Ended"
                /\ held' = (held \ {b}) \cup {[b EXCEPT !.st = st]}
  BY DEF BrokerMoves
<1>2. \/ held' = held \ {b}
      \/ \E d \in Bookings : /\ d.id = b.id /\ b.st # "Ended"
                             /\ held' = (held \ {b}) \cup {d}
  <2>1. ASSUME NEW st \in {"Peered", "Ended"}
        PROVE  /\ [b EXCEPT !.st = st] \in Bookings
               /\ [b EXCEPT !.st = st].id = b.id
    BY <1>0 DEF Bookings, Statuses
  <2> QED BY <1>1, <2>1
<1>3. /\ held' \subseteq Bookings /\ IsFiniteSet(held')
      /\ \A d \in held' : \E e \in held :
            d.id = e.id /\ (d.st # "Ended" => e.st # "Ended")
      /\ \A e \in held : e.st = "Peered" => e \in held'
      /\ held # {}
  <2>1. IsFiniteSet(held \ {b}) BY <1>0, FS_RemoveElement
  <2>2. IsFiniteSet(held') BY <1>2, <2>1, FS_AddElement
  <2>3. held' \subseteq Bookings BY <1>0, <1>2
  <2>4. \A d \in held' : \E e \in held :
            d.id = e.id /\ (d.st # "Ended" => e.st # "Ended")
    BY <1>2
  <2>5. \A e \in held : e.st = "Peered" => e \in held' BY <1>1
  <2> QED BY <1>1, <2>2, <2>3, <2>4, <2>5
<1>4. \A d, e \in held' : d.id = e.id => d = e
  BY <1>1, <1>2 DEF ComparisonInv, OneEach
<1>5. ComparisonTypeOK'
  BY <1>0, <1>3 DEF ComparisonInv, ComparisonTypeOK, Bookings, Statuses
<1>6. OneEach' BY <1>0, <1>3, <1>4 DEF ComparisonInv, OneEach
<1>7. CleanBaseline' /\ AtWork' /\ Handling'
  BY <1>0, <1>3 DEF ComparisonInv, CleanBaseline, AtWork, Handling
<1>8. PhasesArePaired' BY <1>0, <1>3 DEF ComparisonInv, PhasesArePaired
<1>9. Holding' BY <1>0, <1>3 DEF ComparisonInv, Holding
<1>10. RowsTell' BY <1>0 DEF ComparisonInv, RowsTell
<1>11. NoStray'
  BY <1>0, <1>3 DEF ComparisonInv, NoStray, ReservationID
<1> QED
  BY <1>5, <1>6, <1>7, <1>8, <1>9, <1>10, <1>11 DEF ComparisonInv

(* A provider goes stale, or advertises again.                             *)
LEMMA ListingKeeps ==
    ASSUME ComparisonInv, ListingMoves
    PROVE  ComparisonInv'
<1>1. /\ UNCHANGED <<plan, main, endpoints, base, held, active, crew, stopped,
                     testFaults>>
      /\ \E p \in Providers : listed' \in {listed \ {p}, listed \cup {p}}
      /\ lapses' = lapses \/ (lapses < MaxFaults /\ lapses' = lapses + 1)
  BY DEF ListingMoves
<1>2. ComparisonTypeOK'
  <2>1. lapses' \in 0 .. MaxFaults
    BY <1>1, FederationAssumption DEF ComparisonInv, ComparisonTypeOK
  <2> QED BY <1>1, <2>1 DEF ComparisonInv, ComparisonTypeOK
<1> QED
  BY <1>1, <1>2 DEF ComparisonInv, OneEach, CleanBaseline, AtWork, Handling,
                    PhasesArePaired, Holding, RowsTell, NoStray,
                    ReservationID

(* The run is interrupted.                                                 *)
LEMMA InterruptKeeps ==
    ASSUME ComparisonInv, Interrupt
    PROVE  ComparisonInv'
<1>1. ComparisonTypeOK'
  BY DEF ComparisonInv, ComparisonTypeOK, Interrupt
<1> QED
  BY <1>1 DEF ComparisonInv, Interrupt, OneEach, CleanBaseline, AtWork,
              Handling, PhasesArePaired, Holding, RowsTell, NoStray,
              ReservationID

-----------------------------------------------------------------------------
(* Steps of runExperiment.                                                 *)

(* main.pc moves, and the phase stays. *)
LEMMA MainMoves ==
    ASSUME ComparisonTypeOK, NEW pc \in MainPcs,
           main' = [main EXCEPT !.pc = pc]
    PROVE  /\ main' \in [pc: MainPcs, phase: {"A", "B"}]
           /\ main'.pc = pc /\ main'.phase = main.phase
BY DEF ComparisonTypeOK

(* A consumer that rests. *)
LEMMA RestedMember ==
    ASSUME NEW round \in 0 .. Iterations, NEW row \in Rows
    PROVE  /\ Rested(round, row) \in Members
           /\ Rested(round, row).pc = "idle"
           /\ Rested(round, row).round = round
           /\ Rested(round, row).row = row
           /\ Rested(round, row).tries = 0
           /\ Rested(round, row).at = NoProvider
BY ComparisonAssumption DEF Rested, Members, CrewPcs

(* All goroutines rest.                                                    *)
LEMMA AllRested ==
    /\ [c \in Testers |-> Rested(0, "none")] \in [Testers -> Members]
    /\ \A c \in Testers :
         /\ [d \in Testers |-> Rested(0, "none")][c].pc = "idle"
         /\ [d \in Testers |-> Rested(0, "none")][c].row = "none"
<1>1. 0 \in 0 .. Iterations /\ "none" \in Rows
  BY ComparisonAssumption DEF Rows
<1> QED BY <1>1, RestedMember

(* A step of main that leaves everything else alone keeps the invariant    *)
(* when the pc it goes to allows what the consumers have.                  *)
LEMMA MainKeeps ==
    ASSUME ComparisonInv, NEW pc \in MainPcs,
           main' = [main EXCEPT !.pc = pc],
           UNCHANGED <<plan, base, listed, held, active, crew, stopped,
                       lapses>>,
           endpoints' \subseteq Providers, testFaults' \in 0 .. MaxFaults,
           testFaults' = testFaults \/ stopped \/ testFaults' # 0,
           pc # "start", pc = "baseline" => main.pc = "start",
           pc = "run" => FALSE,
           pc = "join" => main.pc = "run",
           pc \notin {"run", "join"} => Idle,
           pc \in {"baseline", "policy", "settle"} =>
               \A c \in Testers : active[c] = NoRes
    PROVE  ComparisonInv'
<1>1. /\ main' \in [pc: MainPcs, phase: {"A", "B"}]
      /\ main'.pc = pc /\ main'.phase = main.phase
  BY MainMoves DEF ComparisonInv
<1>2. ComparisonTypeOK' BY <1>1 DEF ComparisonInv, ComparisonTypeOK
<1>3. OneEach' BY DEF ComparisonInv, OneEach
<1>4. CleanBaseline' BY <1>1 DEF ComparisonInv, CleanBaseline
<1>5. AtWork' BY <1>1 DEF ComparisonInv, AtWork, Idle
<1>6. Handling' BY <1>1, <1>5 DEF ComparisonInv, Handling, AtWork
<1>7. PhasesArePaired' BY <1>1 DEF ComparisonInv, PhasesArePaired
<1>8. Holding' /\ RowsTell' BY <1>1 DEF ComparisonInv, Holding, RowsTell
<1>9. NoStray' BY <1>1 DEF ComparisonInv, NoStray, ReservationID
<1> QED
  BY <1>2, <1>3, <1>4, <1>5, <1>6, <1>7, <1>8, <1>9 DEF ComparisonInv

(* runExperiment fails between its phases, where no consumer is at work.   *)
LEMMA AbortKeeps ==
    ASSUME ComparisonInv, Abort,
           main.pc \in {"start", "baseline", "policy", "settle"},
           UNCHANGED <<plan, listed, held, stopped, lapses>>
    PROVE  ComparisonInv'
<1>1. Idle BY DEF ComparisonInv, AtWork, Idle
<1>2. /\ testFaults' \in 0 .. MaxFaults /\ (stopped \/ testFaults' # 0)
      /\ UNCHANGED <<endpoints, base, active, crew>>
      /\ main' = [main EXCEPT !.pc = "ended"] /\ endpoints' \subseteq Providers
  BY FailureShows DEF Abort, ComparisonInv, ComparisonTypeOK
<1>3. "ended" \in MainPcs BY DEF MainPcs
<1> QED BY <1>1, <1>2, <1>3, MainKeeps

(* The probe endpoints are collected.                                      *)
LEMMA StartKeeps ==
    ASSUME ComparisonInv, collectProbeEndpoints
    PROVE  ComparisonInv'
<1>1. CASE Abort BY <1>1, AbortKeeps DEF collectProbeEndpoints
<1>2. CASE ~ Abort
  <2>1. /\ main' = [main EXCEPT !.pc = "baseline"] /\ main.pc = "start"
        /\ UNCHANGED <<plan, base, listed, held, active, crew, stopped,
                       lapses, testFaults>>
        /\ endpoints' \in {listed, {}}
    BY <1>2 DEF collectProbeEndpoints
  <2>2. /\ Idle /\ \A c \in Testers : active[c] = NoRes
        /\ endpoints' \subseteq Providers /\ testFaults' \in 0 .. MaxFaults
    BY <2>1 DEF ComparisonInv, AtWork, Idle, ComparisonTypeOK
  <2> QED BY <2>1, <2>2, MainKeeps DEF MainPcs
<1> QED BY <1>1, <1>2

(* The baseline is that of a federation on which nothing is reserved. *)
LEMMA BaselineKeeps ==
    ASSUME ComparisonInv, ReadBaseline
    PROVE  ComparisonInv'
<1>1. CASE Abort BY <1>1, AbortKeeps DEF ReadBaseline
<1>2. CASE ~ Abort
  <2>1. /\ main' = [main EXCEPT !.pc = "policy"] /\ main.pc = "baseline"
        /\ UNCHANGED <<plan, endpoints, listed, held, active, crew, stopped,
                       lapses, testFaults>>
        /\ base' = FederationCapacity
    BY <1>2 DEF ReadBaseline
  <2>2. held = {} /\ main.phase = "A" BY <2>1 DEF ComparisonInv, CleanBaseline
  <2>3. base'.groups = listed /\ base'.total = 0
    BY <2>1, <2>2, FS_EmptySet DEF FederationCapacity
  <2>4. /\ main' \in [pc: MainPcs, phase: {"A", "B"}]
        /\ main'.pc = "policy" /\ main'.phase = "A"
    BY <2>1, <2>2, MainMoves DEF ComparisonInv, MainPcs, PhasePcs
  <2>5. ComparisonTypeOK'
    BY <2>1, <2>3, <2>4 DEF ComparisonInv, ComparisonTypeOK
  <2>6. CleanBaseline' /\ AtWork' /\ PhasesArePaired'
    BY <2>1, <2>3, <2>4 DEF ComparisonInv, CleanBaseline, AtWork,
                            PhasesArePaired
  <2> QED
    BY <2>1, <2>2, <2>4, <2>5, <2>6
    DEF ComparisonInv, OneEach, Handling, AtWork, Holding, RowsTell, NoStray
<1> QED BY <1>1, <1>2

(* A phase starts with an empty phase state, as its predecessor left it.   *)
LEMMA PolicyKeeps ==
    ASSUME ComparisonInv, SetPolicyAll
    PROVE  ComparisonInv'
<1>1. CASE Abort BY <1>1, AbortKeeps DEF SetPolicyAll
<1>2. CASE ~ Abort
  <2>1. /\ main' = [main EXCEPT !.pc = "run"] /\ main.pc = "policy"
        /\ UNCHANGED <<plan, endpoints, base, listed, held, stopped, lapses,
                       testFaults>>
        /\ active' = newReservePhaseState
        /\ crew' = [c \in Testers |-> Rested(0, "none")]
    BY <1>2 DEF SetPolicyAll
  <2>2. /\ main' \in [pc: MainPcs, phase: {"A", "B"}]
        /\ main'.pc = "run" /\ main'.phase = main.phase
    BY <2>1, MainMoves DEF ComparisonInv, MainPcs, PhasePcs
  <2>3. /\ crew' \in [Testers -> Members]
        /\ \A c \in Testers : crew'[c].pc = "idle" /\ crew'[c].row = "none"
    BY <2>1, AllRested
  <2>4. /\ active' \in [Testers -> Ids \cup {NoRes}]
        /\ \A c \in Testers : active'[c] = NoRes
        /\ \A c \in Testers : active[c] = NoRes /\ crew[c].pc = "idle"
    BY <2>1 DEF newReservePhaseState, ComparisonInv, AtWork
  <2>5. ComparisonTypeOK'
    BY <2>1, <2>2, <2>3, <2>4
    DEF ComparisonInv, ComparisonTypeOK, Members, CrewPcs
  <2>6. OneEach' /\ CleanBaseline' /\ AtWork' /\ Handling'
    BY <2>1, <2>2, <2>3, <2>4
    DEF ComparisonInv, OneEach, CleanBaseline, AtWork, Handling
  <2>7. PhasesArePaired' /\ Holding' /\ RowsTell'
    BY <2>1, <2>2, <2>3, <2>4
    DEF ComparisonInv, PhasesArePaired, Holding, RowsTell
  <2>8. NoStray'
    <3>1. \A b \in held : b.id.who \in Testers
      BY DEF ComparisonInv, ComparisonTypeOK, Ids
    <3> QED BY <2>1, <2>4, <3>1 DEF ComparisonInv, NoStray
  <2> QED BY <2>5, <2>6, <2>7, <2>8 DEF ComparisonInv
<1> QED BY <1>1, <1>2

(* The loops stop, whatever the consumers are at.                          *)
LEMMA LoopEndsKeeps ==
    ASSUME ComparisonInv, LoopEnds
    PROVE  ComparisonInv'
<1>1. /\ main' = [main EXCEPT !.pc = "join"] /\ main.pc = "run"
      /\ UNCHANGED <<plan, endpoints, base, listed, held, active, crew,
                     stopped, lapses, testFaults>>
  BY DEF LoopEnds
<1>2. endpoints' \subseteq Providers /\ testFaults' \in 0 .. MaxFaults
  BY <1>1 DEF ComparisonInv, ComparisonTypeOK
<1>3. "join" \in MainPcs BY DEF MainPcs, PhasePcs
<1> QED BY <1>1, <1>2, <1>3, MainKeeps

(* The phase has returned; nobody holds anything any more. *)
LEMMA PhaseEndsKeeps ==
    ASSUME ComparisonInv, PhaseEnds
    PROVE  ComparisonInv'
<1> DEFINE pc == IF stopped \/ main.phase = "B" THEN "ended" ELSE "settle"
<1>1. /\ main' = [main EXCEPT !.pc = pc] /\ Idle
      /\ \A c \in Testers : active[c] = NoRes
      /\ UNCHANGED <<plan, endpoints, base, listed, held, active, crew,
                     stopped, lapses, testFaults>>
  BY DEF PhaseEnds
<1>2. endpoints' \subseteq Providers /\ testFaults' \in 0 .. MaxFaults
  BY <1>1 DEF ComparisonInv, ComparisonTypeOK
<1>3. pc \in MainPcs /\ pc \in {"ended", "settle"} BY DEF MainPcs, PhasePcs
<1> HIDE DEF pc
<1> QED BY <1>1, <1>2, <1>3, MainKeeps

(* The consumers have joined.                                              *)
LEMMA JoinKeeps ==
    ASSUME ComparisonInv, Join
    PROVE  ComparisonInv'
<1>1. /\ main' = [main EXCEPT !.pc = "cleanup"] /\ main.pc = "join"
      /\ crew' = [c \in Testers |-> Rested(0, "none")] /\ Idle
      /\ UNCHANGED <<plan, endpoints, base, listed, held, active, stopped,
                     lapses, testFaults>>
  BY DEF Join
<1>2. /\ main' \in [pc: MainPcs, phase: {"A", "B"}]
      /\ main'.pc = "cleanup" /\ main'.phase = main.phase
  BY <1>1, MainMoves DEF ComparisonInv, MainPcs, PhasePcs
<1>3. /\ crew' \in [Testers -> Members]
      /\ \A c \in Testers : crew'[c].pc = "idle" /\ crew[c].pc = "idle"
  BY <1>1, AllRested DEF Idle
<1>4. ComparisonTypeOK'
  BY <1>1, <1>2, <1>3 DEF ComparisonInv, ComparisonTypeOK, Members, CrewPcs
<1>5. OneEach' /\ CleanBaseline' /\ AtWork' /\ Handling'
  BY <1>1, <1>2, <1>3
  DEF ComparisonInv, OneEach, CleanBaseline, AtWork, Handling
<1>6. PhasesArePaired' /\ Holding' /\ RowsTell'
  BY <1>1, <1>2, <1>3
  DEF ComparisonInv, PhasesArePaired, Holding, RowsTell
<1>7. NoStray'
  <2>1. \A b \in held : b.id.who \in Testers
    BY DEF ComparisonInv, ComparisonTypeOK, Ids
  <2> QED BY <1>1, <1>3, <2>1 DEF ComparisonInv, NoStray
<1> QED BY <1>4, <1>5, <1>6, <1>7 DEF ComparisonInv

(* Phase B starts only where no reservation takes a chunk of a node group  *)
(* of the baseline.                                                        *)
LEMMA CapacityBack ==
    ASSUME ComparisonInv, Matches(FederationCapacity, base)
    PROVE  \A b \in held : b.id.at \notin base.groups
<1> DEFINE T == {b \in held : b.id.at \in listed}
<1>1. IsFiniteSet(T) BY FS_Subset DEF ComparisonInv, OneEach
<1>2. Cardinality(T) = 0 /\ base.groups \subseteq listed
  BY DEF Matches, FederationCapacity, ComparisonInv, CleanBaseline
<1> HIDE DEF T
<1>3. T = {} BY <1>1, <1>2, FS_EmptySet
<1> USE DEF T
<1> QED BY <1>2, <1>3

(* The federation is back at the baseline, or the run ends.                *)
LEMMA SettleKeeps ==
    ASSUME ComparisonInv, WaitForFederationCapacity
    PROVE  ComparisonInv'
<1>1. CASE Abort BY <1>1, AbortKeeps DEF WaitForFederationCapacity
<1>2. CASE ~ Matches(FederationCapacity, base) /\ ~ Abort
  <2>1. /\ main' = [main EXCEPT !.pc = "ended"] /\ main.pc = "settle"
        /\ UNCHANGED <<plan, endpoints, base, listed, held, active, crew,
                       stopped, lapses, testFaults>>
    BY <1>2 DEF WaitForFederationCapacity
  <2>2. /\ Idle /\ "ended" \in MainPcs
        /\ endpoints' \subseteq Providers /\ testFaults' \in 0 .. MaxFaults
    BY <2>1 DEF ComparisonInv, AtWork, Idle, ComparisonTypeOK, MainPcs
  <2> QED BY <2>1, <2>2, MainKeeps
<1>3. CASE Matches(FederationCapacity, base) /\ ~ Abort
  <2>1. /\ main' = [pc |-> "policy", phase |-> "B"] /\ main.pc = "settle"
        /\ UNCHANGED <<plan, endpoints, base, listed, held, active, crew,
                       stopped, lapses, testFaults>>
    BY <1>3 DEF WaitForFederationCapacity
  <2>2. /\ main' \in [pc: MainPcs, phase: {"A", "B"}]
        /\ main'.pc = "policy" /\ main'.phase = "B"
    BY <2>1 DEF MainPcs, PhasePcs
  <2>3. ComparisonTypeOK' BY <2>1, <2>2 DEF ComparisonInv, ComparisonTypeOK
  <2>4. OneEach' /\ CleanBaseline' /\ AtWork' /\ Handling'
    BY <2>1, <2>2
    DEF ComparisonInv, OneEach, CleanBaseline, AtWork, Handling
  <2>5. PhasesArePaired' BY <1>3, <2>1, CapacityBack DEF PhasesArePaired
  <2>6. Holding' /\ RowsTell'
    BY <2>1, <2>2 DEF ComparisonInv, Holding, RowsTell
  <2>7. NoStray'
    <3>1. \A b \in held : b.id.who \in Testers
      BY DEF ComparisonInv, ComparisonTypeOK, Ids
    <3> QED BY <2>1, <3>1 DEF ComparisonInv, AtWork, NoStray
  <2> QED BY <2>3, <2>4, <2>5, <2>6, <2>7 DEF ComparisonInv
<1> QED BY <1>1, <1>2, <1>3

-----------------------------------------------------------------------------
(* Steps of one consumer.                                                  *)

(* The invariant, as far as one consumer is concerned. *)
Sound(c) ==
    /\ active[c] # NoRes => active[c].who = c
    /\ crew[c].pc # "idle" => main.pc \in {"run", "join", "cleanup"}
    /\ main.pc = "cleanup" => crew[c].pc \in {"idle", "release", "unpeer"}
    /\ crew[c].pc # "idle" /\ main.pc # "cleanup" =>
          crew[c].round < Iterations
    /\ crew[c].pc \in {"reserve", "peer"} =>
          active[c] = NoRes /\ crew[c].at \in Providers
    /\ crew[c].pc \in {"release", "unpeer"} =>
          /\ active[c] # NoRes
          /\ main.pc # "cleanup" => crew[c].at \in Providers
    /\ active[c] # NoRes =>
          \/ \E b \in held : b.id = active[c] /\ b.st = "Peered"
          \/ crew[c].pc = "unpeer"
    /\ crew[c].pc = "idle" /\ main.pc = "run" /\ plan.mode = "reserve" =>
          /\ crew[c].row = "success" => active[c] # NoRes
          /\ crew[c].row = "failure" => active[c] = NoRes
    /\ ~ stopped /\ testFaults = 0 =>
          \A b \in held : b.id.who = c /\ b.st # "Ended" =>
              \/ b.id = active[c]
              \/ crew[c].pc = "peer" /\ b.id = ReservationID(c)

(* The invariant says so of each consumer.                                 *)
LEMMA EachIsSound ==
    ASSUME ComparisonInv, NEW c \in Testers
    PROVE  Sound(c)
<1>1. ~ stopped /\ testFaults = 0 =>
          \A b \in held : b.id.who = c /\ b.st # "Ended" =>
              \/ b.id = active[c]
              \/ crew[c].pc = "peer" /\ b.id = ReservationID(c)
  BY DEF ComparisonInv, NoStray
<1> QED
  BY <1>1 DEF ComparisonInv, Sound, OneEach, AtWork, Handling, Holding,
              RowsTell

(* What every step of a consumer leaves alone: the experiment around it,   *)
(* and what concerns the other consumers.                                  *)
Around(c) ==
    /\ UNCHANGED <<plan, main, endpoints, base, listed, stopped, lapses>>
    /\ \A d \in Testers \ {c} : crew'[d] = crew[d] /\ active'[d] = active[d]
    /\ \A b \in Bookings : b.id.who # c => (b \in held <=> b \in held')
    /\ testFaults' \in 0 .. MaxFaults
    /\ ~ stopped /\ testFaults' = 0 => testFaults = 0

(* Such a step keeps the invariant when it does so for the consumer.       *)
LEMMA ConsumerKeeps ==
    ASSUME ComparisonInv, NEW c \in Testers, Around(c),
           main.pc \in {"run", "join", "cleanup"},
           crew' \in [Testers -> Members],
           active' \in [Testers -> Ids \cup {NoRes}],
           held' \subseteq Bookings, IsFiniteSet(held'),
           \A b, d \in held' : b.id = d.id => b = d,
           \A b \in held' :
               b.id.phase = main.phase \/ \E e \in held : e.id = b.id,
           Sound(c)'
    PROVE  ComparisonInv'
<1>1. /\ UNCHANGED <<plan, main, endpoints, base, listed, stopped, lapses>>
      /\ testFaults' \in 0 .. MaxFaults
      /\ ~ stopped /\ testFaults' = 0 => testFaults = 0
  BY DEF Around
<1>2. ComparisonTypeOK'
  BY <1>1 DEF ComparisonInv, ComparisonTypeOK, Members, CrewPcs, Bookings,
              Statuses
<1>3. CleanBaseline' BY <1>1 DEF ComparisonInv, CleanBaseline
<1>4. PhasesArePaired'
  <2> SUFFICES ASSUME main.phase = "B", NEW b \in held', b.id.phase = "A"
               PROVE  b.id.at \notin base.groups
    BY <1>1 DEF PhasesArePaired
  <2>1. PICK e \in held : e.id = b.id OBVIOUS
  <2> QED BY <2>1 DEF ComparisonInv, PhasesArePaired
<1>5. ASSUME NEW d \in Testers
      PROVE  Sound(d)'
  <2>1. CASE d = c BY <2>1
  <2>2. CASE d # c
    <3>1. /\ crew'[d] = crew[d] /\ active'[d] = active[d]
          /\ \A b \in Bookings : b.id.who = d => (b \in held <=> b \in held')
      BY <2>2 DEF Around
    <3>2. Sound(d) BY EachIsSound
    <3>3. held \subseteq Bookings
      BY DEF ComparisonInv, ComparisonTypeOK, Bookings, Statuses
    <3>4. active'[d] # NoRes =>
            \/ \E b \in held' : b.id = active'[d] /\ b.st = "Peered"
            \/ crew'[d].pc = "unpeer"
      BY <3>1, <3>2, <3>3 DEF Sound
    <3>5. ~ stopped' /\ testFaults' = 0 =>
            \A b \in held' : b.id.who = d /\ b.st # "Ended" =>
              \/ b.id = active'[d]
              \/ crew'[d].pc = "peer" /\ b.id = ReservationID(d)'
      <4>1. ReservationID(d)' = ReservationID(d)
        BY <1>1, <3>1 DEF ReservationID
      <4> QED BY <1>1, <3>1, <3>2, <3>3, <4>1 DEF Sound
    <3> QED BY <1>1, <3>1, <3>2, <3>4, <3>5 DEF Sound
  <2> QED BY <2>1, <2>2
<1>6. OneEach' BY <1>5 DEF OneEach, Sound
<1>7. AtWork' /\ Handling'
  BY <1>1, <1>5 DEF AtWork, Handling, Sound
<1>8. Holding' /\ RowsTell' BY <1>5 DEF Holding, RowsTell, Sound
<1>9. NoStray'
  <2>1. \A b \in held' : b.id.who \in Testers BY DEF Bookings, Ids
  <2> QED BY <1>5, <2>1 DEF NoStray, Sound
<1> QED
  BY <1>2, <1>3, <1>4, <1>6, <1>7, <1>8, <1>9 DEF ComparisonInv

(* What the ways of a goroutine make of it. *)
LEMMA Goes ==
    ASSUME ComparisonTypeOK, NEW c \in Testers, NEW pc \in CrewPcs,
           crew' = [crew EXCEPT ![c].pc = pc]
    PROVE  /\ crew' \in [Testers -> Members]
           /\ \A d \in Testers \ {c} : crew'[d] = crew[d]
           /\ crew'[c].pc = pc /\ crew'[c].at = crew[c].at
           /\ crew'[c].round = crew[c].round
<1>1. crew \in [Testers -> Members] /\ crew[c] \in Members
  BY DEF ComparisonTypeOK, Members, CrewPcs
<1>2. /\ [crew[c] EXCEPT !.pc = pc] \in Members
      /\ [crew[c] EXCEPT !.pc = pc].pc = pc
      /\ [crew[c] EXCEPT !.pc = pc].at = crew[c].at
      /\ [crew[c] EXCEPT !.pc = pc].round = crew[c].round
  BY <1>1 DEF Members
<1> QED BY <1>1, <1>2

(* An iteration ends with a row.                                           *)
LEMMA Finishes ==
    ASSUME ComparisonTypeOK, NEW c \in Testers, NEW row \in Rows,
           crew[c].round < Iterations, Finish(c, row)
    PROVE  /\ crew' \in [Testers -> Members]
           /\ \A d \in Testers \ {c} : crew'[d] = crew[d]
           /\ crew'[c].pc = "idle" /\ crew'[c].row = row
<1>1. crew \in [Testers -> Members] /\ crew[c] \in Members
  BY DEF ComparisonTypeOK, Members, CrewPcs
<1>2. crew[c].round + 1 \in 0 .. Iterations
  BY <1>1, ComparisonAssumption DEF Members
<1>3. crew' = [crew EXCEPT ![c] = Rested(crew[c].round + 1, row)]
  BY DEF Finish
<1> QED BY <1>1, <1>2, <1>3, RestedMember

(* Another look, or the end of the attempts.                               *)
LEMMA LooksAgain ==
    ASSUME ComparisonTypeOK, NEW c \in Testers, crew[c].round < Iterations,
           Again(c)
    PROVE  /\ crew' \in [Testers -> Members]
           /\ \A d \in Testers \ {c} : crew'[d] = crew[d]
           /\ \/ crew'[c].pc = "choose" /\ crew'[c].round = crew[c].round
              \/ crew'[c].pc = "idle" /\ crew'[c].row = "failure"
<1>1. crew \in [Testers -> Members] /\ crew[c] \in Members
  BY DEF ComparisonTypeOK, Members, CrewPcs
<1>2. CASE crew[c].tries < RaceRetries
  <2> DEFINE r == Rested(crew[c].round, crew[c].row)
             m == [r EXCEPT !.pc = "choose", !.tries = crew[c].tries + 1]
  <2>1. r \in Members /\ r.round = crew[c].round
    BY <1>1, RestedMember DEF Members
  <2>2. crew[c].tries + 1 \in 0 .. RaceRetries
    BY <1>1, <1>2, ComparisonAssumption DEF Members
  <2>3. crew' = [crew EXCEPT ![c] = m] BY <1>2 DEF Again
  <2> HIDE DEF r
  <2>4. m \in Members /\ m.pc = "choose" /\ m.round = crew[c].round
    BY <2>1, <2>2 DEF Members, CrewPcs
  <2> QED BY <1>1, <2>3, <2>4
<1>3. CASE ~ (crew[c].tries < RaceRetries)
  <2>1. Finish(c, "failure") BY <1>3 DEF Again
  <2> QED BY <2>1, Finishes DEF Rows
<1> QED BY <1>2, <1>3

(* A step of a consumer that asks nothing of the Broker. *)
LEMMA QuietKeeps ==
    ASSUME ComparisonInv, NEW c \in Testers,
           UNCHANGED <<plan, main, endpoints, base, listed, held, stopped,
                       lapses>>,
           main.pc \in {"run", "join", "cleanup"},
           crew' \in [Testers -> Members],
           active' \in [Testers -> Ids \cup {NoRes}],
           \A d \in Testers \ {c} : crew'[d] = crew[d],
           \A d \in Testers \ {c} : active'[d] = active[d],
           testFaults' \in 0 .. MaxFaults,
           ~ stopped /\ testFaults' = 0 => testFaults = 0,
           Sound(c)'
    PROVE  ComparisonInv'
<1>1. Around(c) BY DEF Around
<1>2. held' \subseteq Bookings
  BY DEF ComparisonInv, ComparisonTypeOK, Bookings, Statuses
<1>3. /\ IsFiniteSet(held') /\ \A b, d \in held' : b.id = d.id => b = d
      /\ \A b \in held' : \E e \in held : e.id = b.id
  BY DEF ComparisonInv, OneEach
<1> QED BY <1>1, <1>2, <1>3, ConsumerKeeps

(* An iteration starts.                                                    *)
LEMMA DispatchKeeps ==
    ASSUME ComparisonInv, NEW c \in Testers, Dispatch(c)
    PROVE  ComparisonInv'
<1>1. /\ UNCHANGED <<plan, main, endpoints, base, listed, held, active,
                     stopped, lapses, testFaults>>
      /\ main.pc = "run" /\ crew[c].pc = "idle" /\ crew[c].round < Iterations
      /\ crew' = [crew EXCEPT ![c] = [crew[c] EXCEPT !.pc = "choose",
                                                     !.row = "none"]]
  BY DEF Dispatch
<1> DEFINE m == [crew[c] EXCEPT !.pc = "choose", !.row = "none"]
<1>2. crew \in [Testers -> Members] /\ crew[c] \in Members
  BY DEF ComparisonInv, ComparisonTypeOK, Members, CrewPcs
<1>3. m \in Members /\ m.pc = "choose" /\ m.round = crew[c].round
  BY <1>2 DEF Members, CrewPcs, Rows
<1>4. /\ crew' \in [Testers -> Members] /\ crew'[c] = m
      /\ \A d \in Testers \ {c} : crew'[d] = crew[d]
  BY <1>1, <1>2, <1>3
<1> HIDE DEF m
<1>5. Sound(c)'
  <2>1. Sound(c) BY EachIsSound
  <2> QED BY <1>1, <1>3, <1>4, <2>1 DEF Sound
<1>6. /\ active' \in [Testers -> Ids \cup {NoRes}]
      /\ testFaults' \in 0 .. MaxFaults
  BY <1>1 DEF ComparisonInv, ComparisonTypeOK
<1> QED BY <1>1, <1>4, <1>5, <1>6, QuietKeeps

(* The clean-up takes up what a consumer still holds.                      *)
LEMMA CleanupKeeps ==
    ASSUME ComparisonInv, NEW c \in Testers, CleanupNext(c)
    PROVE  ComparisonInv'
<1>1. /\ UNCHANGED <<plan, main, endpoints, base, listed, held, active,
                     stopped, lapses, testFaults>>
      /\ main.pc = "cleanup" /\ crew[c].pc = "idle" /\ active[c] # NoRes
      /\ crew' = [crew EXCEPT ![c].pc = "release"]
  BY DEF CleanupNext, Idle
<1>2. /\ crew' \in [Testers -> Members] /\ crew'[c].pc = "release"
      /\ \A d \in Testers \ {c} : crew'[d] = crew[d]
  BY <1>1, Goes DEF ComparisonInv, CrewPcs
<1>3. Sound(c)'
  <2>1. Sound(c) BY EachIsSound
  <2> QED BY <1>1, <1>2, <2>1 DEF Sound
<1>4. /\ active' \in [Testers -> Ids \cup {NoRes}]
      /\ testFaults' \in 0 .. MaxFaults
  BY <1>1 DEF ComparisonInv, ComparisonTypeOK
<1> QED BY <1>1, <1>2, <1>3, <1>4, QuietKeeps

(* An iteration that has not yet touched the Broker ends with a row that   *)
(* tells what the consumer holds, or tells nothing.                        *)
LEMMA FinishKeeps ==
    ASSUME ComparisonInv, NEW c \in Testers, NEW row \in Rows,
           crew[c].pc \in {"choose", "reserve"}, Finish(c, row),
           UNCHANGED <<plan, main, endpoints, base, listed, held, active,
                       stopped, lapses>>,
           testFaults' \in 0 .. MaxFaults,
           ~ stopped /\ testFaults' = 0 => testFaults = 0,
           plan.mode = "reserve" /\ row = "success" => active[c] # NoRes,
           plan.mode = "reserve" /\ row = "failure" => active[c] = NoRes
    PROVE  ComparisonInv'
<1>1. Sound(c) BY EachIsSound
<1>2. main.pc \in {"run", "join"} /\ crew[c].round < Iterations
  BY <1>1 DEF Sound
<1>3. /\ crew' \in [Testers -> Members]
      /\ crew'[c].pc = "idle" /\ crew'[c].row = row
      /\ \A d \in Testers \ {c} : crew'[d] = crew[d]
  BY <1>2, Finishes DEF ComparisonInv
<1>4. Sound(c)' BY <1>1, <1>2, <1>3 DEF Sound
<1>5. active' \in [Testers -> Ids \cup {NoRes}]
  BY DEF ComparisonInv, ComparisonTypeOK
<1> QED BY <1>2, <1>3, <1>4, <1>5, QuietKeeps

(* The node groups or the probe could not be read.                         *)
LEMMA ReadFailsKeeps ==
    ASSUME ComparisonInv, NEW c \in Testers, ReadFails(c)
    PROVE  ComparisonInv'
<1>1. /\ UNCHANGED <<plan, main, endpoints, base, listed, held, active,
                     stopped, lapses>>
      /\ crew[c].pc = "choose"
      /\ Finish(c, "error") \/ Finish(c, "none")
      /\ testFaults' \in 0 .. MaxFaults /\ (stopped \/ testFaults' # 0)
  BY FailureShows DEF ReadFails, ComparisonInv
<1>2. "error" \in Rows /\ "none" \in Rows BY DEF Rows
<1> QED BY <1>1, <1>2, FinishKeeps

(* A consumer moves to a provider, or stays. *)
LEMMA TargetsAreProviders ==
    ASSUME ComparisonInv, NEW c \in Testers, NEW offered,
           offered \subseteq Providers
    PROVE  Targets(active[c], offered) \subseteq Providers \cup {NoProvider}
<1>1. FindWinner(offered) \in Providers \cup {NoProvider}
  <2>1. CASE Cardinality(offered) = 1
    <3>1. offered # {} BY <2>1, FS_EmptySet
    <3> QED BY <2>1, <3>1 DEF FindWinner
  <2> QED BY <2>1 DEF FindWinner
<1>2. WinnerTargets(active[c], offered) \subseteq Providers \cup {NoProvider}
  BY <1>1 DEF WinnerTargets
<1>3. ProbeTargets(active[c], offered) \subseteq Providers \cup {NoProvider}
  BY DEF ProbeTargets, ComparisonInv, ComparisonTypeOK
<1> QED BY <1>2, <1>3 DEF Targets

(* A consumer looks at the node groups and stays, or moves.                *)
LEMMA ChooseKeeps ==
    ASSUME ComparisonInv, NEW c \in Testers, Choose(c)
    PROVE  ComparisonInv'
<1>1. /\ UNCHANGED <<plan, main, endpoints, base, listed, held, active,
                     stopped, lapses, testFaults>>
      /\ crew[c].pc = "choose"
  BY DEF Choose
<1>2. /\ active' \in [Testers -> Ids \cup {NoRes}]
      /\ testFaults' \in 0 .. MaxFaults
  BY <1>1 DEF ComparisonInv, ComparisonTypeOK
<1>3. PICK offered \in SUBSET GrowableNodeGroups :
         \/ /\ plan.mode = "observe"
            /\ IF plan.suite = "eco" THEN ObserveWinner(c, offered)
               ELSE ObserveProbe(c, offered)
         \/ /\ plan.mode = "reserve"
            /\ \E to \in Targets(active[c], offered) :
                 IF to = NoProvider THEN Stay(c) ELSE Move(c, to)
  BY DEF Choose
<1>4. CASE plan.mode = "observe"
  <2>1. Finish(c, "failure") \/ Finish(c, "success")
    BY <1>3, <1>4 DEF ObserveWinner, ObserveProbe
  <2>2. "failure" \in Rows /\ "success" \in Rows BY DEF Rows
  <2> QED BY <1>1, <1>2, <1>4, <2>1, <2>2, FinishKeeps
<1>5. ASSUME Stay(c)
      PROVE  ComparisonInv'
  <2> DEFINE row == IF active[c] = NoRes THEN "failure" ELSE "success"
  <2>1. Finish(c, row) /\ row \in Rows BY <1>5 DEF Stay, Rows
  <2> QED BY <1>1, <1>2, <2>1, FinishKeeps
<1>6. ASSUME NEW to \in Providers, Move(c, to)
      PROVE  ComparisonInv'
  <2> DEFINE pc == IF active[c] = NoRes THEN "reserve" ELSE "release"
             m == [crew[c] EXCEPT !.at = to, !.pc = pc]
  <2>1. crew \in [Testers -> Members] /\ crew[c] \in Members
    BY DEF ComparisonInv, ComparisonTypeOK, Members, CrewPcs
  <2>2. crew' = [crew EXCEPT ![c] = m] BY <1>6 DEF Move
  <2>3. /\ m \in Members /\ m.pc = pc /\ m.at = to
        /\ m.round = crew[c].round
    BY <2>1 DEF Members, CrewPcs
  <2>4. /\ crew' \in [Testers -> Members] /\ crew'[c] = m
        /\ \A d \in Testers \ {c} : crew'[d] = crew[d]
    BY <2>1, <2>2, <2>3
  <2>5. Sound(c) BY EachIsSound
  <2> HIDE DEF m
  <2>6. Sound(c)' BY <1>1, <2>3, <2>4, <2>5 DEF Sound
  <2>7. main.pc \in {"run", "join"} BY <1>1, <2>5 DEF Sound
  <2> QED BY <1>1, <1>2, <2>4, <2>6, <2>7, QuietKeeps
<1>7. CASE plan.mode = "reserve"
  <2>1. PICK to \in Targets(active[c], offered) :
           IF to = NoProvider THEN Stay(c) ELSE Move(c, to)
    BY <1>3, <1>7
  <2>2. offered \subseteq Providers
    BY DEF GrowableNodeGroups, ComparisonInv, ComparisonTypeOK
  <2>3. to \in Providers \cup {NoProvider} BY <2>2, TargetsAreProviders
  <2> QED BY <1>5, <1>6, <2>1, <2>3
<1> QED BY <1>3, <1>4, <1>7

(* A DELETE is of a reservation of the consumer, and concerns no other.    *)
LEMMA DeleteOwn ==
    ASSUME ComparisonInv, NEW c \in Testers, active[c] # NoRes,
           held' \in {held, Deleted(active[c])}
    PROVE  /\ held' \subseteq Bookings /\ IsFiniteSet(held')
           /\ \A b, d \in held' : b.id = d.id => b = d
           /\ \A d \in held' : \E b \in held :
                b.id = d.id /\ (d.st # "Ended" => b.st # "Ended")
           /\ \A b \in Bookings : b.id.who # c => (b \in held <=> b \in held')
<1>1. held \subseteq Bookings /\ ComparisonTypeOK /\ OneEach
  BY DEF ComparisonInv, ComparisonTypeOK, Bookings, Statuses
<1>2. CASE held' = held BY <1>1, <1>2 DEF OneEach
<1>3. CASE held' = Deleted(active[c])
  <2>1. active[c].who = c BY <1>1 DEF OneEach
  <2> QED BY <1>1, <1>3, <2>1, AfterDelete
<1> QED BY <1>2, <1>3

(* The reservation is forgotten: after a failure, or when it has ended.    *)
LEMMA ForgetKeeps ==
    ASSUME ComparisonInv, NEW c \in Testers,
           crew[c].pc \in {"release", "unpeer"}, Forget(c),
           UNCHANGED <<plan, main, endpoints, base, listed, stopped, lapses>>,
           held' \in {held, Deleted(active[c])},
           testFaults' \in 0 .. MaxFaults,
           ~ stopped /\ testFaults' = 0 =>
               /\ testFaults = 0
               /\ \A b \in held : b.id.who = c => b.st = "Ended"
    PROVE  ComparisonInv'
<1> DEFINE pc == IF main.pc = "cleanup" THEN "idle" ELSE "reserve"
<1>1. Sound(c) BY EachIsSound
<1>2. /\ main.pc \in {"run", "join", "cleanup"} /\ active[c] # NoRes
      /\ main.pc # "cleanup" => crew[c].at \in Providers
      /\ main.pc # "cleanup" => crew[c].round < Iterations
  BY <1>1 DEF Sound
<1>3. /\ active' = [active EXCEPT ![c] = NoRes]
      /\ crew' = [crew EXCEPT ![c].pc = pc]
  BY DEF Forget, SetActive
<1>4. /\ crew' \in [Testers -> Members] /\ crew'[c].pc = pc
      /\ crew'[c].at = crew[c].at /\ crew'[c].round = crew[c].round
      /\ \A d \in Testers \ {c} : crew'[d] = crew[d]
  <2>1. pc \in CrewPcs BY DEF CrewPcs
  <2> HIDE DEF pc
  <2> QED BY <1>3, <2>1, Goes DEF ComparisonInv
<1>5. /\ active' \in [Testers -> Ids \cup {NoRes}] /\ active'[c] = NoRes
      /\ \A d \in Testers \ {c} : active'[d] = active[d]
  BY <1>3 DEF ComparisonInv, ComparisonTypeOK
<1>6. /\ held' \subseteq Bookings /\ IsFiniteSet(held')
      /\ \A b, d \in held' : b.id = d.id => b = d
      /\ \A d \in held' : \E b \in held :
            b.id = d.id /\ (d.st # "Ended" => b.st # "Ended")
      /\ \A b \in Bookings : b.id.who # c => (b \in held <=> b \in held')
  BY <1>2, DeleteOwn
<1>7. Around(c) BY <1>4, <1>5, <1>6 DEF Around
<1>8. Sound(c)'
  <2>1. ~ stopped /\ testFaults' = 0 =>
          \A b \in held' : b.id.who = c => b.st = "Ended"
    BY <1>6
  <2> QED BY <1>2, <1>4, <1>5, <2>1 DEF Sound
<1> HIDE DEF Sound
<1> QED BY <1>2, <1>4, <1>5, <1>6, <1>7, <1>8, ConsumerKeeps

(* The DELETE is accepted, or it fails and the reservation is forgotten.   *)
LEMMA DeleteKeeps ==
    ASSUME ComparisonInv, NEW c \in Testers, DeleteReservation(c)
    PROVE  ComparisonInv'
<1>1. /\ crew[c].pc = "release"
      /\ UNCHANGED <<plan, main, endpoints, base, listed, stopped, lapses>>
      /\ \/ /\ held' = Deleted(active[c])
            /\ crew' = [crew EXCEPT ![c].pc = "unpeer"]
            /\ UNCHANGED <<active, testFaults>>
         \/ /\ CallFails /\ held' \in {held, Deleted(active[c])}
            /\ Forget(c)
  BY DEF DeleteReservation
<1>2. CASE CallFails /\ held' \in {held, Deleted(active[c])} /\ Forget(c)
  <2>1. testFaults' \in 0 .. MaxFaults /\ (stopped \/ testFaults' # 0)
    BY <1>2, FailureShows DEF ComparisonInv
  <2> QED BY <1>1, <1>2, <2>1, ForgetKeeps
<1>3. CASE /\ held' = Deleted(active[c])
           /\ crew' = [crew EXCEPT ![c].pc = "unpeer"]
           /\ UNCHANGED <<active, testFaults>>
  <2>1. Sound(c) BY EachIsSound
  <2>2. /\ main.pc \in {"run", "join", "cleanup"} /\ active[c] # NoRes
    BY <1>1, <2>1 DEF Sound
  <2>3. /\ crew' \in [Testers -> Members] /\ crew'[c].pc = "unpeer"
        /\ crew'[c].at = crew[c].at /\ crew'[c].round = crew[c].round
        /\ \A d \in Testers \ {c} : crew'[d] = crew[d]
    BY <1>3, Goes DEF ComparisonInv, CrewPcs
  <2>4. /\ held' \subseteq Bookings /\ IsFiniteSet(held')
        /\ \A b, d \in held' : b.id = d.id => b = d
        /\ \A d \in held' : \E b \in held :
              b.id = d.id /\ (d.st # "Ended" => b.st # "Ended")
        /\ \A b \in Bookings : b.id.who # c => (b \in held <=> b \in held')
    BY <1>3, <2>2, DeleteOwn
  <2>5. /\ active' \in [Testers -> Ids \cup {NoRes}]
        /\ testFaults' \in 0 .. MaxFaults
    BY <1>3 DEF ComparisonInv, ComparisonTypeOK
  <2>6. Around(c) BY <1>1, <1>3, <2>3, <2>4, <2>5 DEF Around
  <2>7. Sound(c)'
    <3>1. ~ stopped' /\ testFaults' = 0 =>
            \A b \in held' : b.id.who = c /\ b.st # "Ended" =>
                b.id = active'[c]
      BY <1>1, <1>3, <2>1, <2>4 DEF Sound
    <3> QED BY <1>1, <1>3, <2>1, <2>3, <3>1 DEF Sound
  <2> QED BY <2>2, <2>3, <2>4, <2>5, <2>6, <2>7, ConsumerKeeps
<1> QED BY <1>1, <1>2, <1>3

(* The release has ended, or the wait for it has failed.                   *)
LEMMA ReleasedKeeps ==
    ASSUME ComparisonInv, NEW c \in Testers, WaitReleased(c)
    PROVE  ComparisonInv'
<1>1. /\ crew[c].pc = "unpeer" /\ Forget(c)
      /\ UNCHANGED <<plan, main, endpoints, base, listed, held, stopped,
                     lapses>>
      /\ \/ Status(active[c]) = "Ended" /\ UNCHANGED testFaults
         \/ CallFails
  BY DEF WaitReleased
<1>2. CASE CallFails
  <2>1. testFaults' \in 0 .. MaxFaults /\ (stopped \/ testFaults' # 0)
    BY <1>2, FailureShows DEF ComparisonInv
  <2> QED BY <1>1, <2>1, ForgetKeeps
<1>3. CASE Status(active[c]) = "Ended" /\ UNCHANGED testFaults
  <2>1. Sound(c) BY EachIsSound
  <2>2. \A b \in held : b.id = active[c] => b.st = "Ended"
    BY <1>3, StatusOf DEF ComparisonInv
  <2>3. ~ stopped /\ testFaults = 0 =>
          \A b \in held : b.id.who = c => b.st = "Ended"
    BY <1>1, <2>1, <2>2 DEF Sound
  <2>4. testFaults' \in 0 .. MaxFaults
    BY <1>3 DEF ComparisonInv, ComparisonTypeOK
  <2> QED BY <1>1, <1>3, <2>3, <2>4, ForgetKeeps
<1> QED BY <1>1, <1>2, <1>3

(* The id of a POST and the Broker's reservations after it. *)
NewId(c) == [ReservationID(c) EXCEPT !.seq = nextSeq(c)]
Booked(c) == held \cup {[id |-> NewId(c), st |-> "Pending"]}

(* The id is a new one, of the phase and of the consumer.                  *)
LEMMA NewIdIsNew ==
    ASSUME ComparisonInv, NEW c \in Testers, crew[c].at \in Providers
    PROVE  /\ NewId(c) \in Ids /\ NewId(c).who = c /\ NewId(c).at = crew[c].at
           /\ NewId(c).phase = main.phase /\ NewId(c).seq = nextSeq(c)
           /\ \A b \in held : b.id # NewId(c)
<1>1. /\ nextSeq(c) \in Nat
      /\ \A b \in held : b.id.who = c => b.id.seq # nextSeq(c)
  BY NextSeqFresh DEF ComparisonInv
<1>2. main.phase \in {"A", "B"} BY DEF ComparisonInv, ComparisonTypeOK
<1>3. NewId(c) = [phase |-> main.phase, who |-> c, seq |-> nextSeq(c),
                  at |-> crew[c].at]
  BY DEF NewId, ReservationID
<1> HIDE DEF NewId
<1>4. /\ NewId(c).who = c /\ NewId(c).at = crew[c].at
      /\ NewId(c).phase = main.phase /\ NewId(c).seq = nextSeq(c)
  BY <1>3
<1>5. NewId(c) \in Ids
  <2>1. \A ph \in {"A", "B"}, n \in Nat, p \in Providers :
          [phase |-> ph, who |-> c, seq |-> n, at |-> p] \in Ids
    BY DEF Ids
  <2> QED BY <1>1, <1>2, <1>3, <2>1
<1> QED BY <1>1, <1>4, <1>5

(* A POST books for the consumer, and concerns no other.                   *)
LEMMA BookOwn ==
    ASSUME ComparisonInv, NEW c \in Testers, crew[c].at \in Providers,
           held' \in {held, Booked(c)}
    PROVE  /\ held' \subseteq Bookings /\ IsFiniteSet(held')
           /\ \A b, d \in held' : b.id = d.id => b = d
           /\ \A b \in held' :
                b.id.phase = main.phase \/ \E e \in held : e.id = b.id
           /\ \A b \in Bookings : b.id.who # c => (b \in held <=> b \in held')
           /\ \A b \in held' : b \in held \/ b.id = NewId(c)
           /\ held \subseteq held'
<1> DEFINE n == [id |-> NewId(c), st |-> "Pending"]
<1>1. /\ held \subseteq Bookings /\ IsFiniteSet(held)
      /\ \A b, d \in held : b.id = d.id => b = d
  BY DEF ComparisonInv, ComparisonTypeOK, Bookings, Statuses, OneEach
<1>2. /\ NewId(c) \in Ids /\ NewId(c).who = c
      /\ NewId(c).phase = main.phase
      /\ \A b \in held : b.id # NewId(c)
  BY NewIdIsNew
<1>3. n \in Bookings /\ n.id = NewId(c) BY <1>2 DEF Bookings, Statuses
<1>4. held' = held \/ held' = held \cup {n} BY DEF Booked
<1> HIDE DEF n
<1>5. IsFiniteSet(held') BY <1>1, <1>4, FS_AddElement
<1>6. held' \subseteq Bookings /\ held \subseteq held' BY <1>1, <1>3, <1>4
<1>7. \A b, d \in held' : b.id = d.id => b = d BY <1>1, <1>2, <1>3, <1>4
<1>8. \A b \in held' : b \in held \/ b.id = NewId(c) BY <1>3, <1>4
<1>9. \A b \in Bookings : b.id.who # c => (b \in held <=> b \in held')
  BY <1>2, <1>3, <1>4
<1> QED BY <1>2, <1>5, <1>6, <1>7, <1>8, <1>9

(* The POST is accepted, is refused or fails.                              *)
LEMMA PostKeeps ==
    ASSUME ComparisonInv, NEW c \in Testers, PostReservation(c)
    PROVE  ComparisonInv'
<1>1. /\ crew[c].pc = "reserve"
      /\ UNCHANGED <<plan, main, endpoints, base, listed, active, stopped,
                     lapses>>
      /\ \/ /\ held' = Booked(c)
            /\ crew' = [crew EXCEPT ![c].pc = "peer", ![c].seq = NewId(c).seq]
            /\ UNCHANGED testFaults
         \/ UNCHANGED <<held, testFaults>> /\ Again(c)
         \/ CallFails /\ Again(c) /\ held' \in {held, Booked(c)}
  BY DEF PostReservation, NewId, Booked
<1>2. Sound(c) BY EachIsSound
<1>3. /\ main.pc \in {"run", "join"} /\ crew[c].round < Iterations
      /\ active[c] = NoRes /\ crew[c].at \in Providers
  BY <1>1, <1>2 DEF Sound
<1>4. held' \in {held, Booked(c)} BY <1>1
<1>5. /\ held' \subseteq Bookings /\ IsFiniteSet(held')
      /\ \A b, d \in held' : b.id = d.id => b = d
      /\ \A b \in held' :
           b.id.phase = main.phase \/ \E e \in held : e.id = b.id
      /\ \A b \in Bookings : b.id.who # c => (b \in held <=> b \in held')
      /\ \A b \in held' : b \in held \/ b.id = NewId(c)
  BY <1>3, <1>4, BookOwn
<1>6. active' \in [Testers -> Ids \cup {NoRes}] /\ active'[c] = NoRes
  BY <1>1, <1>3 DEF ComparisonInv, ComparisonTypeOK
<1>7. ~ stopped /\ testFaults = 0 =>
        \A b \in held : b.id.who = c => b.st = "Ended"
  <2>1. \A b \in held : b.id # NoRes
    BY NoResIsNoId DEF ComparisonInv, ComparisonTypeOK
  <2> QED BY <1>1, <1>2, <1>3, <2>1 DEF Sound
<1>8. ASSUME Again(c), testFaults' \in 0 .. MaxFaults,
             \/ UNCHANGED <<held, testFaults>>
             \/ stopped \/ testFaults' # 0
      PROVE  ComparisonInv'
  <2>1. /\ crew' \in [Testers -> Members]
        /\ \A d \in Testers \ {c} : crew'[d] = crew[d]
        /\ \/ crew'[c].pc = "choose" /\ crew'[c].round = crew[c].round
           \/ crew'[c].pc = "idle" /\ crew'[c].row = "failure"
    BY <1>3, <1>8, LooksAgain DEF ComparisonInv
  <2>2. Around(c) BY <1>1, <1>5, <1>8, <2>1 DEF Around
  <2>3. Sound(c)' BY <1>1, <1>3, <1>6, <1>7, <1>8, <2>1 DEF Sound
  <2> QED BY <1>3, <1>5, <1>6, <2>1, <2>2, <2>3, ConsumerKeeps
<1>9. CASE UNCHANGED <<held, testFaults>> /\ Again(c)
  BY <1>8, <1>9 DEF ComparisonInv, ComparisonTypeOK
<1>10. CASE CallFails /\ Again(c)
  BY <1>8, <1>10, FailureShows DEF ComparisonInv
<1>11. CASE /\ held' = Booked(c)
            /\ crew' = [crew EXCEPT ![c].pc = "peer", ![c].seq = NewId(c).seq]
            /\ UNCHANGED testFaults
  <2> DEFINE m == [crew[c] EXCEPT !.pc = "peer", !.seq = NewId(c).seq]
  <2>1. crew \in [Testers -> Members] /\ crew[c] \in Members
    BY DEF ComparisonInv, ComparisonTypeOK, Members, CrewPcs
  <2>2. /\ NewId(c) \in Ids /\ NewId(c).who = c /\ NewId(c).at = crew[c].at
        /\ NewId(c).phase = main.phase
    BY <1>3, NewIdIsNew
  <2>3. NewId(c).seq \in Nat BY <2>2 DEF Ids
  <2>4. /\ m \in Members /\ m.pc = "peer" /\ m.seq = NewId(c).seq
        /\ m.at = crew[c].at /\ m.round = crew[c].round
    BY <2>1, <2>3 DEF Members, CrewPcs
  <2>5. /\ crew' \in [Testers -> Members] /\ crew'[c] = m
        /\ \A d \in Testers \ {c} : crew'[d] = crew[d]
    BY <1>11, <2>1, <2>4
  <2> HIDE DEF m
  <2>6. ReservationID(c)' = NewId(c)
    <3>1. ReservationID(c)' = [phase |-> main.phase, who |-> c,
                               seq |-> NewId(c).seq, at |-> crew[c].at]
      BY <1>1, <2>4, <2>5 DEF ReservationID
    <3> QED BY <2>2, <3>1 DEF Ids
  <2>7. testFaults' \in 0 .. MaxFaults
    BY <1>11 DEF ComparisonInv, ComparisonTypeOK
  <2>8. Around(c) BY <1>1, <1>5, <1>11, <2>5, <2>7 DEF Around
  <2>9. Sound(c)'
    <3>1. ~ stopped' /\ testFaults' = 0 =>
            \A b \in held' : b.id.who = c /\ b.st # "Ended" =>
                b.id = ReservationID(c)'
      BY <1>1, <1>5, <1>7, <1>11, <2>6
    <3> QED BY <1>1, <1>3, <1>6, <2>4, <2>5, <3>1 DEF Sound
  <2> QED BY <1>3, <1>5, <1>6, <2>5, <2>8, <2>9, ConsumerKeeps
<1> QED BY <1>1, <1>9, <1>10, <1>11

(* The wait for Peered ends: the reservation is the consumer's, or it has  *)
(* ended, or the consumer loses track of it.                               *)
LEMMA PeeredKeeps ==
    ASSUME ComparisonInv, NEW c \in Testers, WaitPeered(c)
    PROVE  ComparisonInv'
<1> DEFINE id == ReservationID(c)
<1>1. /\ crew[c].pc = "peer"
      /\ UNCHANGED <<plan, main, endpoints, base, listed, held, stopped,
                     lapses>>
      /\ \/ /\ Status(id) = "Peered" /\ active' = [active EXCEPT ![c] = id]
            /\ Finish(c, "success") /\ UNCHANGED testFaults
         \/ /\ Status(id) = "Ended" /\ Finish(c, "failure")
            /\ UNCHANGED <<active, testFaults>>
         \/ /\ CallFails /\ UNCHANGED active
            /\ Again(c) \/ Finish(c, "failure")
  BY DEF WaitPeered, SetActive
<1>2. Sound(c) BY EachIsSound
<1>3. /\ main.pc \in {"run", "join"} /\ crew[c].round < Iterations
      /\ active[c] = NoRes /\ crew[c].at \in Providers
  BY <1>1, <1>2 DEF Sound
<1>4. id \in Ids /\ id.who = c
  <2>1. main.phase \in {"A", "B"} /\ crew[c].seq \in Nat
    BY DEF ComparisonInv, ComparisonTypeOK
  <2> QED BY <1>3, <2>1 DEF ReservationID, Ids
<1>5. ~ stopped /\ testFaults = 0 =>
        \A b \in held : b.id.who = c /\ b.st # "Ended" => b.id = id
  <2>1. \A b \in held : b.id # NoRes
    BY NoResIsNoId DEF ComparisonInv, ComparisonTypeOK
  <2> QED BY <1>1, <1>2, <1>3, <2>1 DEF Sound
<1>6. /\ active \in [Testers -> Ids \cup {NoRes}]
      /\ testFaults \in 0 .. MaxFaults
      /\ "success" \in Rows /\ "failure" \in Rows
  BY DEF ComparisonInv, ComparisonTypeOK, Rows
<1> HIDE DEF id
<1>7. CASE /\ Status(id) = "Peered" /\ active' = [active EXCEPT ![c] = id]
           /\ Finish(c, "success") /\ UNCHANGED testFaults
  <2>1. /\ crew' \in [Testers -> Members]
        /\ \A d \in Testers \ {c} : crew'[d] = crew[d]
        /\ crew'[c].pc = "idle" /\ crew'[c].row = "success"
    BY <1>3, <1>6, <1>7, Finishes DEF ComparisonInv
  <2>2. /\ active' \in [Testers -> Ids \cup {NoRes}] /\ active'[c] = id
        /\ \A d \in Testers \ {c} : active'[d] = active[d] /\ id # NoRes
    BY <1>4, <1>6, <1>7, NoResIsNoId
  <2>3. \E b \in held : b.id = id /\ b.st = "Peered"
    BY <1>7, StatusOf DEF ComparisonInv
  <2>4. id # NoRes BY <1>4, NoResIsNoId
  <2>5. Sound(c)'
    BY <1>1, <1>3, <1>4, <1>5, <1>7, <2>1, <2>2, <2>3, <2>4 DEF Sound
  <2> QED BY <1>1, <1>3, <1>6, <1>7, <2>1, <2>2, <2>5, QuietKeeps
<1>8. CASE /\ Status(id) = "Ended" /\ Finish(c, "failure")
           /\ UNCHANGED <<active, testFaults>>
  <2>1. /\ crew' \in [Testers -> Members]
        /\ \A d \in Testers \ {c} : crew'[d] = crew[d]
        /\ crew'[c].pc = "idle" /\ crew'[c].row = "failure"
    BY <1>3, <1>6, <1>8, Finishes DEF ComparisonInv
  <2>2. \A b \in held : b.id = id => b.st = "Ended"
    BY <1>8, StatusOf DEF ComparisonInv
  <2>3. Sound(c)' BY <1>1, <1>3, <1>5, <1>8, <2>1, <2>2 DEF Sound
  <2> QED BY <1>1, <1>3, <1>6, <1>8, <2>1, <2>3, QuietKeeps
<1>9. CASE /\ CallFails /\ UNCHANGED active
           /\ Again(c) \/ Finish(c, "failure")
  <2>1. /\ crew' \in [Testers -> Members]
        /\ \A d \in Testers \ {c} : crew'[d] = crew[d]
        /\ \/ crew'[c].pc = "choose" /\ crew'[c].round = crew[c].round
           \/ crew'[c].pc = "idle" /\ crew'[c].row = "failure"
    BY <1>3, <1>6, <1>9, Finishes, LooksAgain DEF ComparisonInv
  <2>2. testFaults' \in 0 .. MaxFaults /\ (stopped \/ testFaults' # 0)
    BY <1>9, FailureShows DEF ComparisonInv
  <2>3. Sound(c)' BY <1>1, <1>3, <1>9, <2>1, <2>2 DEF Sound
  <2> QED BY <1>1, <1>3, <1>6, <1>9, <2>1, <2>2, <2>3, QuietKeeps
<1> QED BY <1>1, <1>7, <1>8, <1>9

-----------------------------------------------------------------------------
(* The invariant, and what it is for.                                      *)

(* The invariant holds at the start.                                       *)
LEMMA ComparisonStarts == ComparisonInit => ComparisonInv
<1> SUFFICES ASSUME ComparisonInit PROVE ComparisonInv
  OBVIOUS
<1>1. /\ main = [pc |-> "start", phase |-> "A"]
      /\ endpoints = {} /\ base = [groups |-> {}, total |-> 0]
      /\ listed = Providers /\ held = {}
      /\ active = newReservePhaseState
      /\ crew = [c \in Testers |-> Rested(0, "none")]
      /\ stopped = FALSE /\ lapses = 0 /\ testFaults = 0
  BY DEF ComparisonInit
<1>2. /\ main \in [pc: MainPcs, phase: {"A", "B"}]
      /\ main.pc = "start" /\ main.phase = "A"
      /\ base.groups = {} /\ base.total = 0
  BY <1>1 DEF MainPcs, PhasePcs
<1>3. /\ crew \in [Testers -> Members]
      /\ \A c \in Testers : crew[c].pc = "idle" /\ crew[c].row = "none"
  BY <1>1, AllRested
<1>4. /\ active \in [Testers -> Ids \cup {NoRes}]
      /\ \A c \in Testers : active[c] = NoRes
  BY <1>1 DEF newReservePhaseState
<1>5. ComparisonTypeOK
  <2>1. 0 \in 0 .. MaxFaults /\ 0 \in Nat BY FederationAssumption
  <2>2. /\ endpoints \subseteq Providers /\ listed \subseteq Providers
        /\ held \subseteq Bookings /\ stopped \in BOOLEAN
    BY <1>1
  <2> QED
    BY <1>1, <1>2, <1>3, <1>4, <2>1, <2>2
    DEF ComparisonTypeOK, Members, CrewPcs, Bookings, Statuses
<1>6. OneEach BY <1>1, <1>4, FS_EmptySet DEF OneEach
<1> QED
  BY <1>1, <1>2, <1>3, <1>4, <1>5, <1>6
  DEF ComparisonInv, CleanBaseline, AtWork, Handling, PhasesArePaired,
      Holding, RowsTell, NoStray

(* It is kept by every step.                                               *)
LEMMA ComparisonInvariant == ComparisonSpec => []ComparisonInv
<1>1. ASSUME ComparisonInv, [ComparisonNext]_ComparisonVars
      PROVE  ComparisonInv'
  <2>1. CASE UNCHANGED ComparisonVars
    BY <1>1, <2>1
    DEF ComparisonVars, ComparisonInv, ComparisonTypeOK, OneEach,
        CleanBaseline, AtWork, Handling, PhasesArePaired, Holding, RowsTell,
        NoStray, ReservationID
  <2>2. CASE runExperiment
    BY <1>1, <2>2, StartKeeps, BaselineKeeps, PolicyKeeps, LoopEndsKeeps,
       JoinKeeps, PhaseEndsKeeps, SettleKeeps, CleanupKeeps
    DEF runExperiment
  <2>3. ASSUME NEW c \in Testers, Iteration(c) PROVE ComparisonInv'
    BY <1>1, <2>3, DispatchKeeps, ReadFailsKeeps, ChooseKeeps, DeleteKeeps,
       ReleasedKeeps, PostKeeps, PeeredKeeps
    DEF Iteration
  <2>4. CASE BrokerMoves \/ ListingMoves \/ Interrupt
    BY <1>1, <2>4, BrokerKeeps, ListingKeeps, InterruptKeeps
  <2> QED BY <1>1, <2>1, <2>2, <2>3, <2>4 DEF ComparisonNext
<1> QED BY <1>1, ComparisonStarts, PTL DEF ComparisonSpec

(* Whatever failed in phase A and however late its chunks are credited,    *)
(* phase B runs on the node groups of the baseline with none of phase A's  *)
(* reservations on them (WaitForFederationCapacity).                       *)
THEOREM PairedPhases == ComparisonSpec => []PhasesArePaired
<1>1. ComparisonInv => PhasesArePaired BY DEF ComparisonInv
<1> QED BY <1>1, ComparisonInvariant, PTL

(* What the harness says its consumers hold is what the Broker has for     *)
(* them, at every step of any number of consumers (state.active and the    *)
(* rows of runReserveConsumerIteration).                                   *)
THEOREM BooksStayInStep == ComparisonSpec => []BooksAgree
<1>1. ComparisonInv => BooksAgree BY PartsAgree
<1> QED BY <1>1, ComparisonInvariant, PTL
=============================================================================
