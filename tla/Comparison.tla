----------------------------- MODULE Comparison -----------------------------
(***************************************************************************)
(* The comparative experiments of federation-tests (comparative-eco and    *)
(* comparative-latency): one run drives the same federation through phase  *)
(* A under Random and phase B under Eco or Latency.  In each phase the     *)
(* consumers' goroutines reserve, keep, switch and release concurrently;   *)
(* between the phases the harness checks that A gave the federation back.  *)
(* Module Replay has the other half of the pairing, the environment.       *)
(***************************************************************************)
EXTENDS Federation

CONSTANTS
    Testers,      \* the consumers of the experiment
    GroupChunks,  \* MaxSize of every node group
    RaceRetries,  \* maxReserveRaceRetries
    Iterations    \* experiment.iterations; in a timed run, a bound

ASSUME ComparisonAssumption ==
    GroupChunks \in Nat /\ RaceRetries \in Nat /\ Iterations \in Nat

VARIABLES
    plan,       \* [suite, mode, timed]: the program and its configuration
    main,       \* runExperiment: [pc, phase]
    endpoints,  \* providers whose probe endpoint was collected at the start
    base,       \* the baseline FederationCapacity
    listed,     \* providers whose node group the Broker lists
    held,       \* the reservations that hold a chunk at the Broker
    active,     \* state.active: the id of each consumer's reservation
    crew,       \* each consumer's goroutine
    stopped,    \* the context of the run is done: os.Interrupt
    lapses,     \* how often a provider has gone stale so far
    testFaults  \* calls that failed or timed out so far

ComparisonVars ==
    <<plan, main, endpoints, base, listed, held, active, crew, stopped,
       lapses, testFaults>>

PhasePcs == {"policy", "run", "join", "cleanup"}
MainPcs == PhasePcs \cup {"start", "baseline", "settle", "ended"}

(* The outcome of an iteration's row; a keep is a success, no winner and a *)
(* reservation that did not come about are failures.                       *)
Rows == {"none", "error", "failure", "success"}
NoRes == [phase |-> "none", who |-> 0, seq |-> 0, at |-> NoProvider]

(* A consumer's goroutine between two iterations. *)
Rested(round, row) ==
    [pc |-> "idle", at |-> NoProvider, tries |-> 0, seq |-> 0,
     round |-> round, row |-> row]

(* newReservePhaseState: nobody holds anything. *)
newReservePhaseState == [c \in Testers |-> NoRes]

ComparisonInit ==
    /\ plan \in [suite: {"eco", "latency"}, mode: {"observe", "reserve"},
                 timed: BOOLEAN]
    /\ main = [pc |-> "start", phase |-> "A"]
    /\ endpoints = {} /\ base = [groups |-> {}, total |-> 0]
    /\ listed = Providers /\ held = {}
    /\ active = newReservePhaseState
    /\ crew = [c \in Testers |-> Rested(0, "none")]
    /\ stopped = FALSE /\ lapses = 0 /\ testFaults = 0

-----------------------------------------------------------------------------
(* The Broker, as the harness sees it.                                     *)

(* CurrentReserved of a provider's node group: a chunk is debited until    *)
(* the reservation's end has been credited.                                *)
CurrentReserved(p) == Cardinality({b \in held : b.id.at = p})

(* GrowableNodeGroups: those with head-room. *)
GrowableNodeGroups == {p \in listed : CurrentReserved(p) < GroupChunks}

(* FindWinner: the growable node group, when there is exactly one. *)
FindWinner(offered) ==
    IF Cardinality(offered) = 1 THEN CHOOSE p \in offered : TRUE
    ELSE NoProvider

(* The status an idempotent POST of a reservation returns. *)
Status(id) ==
    IF \E b \in held : b.id = id
    THEN (CHOOSE b \in held : b.id = id).st ELSE "Ended"

(* A reservation that was accepted is Peered or fails; a release ends; the *)
(* chunk of a reservation that ended is credited later.  Nobody looks any  *)
(* more once the run has ended.                                            *)
BrokerMoves ==
    /\ main.pc # "ended"
    /\ \E b \in held :
         \/ /\ b.st = "Pending"
            /\ \E st \in {"Peered", "Ended"} :
                 held' = (held \ {b}) \cup {[b EXCEPT !.st = st]}
         \/ /\ b.st = "Unpeering"
            /\ held' = (held \ {b}) \cup {[b EXCEPT !.st = "Ended"]}
         \/ /\ b.st = "Ended"
            /\ held' = held \ {b}
    /\ UNCHANGED <<plan, main, endpoints, base, listed, active, crew,
                   stopped, lapses, testFaults>>

(* The faults of a run, bounded together. *)
FaultsLeft ==
    lapses + testFaults + (IF stopped THEN 1 ELSE 0) < 2 * MaxFaults

(* A provider goes stale, or advertises again. *)
ListingMoves ==
    /\ main.pc # "ended"
    /\ \E p \in Providers :
         \/ /\ p \in listed /\ lapses < MaxFaults /\ FaultsLeft
            /\ listed' = listed \ {p} /\ lapses' = lapses + 1
         \/ p \notin listed /\ listed' = listed \cup {p} /\ UNCHANGED lapses
    /\ UNCHANGED <<plan, main, endpoints, base, held, active, crew, stopped,
                   testFaults>>

(* DELETE of a reservation. *)
Deleted(id) ==
    {IF b.id = id /\ b.st \in {"Pending", "Peered"}
     THEN [b EXCEPT !.st = "Unpeering"] ELSE b : b \in held}

-----------------------------------------------------------------------------
(* runExperiment.                                                          *)

(* os.Interrupt: signal.NotifyContext. *)
Interrupt ==
    /\ ~ stopped /\ main.pc # "ended" /\ FaultsLeft
    /\ stopped' = TRUE
    /\ UNCHANGED <<plan, main, endpoints, base, listed, held, active, crew,
                   lapses, testFaults>>

(* A call of the run fails: because of the interrupt, or on its own. *)
CallFails ==
    \/ stopped /\ UNCHANGED testFaults
    \/ /\ ~ stopped /\ testFaults < MaxFaults /\ FaultsLeft
       /\ testFaults' = testFaults + 1

(* runExperiment returns an error. *)
Abort ==
    /\ CallFails
    /\ main' = [main EXCEPT !.pc = "ended"]
    /\ UNCHANGED <<endpoints, base, active, crew>>

(* collectProbeEndpoints, or the URL of mock-eco; stale policies are       *)
(* cleared and the tc delays applied.                                      *)
collectProbeEndpoints ==
    /\ main.pc = "start"
    /\ \/ /\ ~ stopped
          /\ plan.suite = "latency" => Cardinality(listed) >= 2
          /\ endpoints' = IF plan.suite = "latency" THEN listed ELSE {}
          /\ main' = [main EXCEPT !.pc = "baseline"]
          /\ UNCHANGED <<base, active, crew, testFaults>>
       \/ Abort
    /\ UNCHANGED <<plan, listed, held, stopped, lapses>>

(* FederationCapacity, as ReadFederationCapacity takes it. *)
FederationCapacity ==
    [groups |-> listed,
     total |-> Cardinality({b \in held : b.id.at \in listed})]

(* The baseline is read before phase A. *)
ReadBaseline ==
    /\ main.pc = "baseline"
    /\ \/ /\ ~ stopped
          /\ base' = FederationCapacity
          /\ main' = [main EXCEPT !.pc = "policy"]
          /\ UNCHANGED <<endpoints, active, crew, testFaults>>
       \/ Abort
    /\ UNCHANGED <<plan, listed, held, stopped, lapses>>

(* SetPolicyAll, its settle time and the drain of the caches; then the     *)
(* phase starts with an empty phase state.                                 *)
SetPolicyAll ==
    /\ main.pc = "policy"
    /\ \/ /\ ~ stopped
          /\ main' = [main EXCEPT !.pc = "run"]
          /\ active' = newReservePhaseState
          /\ crew' = [c \in Testers |-> Rested(0, "none")]
          /\ UNCHANGED <<endpoints, base, testFaults>>
       \/ Abort
    /\ UNCHANGED <<plan, listed, held, stopped, lapses>>

Idle == \A c \in Testers : crew[c].pc = "idle"

(* The loops of runReservePhase stop: the rounds are done, the deadline of *)
(* a timed phase passed, or the context is done.  A timed loop's consumers *)
(* finish the iteration they are in.                                       *)
LoopEnds ==
    /\ main.pc = "run"
    /\ stopped \/ plan.timed \/ \A c \in Testers : crew[c].round = Iterations
    /\ main' = [main EXCEPT !.pc = "join"]
    /\ UNCHANGED <<plan, endpoints, base, listed, held, active, crew,
                   stopped, lapses, testFaults>>

(* wg.Wait(), after which the deferred clean-up begins. *)
Join ==
    /\ main.pc = "join" /\ Idle
    /\ main' = [main EXCEPT !.pc = "cleanup"]
    /\ crew' = [c \in Testers |-> Rested(0, "none")]
    /\ UNCHANGED <<plan, endpoints, base, listed, held, active, stopped,
                   lapses, testFaults>>

(* The deferred loop of runReservePhase, one reservation at a time and     *)
(* with a context of its own.                                              *)
CleanupNext(c) ==
    /\ main.pc = "cleanup" /\ Idle /\ active[c] # NoRes
    /\ crew' = [crew EXCEPT ![c].pc = "release"]
    /\ UNCHANGED <<plan, main, endpoints, base, listed, held, active,
                   stopped, lapses, testFaults>>

(* The phase has returned. *)
PhaseEnds ==
    /\ main.pc = "cleanup" /\ Idle /\ \A c \in Testers : active[c] = NoRes
    /\ main' = [main EXCEPT !.pc = IF stopped \/ main.phase = "B" THEN "ended"
                                   ELSE "settle"]
    /\ UNCHANGED <<plan, endpoints, base, listed, held, active, crew,
                   stopped, lapses, testFaults>>

(* Mutant: only the totals are compared. *)
MatchesTotal(got, want) == got.total = want.total

(* Matches: the same total, and no node group of the baseline is missing.  *)
Matches(got, want) ==
    got.total = want.total /\ want.groups \subseteq got.groups

(* WaitForFederationCapacity: phase B begins once the federation matches   *)
(* the baseline; the run ends when it does not in time.                    *)
WaitForFederationCapacity ==
    /\ main.pc = "settle"
    /\ \/ /\ ~ stopped /\ Matches(FederationCapacity, base)
          /\ main' = [pc |-> "policy", phase |-> "B"]
          /\ UNCHANGED <<endpoints, base, active, crew, testFaults>>
       \/ /\ ~ Matches(FederationCapacity, base)
          /\ main' = [main EXCEPT !.pc = "ended"]
          /\ UNCHANGED <<endpoints, base, active, crew, testFaults>>
       \/ Abort
    /\ UNCHANGED <<plan, listed, held, stopped, lapses>>

-----------------------------------------------------------------------------
(* One consumer's iteration.                                               *)

(* runReservePhaseCounted: a round starts when the one before has joined. *)
Counted(c) == \A d \in Testers : crew[d].round >= crew[c].round

(* The next iteration of a consumer, on its own in a timed phase. *)
Dispatch(c) ==
    /\ main.pc = "run" /\ ~ stopped
    /\ crew[c].pc = "idle" /\ crew[c].round < Iterations
    /\ plan.timed \/ Counted(c)
    /\ crew' = [crew EXCEPT ![c].pc = "choose", ![c].row = "none"]
    /\ UNCHANGED <<plan, main, endpoints, base, listed, held, active,
                   stopped, lapses, testFaults>>

(* The iteration ends with a row. *)
Finish(c, row) ==
    crew' = [crew EXCEPT ![c] = Rested(@.round + 1, row)]

(* GetNodeGroups, or the probe, failed; or the pause after a rate limit    *)
(* was cut short, which leaves no row.                                     *)
ReadFails(c) ==
    /\ crew[c].pc = "choose"
    /\ CallFails
    /\ \/ Finish(c, "error")
       \/ stopped /\ crew[c].tries > 0 /\ Finish(c, "none")
    /\ UNCHANGED <<plan, main, endpoints, base, listed, held, active,
                   stopped, lapses>>

(* runObserveConsumerIteration: the winner is recorded, nothing reserved. *)
ObserveWinner(c, offered) ==
    Finish(c, IF FindWinner(offered) = NoProvider THEN "failure"
              ELSE "success")

(* runLatencyConsumerIteration: under Latency's shortlist, the fastest of  *)
(* what can be probed.                                                     *)
ObserveProbe(c, offered) ==
    IF main.phase = "B"
    THEN Finish(c, IF offered \cap endpoints = {} THEN "failure"
                   ELSE "success")
    ELSE ObserveWinner(c, offered)

(* ShouldSwitch: to another provider, and only to a lower metric where     *)
(* both have one (never so under Random).                                  *)
ShouldSwitch(cur, winner, lower) ==
    cur = NoRes \/ (cur.at # winner /\ lower)

(* The Broker's winner: where runReserveConsumerIteration and              *)
(* chooseBrokerWinner may move to; NoProvider is to stay as one is.        *)
WinnerTargets(cur, offered) ==
    LET winner == FindWinner(offered)
        lower == IF plan.suite = "eco" /\ main.phase = "B" THEN BOOLEAN
                 ELSE {TRUE} IN
    {IF winner # NoProvider /\ ShouldSwitch(cur, winner, l) THEN winner
     ELSE NoProvider : l \in lower}

(* chooseByProbe: the fastest of the shortlist and the incumbent, or none  *)
(* when nothing answers; a move needs a measurement of the incumbent.      *)
ProbeTargets(cur, offered) ==
    LET chosen == (offered \cup {cur.at}) \cap endpoints IN
    {NoProvider} \cup
    {p \in chosen : cur = NoRes \/ (p # cur.at /\ cur.at \in chosen)}

(* chooseLatencyProvider: by probing under Latency's shortlist. *)
Targets(cur, offered) ==
    IF plan.suite = "latency" /\ main.phase = "B"
    THEN ProbeTargets(cur, offered) ELSE WinnerTargets(cur, offered)

(* A consumer that stays as it is records a keep, if it has a reservation. *)
Stay(c) == Finish(c, IF active[c] = NoRes THEN "failure" ELSE "success")

(* One that moves gives up its reservation first (prevProvider is empty    *)
(* whenever there is one to give up).                                      *)
Move(c, to) ==
    crew' = [crew EXCEPT ![c].at = to,
                         ![c].pc = IF active[c] = NoRes THEN "reserve"
                                   ELSE "release"]

(* GetNodeGroups, the choice and whether to move. *)
Choose(c) ==
    /\ crew[c].pc = "choose" /\ ~ stopped
    /\ \E offered \in SUBSET GrowableNodeGroups :
         \/ /\ plan.mode = "observe"
            /\ IF plan.suite = "eco" THEN ObserveWinner(c, offered)
               ELSE ObserveProbe(c, offered)
         \/ /\ plan.mode = "reserve"
            /\ \E to \in Targets(active[c], offered) :
                 IF to = NoProvider THEN Stay(c) ELSE Move(c, to)
    /\ UNCHANGED <<plan, main, endpoints, base, listed, held, active,
                   stopped, lapses, testFaults>>

(* setActive, deleteActive *)
SetActive(c, id) == active' = [active EXCEPT ![c] = id]

(* Whatever ReleaseAndWait returned, the reservation is forgotten. *)
Forget(c) ==
    /\ SetActive(c, NoRes)
    /\ crew' = [crew EXCEPT ![c].pc = IF main.pc = "cleanup" THEN "idle"
                                      ELSE "reserve"]

(* The calls of a switch are cut off by the interrupt; the clean-up's are  *)
(* not.                                                                    *)
Cut == stopped /\ main.pc # "cleanup"

(* Mutant: a switch does not release what the consumer holds. *)
DeleteForgotten(c) ==
    /\ crew[c].pc = "release"
    /\ Forget(c)
    /\ UNCHANGED <<plan, main, endpoints, base, listed, held, stopped,
                   lapses, testFaults>>

(* ReleaseAndWait, the DELETE: accepted, or it failed before or after the  *)
(* Broker acted.                                                           *)
DeleteReservation(c) ==
    /\ crew[c].pc = "release"
    /\ \/ /\ ~ Cut
          /\ held' = Deleted(active[c])
          /\ crew' = [crew EXCEPT ![c].pc = "unpeer"]
          /\ UNCHANGED <<active, testFaults>>
       \/ CallFails /\ held' \in {held, Deleted(active[c])} /\ Forget(c)
    /\ UNCHANGED <<plan, main, endpoints, base, listed, stopped, lapses>>

(* ReleaseAndWait, the wait for Released. *)
WaitReleased(c) ==
    /\ crew[c].pc = "unpeer"
    /\ \/ Status(active[c]) = "Ended" /\ ~ Cut /\ UNCHANGED testFaults
       \/ CallFails
    /\ Forget(c)
    /\ UNCHANGED <<plan, main, endpoints, base, listed, held, stopped,
                   lapses>>

(* MakeReservationID of the consumer's latest sequence number. *)
ReservationID(c) ==
    [phase |-> main.phase, who |-> c, seq |-> crew[c].seq, at |-> crew[c].at]

(* nextSeq: a number that no reservation of the consumer that still takes  *)
(* a chunk has; the code counts.                                           *)
nextSeq(c) ==
    CHOOSE n \in 1 .. Cardinality(held) + 1 :
        /\ \A b \in held : b.id.who = c => b.id.seq # n
        /\ \A m \in 1 .. n - 1 : \E b \in held : b.id.who = c /\ b.id.seq = m

(* Mutant: another look, however many there were. *)
AgainAlways(c) ==
    crew' = [crew EXCEPT ![c] = [Rested(@.round, @.row) EXCEPT
                                   !.pc = "choose",
                                   !.tries = crew[c].tries + 1]]

(* A lost race, a rate limit or a transient error: another look, while     *)
(* attempts are left.                                                      *)
Again(c) ==
    IF crew[c].tries < RaceRetries
    THEN crew' = [crew EXCEPT ![c] = [Rested(@.round, @.row) EXCEPT
                                        !.pc = "choose",
                                        !.tries = crew[c].tries + 1]]
    ELSE Finish(c, "failure")

(* nextSeq, and the POST.  It is accepted; it is refused, for want of a    *)
(* chunk, of a live advertisement or of tokens in the rate limiter; or it  *)
(* fails, before or after the Broker acted.                                *)
PostReservation(c) ==
    LET id == [ReservationID(c) EXCEPT !.seq = nextSeq(c)]
        room == crew[c].at \in GrowableNodeGroups
        booked == held \cup {[id |-> id, st |-> "Pending"]} IN
    /\ crew[c].pc = "reserve"
    /\ \/ /\ ~ stopped /\ room
          /\ held' = booked
          /\ crew' = [crew EXCEPT ![c].pc = "peer", ![c].seq = id.seq]
          /\ UNCHANGED testFaults
       \/ ~ stopped /\ UNCHANGED <<held, testFaults>> /\ Again(c)
       \/ /\ CallFails /\ Again(c)
          /\ held' \in {held} \cup IF room THEN {booked} ELSE {}
    /\ UNCHANGED <<plan, main, endpoints, base, listed, active, stopped,
                   lapses>>

(* ReserveAndWait, the wait for Peered (setActive).  A terminal phase or   *)
(* the reservation timeout ends the iteration; a failed poll is transient. *)
WaitPeered(c) ==
    /\ crew[c].pc = "peer"
    /\ \/ /\ Status(ReservationID(c)) = "Peered" /\ ~ stopped
          /\ SetActive(c, ReservationID(c))
          /\ Finish(c, "success") /\ UNCHANGED testFaults
       \/ /\ Status(ReservationID(c)) = "Ended" /\ ~ stopped
          /\ Finish(c, "failure") /\ UNCHANGED <<active, testFaults>>
       \/ /\ CallFails /\ UNCHANGED active
          /\ Again(c) \/ Finish(c, "failure")
    /\ UNCHANGED <<plan, main, endpoints, base, listed, held, stopped,
                   lapses>>

Iteration(c) ==
    \/ Dispatch(c) \/ ReadFails(c) \/ Choose(c) \/ DeleteReservation(c)
    \/ WaitReleased(c) \/ PostReservation(c) \/ WaitPeered(c)

runExperiment ==
    \/ collectProbeEndpoints \/ ReadBaseline \/ SetPolicyAll \/ LoopEnds
    \/ Join \/ PhaseEnds \/ WaitForFederationCapacity
    \/ \E c \in Testers : CleanupNext(c)

ComparisonNext ==
    \/ runExperiment \/ \E c \in Testers : Iteration(c)
    \/ BrokerMoves \/ ListingMoves \/ Interrupt

ComparisonSpec == ComparisonInit /\ [][ComparisonNext]_ComparisonVars

-----------------------------------------------------------------------------
Ids == [phase: {"A", "B"}, who: Testers, seq: Nat, at: Providers]

ComparisonTypeOK ==
    /\ main \in [pc: MainPcs, phase: {"A", "B"}]
    /\ endpoints \subseteq Providers /\ listed \subseteq Providers
    /\ base.groups \subseteq Providers /\ base.total \in Nat
    /\ held \subseteq
         [id: Ids, st: {"Pending", "Peered", "Unpeering", "Ended"}]
    /\ active \in [Testers -> Ids \cup {NoRes}]
    /\ crew \in [Testers ->
                   [pc: {"idle", "choose", "release", "unpeer", "reserve",
                         "peer"},
                    at: Providers \cup {NoProvider}, tries: 0 .. RaceRetries,
                    round: 0 .. Iterations, seq: Nat, row: Rows]]
    /\ stopped \in BOOLEAN
    /\ lapses \in 0 .. MaxFaults /\ testFaults \in 0 .. MaxFaults

(* Phase B runs on the federation phase A started on: nothing that phase A *)
(* reserved, and gave up or lost track of, still takes a chunk of a node   *)
(* group of the baseline, whatever failed in phase A, however late chunks  *)
(* are credited and whichever providers went stale at the moment of the    *)
(* check (WaitForFederationCapacity, Matches).                             *)
PhasesArePaired ==
    main.phase = "B" =>
        \A b \in held : b.id.phase = "A" => b.id.at \notin base.groups

(* The harness's books agree with the Broker's.  What a consumer is said   *)
(* to hold is a live reservation of it, Peered unless it is being          *)
(* released; its last row says that it holds one, or that it holds none,   *)
(* when it does; and as long as no call failed and nobody interrupted the  *)
(* run, every live reservation is one that its consumer holds or is about  *)
(* to, through lost races, retries under new ids and switches              *)
(* (state.active, runReserveConsumerIteration).                            *)
BooksAgree ==
    /\ \A c \in Testers :
         /\ active[c] # NoRes =>
              Status(active[c]) = "Peered" \/ crew[c].pc = "unpeer"
         /\ crew[c].pc = "idle" /\ main.pc = "run"
              /\ plan.mode = "reserve" =>
                /\ crew[c].row = "success" => active[c] # NoRes
                /\ crew[c].row = "failure" => active[c] = NoRes
    /\ ~ stopped /\ testFaults = 0 =>
         \A b \in held : b.st # "Ended" =>
            LET c == b.id.who IN
            \/ b.id = active[c]
            \/ crew[c].pc = "peer" /\ b.id = ReservationID(c)
=============================================================================
