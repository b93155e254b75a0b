------------------------------- MODULE Prober -------------------------------
(***************************************************************************)
(* The consumer's latency prober: concurrent node-group reads measure the  *)
(* round trip to the shortlisted providers, through a cache, and choose    *)
(* the nearest.  The lock is held while the cache is read and while it is  *)
(* written, and not while the providers are probed.                        *)
(*                                                                         *)
(* What a probe measures is chosen when it is made: round trips change and *)
(* datagrams are lost.                                                     *)
(***************************************************************************)
EXTENDS Federation

CONSTANTS
    Callers,        \* concurrent reads of the node groups
    CacheTTL,       \* how long a sample is served again
    MaxProbe        \* bound on how long the probes of one round take

ASSUME ProberAssumption == CacheTTL \in Nat \ {0} /\ MaxProbe \in Nat

VARIABLES
    cacheOf,        \* [Providers -> samples], by probe endpoint
    round,          \* [Callers -> the measurement round of each]
    last            \* the last result, which the heartbeat reports

ProberVars == <<cacheOf, round, last>>

Inf == 3
RTTs == {1, 2, Inf}

(* A sample: the round trip, and the time since it was stored (its `at`)   *)
(* and since it was measured.                                              *)
TooOld == CacheTTL + 2 * MaxProbe
Aged(n) == IF n < TooOld THEN n + 1 ELSE TooOld
Samples == [rtt: RTTs, age: 0 .. CacheTTL, old: 0 .. TooOld]
NoSample == [rtt |-> Inf, age |-> CacheTTL, old |-> 0]

(* pc: idle; probe, when it waits for echoes; store, when it has them.     *)
(* hit: what the cache gave; probed: what the probes gave; taking: time    *)
(* since the cache was read; lag: since the probes were answered; gone:    *)
(* the caller has hung up.                                                 *)
NoRound == [pc |-> "idle", hit |-> [p \in Providers |-> NoSample],
            probed |-> [p \in Providers |-> Inf], toProbe |-> {},
            taking |-> 0, lag |-> 0, gone |-> FALSE]

ProberInit ==
    /\ cacheOf = [p \in Providers |-> NoSample]
    /\ round = [c \in Callers |-> NoRound]
    /\ last = [chosen |-> NoProvider, rtt |-> Inf, best |-> Inf, old |-> 0]

----------------------------------------------------------------------------
(* Choosing *)

(* The first of the lowest finite round trips; candidates come in the      *)
(* order of their distance.                                                *)
Lowest(rtts) ==
    LET best == {p \in Providers : /\ rtts[p] < Inf
                                   /\ \A q \in Providers : rtts[p] <= rtts[q]}
    IN  IF best = {} THEN NoProvider
        ELSE CHOOSE p \in best : \A q \in best : p <= q

(* What MeasureAndPick returns and keeps, with how old the measurement of  *)
(* the chosen provider is.                                                 *)
Result(rtts, old) ==
    LET p == Lowest(rtts)
    IN  [chosen |-> p, rtt |-> IF p = NoProvider THEN Inf ELSE rtts[p],
         best |-> CHOOSE r \in {rtts[q] : q \in Providers} :
                      \A q \in Providers : r <= rtts[q],
         old |-> IF p = NoProvider THEN 0 ELSE old[p]]

----------------------------------------------------------------------------
(* A measurement round *)

(* Mutant: serving a sample makes it young again. *)
MeasureRefreshing(c) ==
    LET fresh == {p \in Providers : cacheOf[p].age < CacheTTL} IN
    /\ round[c].pc = "idle"
    /\ cacheOf' = [p \in Providers |->
                      IF p \in fresh
                      THEN [cacheOf[p] EXCEPT !.age = 0] ELSE cacheOf[p]]
    /\ round' = [round EXCEPT ![c] = [NoRound EXCEPT
                     !.pc = IF fresh = Providers THEN "store" ELSE "probe",
                     !.hit = cacheOf, !.toProbe = Providers \ fresh]]
    /\ UNCHANGED last

(* Measure, under the lock: fresh samples are served and the rest is to be *)
(* probed.                                                                 *)
Measure(c) ==
    LET fresh == {p \in Providers : cacheOf[p].age < CacheTTL} IN
    /\ round[c].pc = "idle"
    /\ round' = [round EXCEPT ![c] = [NoRound EXCEPT
                     !.pc = IF fresh = Providers THEN "store" ELSE "probe",
                     !.hit = [p \in Providers |-> IF p \in fresh
                                                  THEN cacheOf[p]
                                                  ELSE NoSample],
                     !.toProbe = Providers \ fresh]]
    /\ UNCHANGED <<cacheOf, last>>

(* probeMedian for every provider to probe.  A caller that has gone gets   *)
(* no echo any more.                                                       *)
Probe(c) ==
    /\ round[c].pc = "probe"
    /\ \E rtts \in [round[c].toProbe -> RTTs] :
         /\ round[c].gone => \A p \in round[c].toProbe : rtts[p] = Inf
         /\ round' = [round EXCEPT ![c] =
                [@ EXCEPT !.pc = "store",
                          !.probed = [p \in Providers |->
                              IF p \in round[c].toProbe THEN rtts[p]
                              ELSE Inf]]]
    /\ UNCHANGED <<cacheOf, last>>

(* The rest of Measure, under the lock, and of MeasureAndPick: what was    *)
(* probed is stored, and the nearest is chosen.                            *)
Store(c) ==
    LET r == round[c]
        rtts == [p \in Providers |-> IF p \in r.toProbe THEN r.probed[p]
                                     ELSE r.hit[p].rtt]
        old == [p \in Providers |->
                   IF p \in r.toProbe THEN r.lag ELSE r.hit[p].old]
    IN  /\ r.pc = "store"
        /\ cacheOf' = [p \in Providers |->
                          IF p \in r.toProbe
                          THEN [rtt |-> r.probed[p], age |-> 0, old |-> r.lag]
                          ELSE cacheOf[p]]
        /\ last' = Result(rtts, old)
        /\ round' = [round EXCEPT ![c] = NoRound]

(* The client of a node-group read goes away: its context ends.            *)
CallerLeaves(c) ==
    /\ round[c].pc = "probe" /\ ~round[c].gone
    /\ round' = [round EXCEPT ![c].gone = TRUE]
    /\ UNCHANGED <<cacheOf, last>>

(* A sample that a round was served, a unit of time later. *)
AgedHit(s) == IF s = NoSample THEN NoSample ELSE [s EXCEPT !.old = Aged(@)]

(* The clock moves, and no round outlasts its probes. *)
TimePasses ==
    /\ \A c \in Callers : round[c].pc # "idle" => round[c].taking < MaxProbe
    /\ cacheOf' = [p \in Providers |->
                      IF cacheOf[p].age + 1 < CacheTTL
                      THEN [cacheOf[p] EXCEPT !.age = @ + 1, !.old = Aged(@)]
                      ELSE NoSample]
    /\ round' = [c \in Callers |->
                    IF round[c].pc = "idle" THEN round[c]
                    ELSE [round[c] EXCEPT
                            !.taking = @ + 1,
                            !.hit = [p \in Providers |->
                                        AgedHit(round[c].hit[p])],
                            !.lag = @ + IF round[c].pc = "store" THEN 1
                                        ELSE 0]]
    /\ UNCHANGED last

ProberNext ==
    \/ TimePasses
    \/ \E c \in Callers :
          Measure(c) \/ Probe(c) \/ Store(c) \/ CallerLeaves(c)

ProberSpec == ProberInit /\ [][ProberNext]_ProberVars

----------------------------------------------------------------------------
ProberTypeOK ==
    /\ cacheOf \in [Providers -> Samples]
    /\ \A c \in Callers : /\ round[c].pc \in {"idle", "probe", "store"}
                          /\ round[c].toProbe \subseteq Providers
    /\ last.chosen \in Providers \cup {NoProvider}

(* The provider that is grown for its latency answered a probe recently    *)
(* (less than the cache's TTL ago, but for the time two rounds of probes   *)
(* take), however often the cache is read in between, and no slower than   *)
(* any other candidate.                                                    *)
ChosenAnswered ==
    last.chosen # NoProvider =>
        /\ last.rtt < Inf /\ last.rtt = last.best
        /\ last.old < TooOld
=============================================================================
