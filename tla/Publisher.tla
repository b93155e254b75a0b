----------------------------- MODULE Publisher ------------------------------
(***************************************************************************)
(* A provider's advertisement in time: the Provider Agent's 30 s publish   *)
(* cycle with what it reads on the way (the cluster's nodes, the capacity  *)
(* caps, the geo and the carbon service behind their caches), and the      *)
(* Broker's check that flags a provider it has not heard from for 90 s.    *)
(*                                                                         *)
(* Time passes in units of 10 s.  What a cycle reads is chosen when it     *)
(* reads it: nothing in the cycle depends on how the world got there.      *)
(***************************************************************************)
EXTENDS Federation, Integers

CONSTANTS
    Interval,       \* units between two publish cycles
    StaleAfter,     \* units of silence after which a provider is flagged
    MaxCycle,       \* bound on the units one cycle takes
    CarbonTTL,      \* units a carbon value stays cached
    NodeAllocatable, \* what one node of the provider can give
    ChunkSize       \* what one chunk takes of it

VARIABLES
    publisher,      \* the publish loop and the cycle it is in
    carbonCache,    \* ages of the cached forecast and current value
    advertisement,  \* the ClusterAdvertisement at the Broker
    checkIn         \* units until the Broker looks at it again

PublisherVars == <<publisher, carbonCache, advertisement, checkIn>>

Never == StaleAfter + Interval + 1          \* older than anything compared
Requeue == StaleAfter \div 3
Older(age, cap) == IF age < cap THEN age + 1 ELSE cap
Old == CarbonTTL + 1                        \* a carbon value past its TTL
NoCarbon == Old + 1                         \* no carbon value at all

(* The nodes of the provider: each is counted when it is ready and not     *)
(* cordoned.                                                               *)
NodeStates == [1 .. 2 -> {"ready", "notReady", "cordoned"}]

(* snapshot.Take                                                           *)
Take(nodes) ==
    NodeAllocatable * Cardinality({n \in DOMAIN nodes : nodes[n] = "ready"})

(* A rule of the capacity file, after parsing: none for the resource, a    *)
(* percentage, or a fixed amount.                                          *)
Rules == {[kind |-> "unset", value |-> 0]}
    \cup [kind: {"percent"}, value: {-1, 50, 150}]
    \cup [kind: {"fixed"}, value: {-4, 1, 100}]

(* Mutant: a percentage above 100 scales up. *)
applyCapacityScalingUnbounded(alloc, rule) ==
    CASE rule.kind = "unset"   -> alloc
      [] rule.kind = "percent" -> IF rule.value < 0 THEN alloc
                                  ELSE (alloc * rule.value) \div 100
      [] rule.kind = "fixed"   -> IF rule.value < alloc THEN rule.value
                                  ELSE alloc

applyCapacityScaling(alloc, rule) ==
    CASE rule.kind = "unset"   -> alloc
      [] rule.kind = "percent" -> IF rule.value < 0 \/ rule.value >= 100
                                  THEN alloc
                                  ELSE (alloc * rule.value) \div 100
      [] rule.kind = "fixed"   -> IF rule.value < alloc THEN rule.value
                                  ELSE alloc

(* Mutant: the number of chunks is not bounded below. *)
SizeUnclamped(offered) == offered \div ChunkSize

(* DefaultSizer.Size: a fixed cap may be a negative quantity.              *)
Size(offered) == IF offered < 0 THEN 0 ELSE offered \div ChunkSize

Offers == [chunks: Nat, allocatable: Nat]
Nothing == [chunks |-> 0, allocatable |-> 0]
Quiet == [next |-> 0, pc |-> "idle", offer |-> Nothing, age |-> 0,
          missed |-> 0]
NotAdvertised == [seen |-> Never, available |-> FALSE, carbon |-> NoCarbon,
                  excused |-> FALSE]

PublisherInit ==
    /\ publisher = Quiet
    /\ carbonCache = [forecast |-> NoCarbon, current |-> NoCarbon]
    /\ advertisement = NotAdvertised
    /\ checkIn = Requeue

----------------------------------------------------------------------------
(* The cycle *)

(* The ticker fires and publishOnce starts.                                *)
Start ==
    /\ publisher.next = 0 /\ publisher.pc = "idle"
    /\ publisher' = [publisher EXCEPT !.next = Interval, !.pc = "begun",
                                      !.age = 0]
    /\ UNCHANGED <<carbonCache, advertisement, checkIn>>

(* The snapshot of the cluster, and the caps applied to it.                *)
Snapshot ==
    /\ publisher.pc = "begun"
    /\ \E nodes \in NodeStates, rule \in Rules :
          publisher' = [publisher EXCEPT
              !.pc = "taken",
              !.offer = [chunks |-> Size(applyCapacityScaling(Take(nodes),
                                                              rule)),
                         allocatable |-> Take(nodes)]]
    /\ UNCHANGED <<carbonCache, advertisement, checkIn>>

(* CurrentCarbon and Forecast of the eco client: the age of the value it   *)
(* returns.  A value younger than the TTL is not fetched again, and one    *)
(* that cannot be fetched again is used however old it is.                 *)
FetchCarbon(cached, up) ==
    IF cached < CarbonTTL THEN cached ELSE IF up THEN 0 ELSE cached

(* loadCarbon: the current value is asked for only when there is no        *)
(* forecast.                                                               *)
loadCarbon(up) ==
    LET forecast == FetchCarbon(carbonCache.forecast, up.forecast)
    IN  IF forecast # NoCarbon
        THEN [carbonCache EXCEPT !.forecast = forecast]
        ELSE [carbonCache EXCEPT !.current =
                                     FetchCarbon(carbonCache.current, up.current)]

(* The cycle is over; what it read is forgotten.                           *)
Over(missed) ==
    publisher' = [publisher EXCEPT !.pc = "idle", !.offer = Nothing,
                                   !.missed = missed]

OneMore == IF publisher.missed < 2 THEN publisher.missed + 1 ELSE 2

(* The rest of publishOnce, and the Broker's handler for it: location,     *)
(* carbon, then the post.  Without a location there is no carbon value,    *)
(* and the advertisement goes out all the same.  The post may fail, before *)
(* the Broker has it or after: the next cycle comes with the next tick.    *)
Publish ==
    /\ publisher.pc = "taken"
    /\ \E located \in BOOLEAN, up \in [forecast: BOOLEAN, current: BOOLEAN],
          post \in {"ok", "replyLost", "failed"} :
         LET cache == IF located THEN loadCarbon(up) ELSE carbonCache
         IN  /\ carbonCache' = cache
             /\ advertisement' = IF post = "failed" THEN advertisement ELSE
                  [seen |-> 0, available |-> TRUE,
                   carbon |-> IF ~located THEN NoCarbon
                              ELSE IF cache.forecast # NoCarbon
                              THEN cache.forecast ELSE cache.current,
                   excused |-> ~(up.forecast /\ up.current)]
             /\ Over(IF post = "ok" THEN 0 ELSE OneMore)
    /\ UNCHANGED checkIn

(* The snapshot fails, and with it the cycle.                              *)
SnapshotFails ==
    /\ publisher.pc = "begun"
    /\ Over(OneMore)
    /\ UNCHANGED <<carbonCache, advertisement, checkIn>>

----------------------------------------------------------------------------
(* The Broker's check *)

isAdvertisementStale == advertisement.seen > StaleAfter

(* Mutant: a stale status is not looked at again. *)
CheckOnce ==
    /\ checkIn = 0
    /\ advertisement' = [advertisement EXCEPT
                            !.available = ~isAdvertisementStale]
    /\ checkIn' = IF advertisement.seen > Requeue THEN Never ELSE Requeue
    /\ UNCHANGED <<publisher, carbonCache>>

(* ClusterAdvertisementReconciler.Reconcile: an update that lost a race    *)
(* against a report conflicts and is made again on the new status.         *)
Check ==
    /\ checkIn = 0
    /\ advertisement' = [advertisement EXCEPT
                            !.available = ~isAdvertisementStale]
    /\ checkIn' = Requeue
    /\ UNCHANGED <<publisher, carbonCache>>

----------------------------------------------------------------------------
(* Nothing that is due is put off: the ticker's cycle and the requeued     *)
(* check start on time, and a cycle ends within MaxCycle.                  *)
Tick ==
    /\ checkIn > 0
    /\ publisher.next > 0
    /\ publisher.pc # "idle" => publisher.age < MaxCycle
    /\ publisher' = [publisher EXCEPT !.next = @ - 1,
                         !.age = IF publisher.pc = "idle" THEN 0 ELSE @ + 1]
    /\ carbonCache' = [k \in DOMAIN carbonCache |->
                          IF carbonCache[k] = NoCarbon THEN NoCarbon
                          ELSE Older(carbonCache[k], Old)]
    /\ advertisement' = [advertisement EXCEPT !.seen = Older(@, Never)]
    /\ checkIn' = checkIn - 1

PublisherNext == Start \/ Snapshot \/ SnapshotFails \/ Publish \/ Check \/ Tick

PublisherSpec == PublisherInit /\ [][PublisherNext]_PublisherVars

----------------------------------------------------------------------------
PublisherTypeOK ==
    /\ publisher \in [next: 0 .. Interval, pc: {"idle", "begun", "taken"},
                      offer: Offers, age: 0 .. MaxCycle, missed: 0 .. 2]
    /\ carbonCache \in [forecast: 0 .. NoCarbon, current: 0 .. NoCarbon]
    /\ advertisement \in [seen: 0 .. Never, available: BOOLEAN,
                          carbon: 0 .. NoCarbon, excused: BOOLEAN]
    /\ checkIn \in 0 .. Never

(* Availability follows the reports.  A provider that fell silent is       *)
(* offered no longer than StaleAfter plus one requeue of the check after   *)
(* its last report.  One is not flagged for a single missed report: with   *)
(* at most one failed cycle since the last success it stays available,     *)
(* however slow the cycles are and whether or not the geo and carbon       *)
(* services answer.                                                        *)
AvailabilityFollowsReports ==
    /\ advertisement.available => advertisement.seen <= StaleAfter + Requeue
    /\ publisher.missed <= 1 /\ advertisement.seen # Never
          => advertisement.available

(* What is advertised is backed.  A cap only ever lowers it: the chunks on *)
(* offer fit in what the ready, schedulable nodes can give.  The carbon    *)
(* value has outlived the TTL of its cache only when the carbon service    *)
(* failed in that very cycle.                                              *)
OfferIsBacked ==
    /\ publisher.offer.chunks * ChunkSize <= publisher.offer.allocatable
    /\ advertisement.carbon # NoCarbon /\ ~advertisement.excused
          => advertisement.carbon < CarbonTTL
=============================================================================
