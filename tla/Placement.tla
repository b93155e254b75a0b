------------------------------ MODULE Placement ------------------------------
(***************************************************************************)
(* The placement decision: chunk sizing and pricing, the policies that     *)
(* decide which provider a consumer's Cluster Autoscaler (CA) can grow,    *)
(* as the Broker takes it from its advertisements (BuildNodeGroups) and as *)
(* the consumer's own brain takes it from catalog offers (nodeGroups).     *)
(* The state is what the decision reads, which the providers and the       *)
(* consumer's bookings change.                                             *)
(*                                                                         *)
(* Metrics are exact fractions <<numerator, denominator>>; the code uses   *)
(* floating point.  Distances are whole units of 100 km (fibreKmPerMs), so *)
(* that one unit of distance estimates one millisecond.                    *)
(***************************************************************************)
EXTENDS Federation, SequencesExt

CONSTANTS
    OfferSets,            \* what a provider may have on offer
    LatencyShortlistSize, \* latencyShortlistSize
    MaxOwn                \* bound on this consumer's chunks on one provider

VARIABLES
    offers,      \* [Candidates -> OfferSets]: [sites: live offers, in SiteID
                 \* order, others: chunks that other consumers hold]
    bookings     \* [Candidates -> [settled, inFlight]]: own reservations

vars == <<offers, bookings>>

ChunkTypes == {"standard", "gpu"}
None == <<0, 0>>                                     \* no value of a metric

(* A site's offer: its free capacity (cpu in milli, memory in Mi), unit    *)
(* prices (a partial function), carbon forecast and intensity (-1: none),  *)
(* renewable flag, distance (-1: no coordinates) and the round-trip        *)
(* measured to its probe endpoint (-1: none, or infinite).                 *)
SiteFields == {"cpu", "memory", "gpu", "prices", "forecast", "intensity",
               "renewable", "distance", "rtt"}

Init ==
    /\ offers = [p \in Candidates |-> [sites |-> <<>>, others |-> 0]]
    /\ bookings = [p \in Candidates |-> [settled |-> 0, inFlight |-> 0]]

Larger(a, b) == IF a > b THEN a ELSE b
Smaller(a, b) == IF a < b THEN a ELSE b
Total(f(_), S) == FoldSet(LAMBDA x, acc : f(x) + acc, 0, S)

-----------------------------------------------------------------------------
(* Chunks and prices.                                                      *)

(* sizeStandard, sizeGPU *)
sizeStandard(c) == Smaller(c.cpu \div 2000, c.memory \div 4096)
sizeGPU(c) == Smaller(Smaller(c.cpu \div 4000, c.memory \div 8192), c.gpu)

(* Size, and sizedChunks. *)
Size(c) ==
    IF c.gpu > 0 THEN [type |-> "gpu", count |-> sizeGPU(c)]
    ELSE [type |-> "standard", count |-> sizeStandard(c)]

(* resourceUnits of one chunk: cores, GiB, devices. *)
PerChunk(type) ==
    IF type = "gpu" THEN [cpu |-> 4, memory |-> 8, gpu |-> 1]
    ELSE [cpu |-> 2, memory |-> 4]

(* perChunkCostWith: only a fully priced chunk has a cost. *)
perChunkCost(prices, type) ==
    LET chunk == PerChunk(type) IN
    IF DOMAIN chunk \subseteq DOMAIN prices
    THEN <<Total(LAMBDA r : prices[r] * chunk[r], DOMAIN chunk), 1>>
    ELSE None

(* ecoWeights, in hundredths. *)
ecoWeights == <<40, 25, 15, 10, 6, 4>>

(* ecoWeightedScore: the weighted average of the first six hours.          *)
ecoWeightedScore(forecast) ==
    LET hours == 1 .. Smaller(Len(forecast), Len(ecoWeights)) IN
    <<Total(LAMBDA i : ecoWeights[i] * forecast[i], hours),
      Total(LAMBDA i : ecoWeights[i], hours)>>

(* weightedCarbon *)
weightedCarbon(site) ==
    IF site.forecast # <<>> THEN ecoWeightedScore(site.forecast)
    ELSE IF site.intensity >= 0 THEN <<site.intensity, 1>> ELSE None

-----------------------------------------------------------------------------
(* BuildNodeGroups.  An advertisement is [site (its attributes), type,     *)
(* total, reserved]; `advs` has those that are available.                  *)

Less(m, n) == m[1] * n[2] < n[1] * m[2]

(* applyStandardPreference: one minus 0.8 * free fraction + 0.2 if         *)
(* renewable, in tenths.                                                   *)
standardMetric(a) ==
    LET free == Larger(a.total - a.reserved, 0)
        bonus == IF a.site.renewable THEN 2 ELSE 0
    IN IF a.total = 0 THEN <<10 - bonus, 10>>
       ELSE <<(10 - bonus) * a.total - 8 * free, 10 * a.total>>

(* consumerProviderDistances; `located`: the consumer has a location.      *)
distance(a, located) ==
    IF located /\ a.site.distance >= 0 THEN <<a.site.distance, 1>> ELSE None

(* What the policy ranks an advertisement by.                              *)
Metric(policy, a, located) ==
    CASE policy = "Price" -> perChunkCost(a.site.prices, a.type)
      [] policy = "Eco" -> weightedCarbon(a.site)
      [] policy = "Latency" -> distance(a, located)
      [] policy = "Standard" -> standardMetric(a)
      [] OTHER -> None

(* nodeGroupView: MaxSize and CurrentReserved, the consumer's own chunks   *)
(* replacing the provider-wide count (OwnReserved).                        *)
nodeGroupView(a, own) ==
    [type |-> a.type, current |-> own,
     max |-> own + Larger(a.total - a.reserved, 0)]

HeadRoom(v) == v.max - v.current

(* The metric-bearing members of S, best first (name breaks ties).         *)
Order(S, metric) ==
    SetToSortSeq({p \in S : metric[p] # None},
                 LAMBDA p, q : \/ Less(metric[p], metric[q])
                               \/ ~Less(metric[q], metric[p]) /\ p < q)

(* Mutant: an in-flight reservation does not hold the spill. *)
applyMetricPreferenceUngated(S, views, metric, inflight) ==
    LET order == Order(S, metric)
        stop == SelectInSeq(order, LAMBDA p : HeadRoom(views[p]) > 0)
    IN IF stop = 0 THEN S ELSE {order[stop]}

(* applyMetricPreference for the providers S of one chunk type: those left *)
(* unmasked.  The walk stops at the first with head-room, which it         *)
(* chooses, or at the first in flight, which blocks all.                   *)
applyMetricPreference(S, views, metric, inflight) ==
    LET order == Order(S, metric)
        stop == SelectInSeq(order, LAMBDA p : \/ HeadRoom(views[p]) > 0
                                              \/ p \in inflight)
    IN IF stop = 0 THEN S
       ELSE IF HeadRoom(views[order[stop]]) > 0 THEN {order[stop]} ELSE {}

(* applyLatencyTopN for one chunk type: the nearest with head-room are     *)
(* kept; one in flight before the first of them blocks all.                *)
applyLatencyTopN(S, views, metric, inflight) ==
    LET order == Order(S, metric)
        roomy == SelectSeq(order, LAMBDA p : HeadRoom(views[p]) > 0)
        stop == SelectInSeq(order, LAMBDA p : \/ HeadRoom(views[p]) > 0
                                              \/ p \in inflight)
    IN IF stop # 0 /\ HeadRoom(views[order[stop]]) <= 0 THEN {}
       ELSE IF roomy = <<>> THEN S
       ELSE ToSet(SubSeq(roomy, 1, Smaller(Len(roomy), LatencyShortlistSize)))

(* applyRandomPreference for one chunk type: the possible outcomes.        *)
applyRandomPreference(S, views, inflight) ==
    LET roomy == {p \in S : HeadRoom(views[p]) > 0} IN
    IF roomy # {} THEN {{p} : p \in roomy}
    ELSE {IF S \cap inflight # {} THEN {} ELSE S}

(* What the policy may leave unmasked among S.                             *)
Unmasked(policy, S, views, metric, inflight) ==
    CASE policy = "Latency" -> {applyLatencyTopN(S, views, metric, inflight)}
      [] policy = "Random" -> applyRandomPreference(S, views, inflight)
      [] policy = "ConsumerChoice" -> {S}
      [] OTHER -> {applyMetricPreference(S, views, metric, inflight)}

(* BuildNodeGroups: the views it may return.                               *)
BuildNodeGroups(policy, advs, own, inflight, located) ==
    LET views == [p \in DOMAIN advs |-> nodeGroupView(advs[p], own[p])]
        metric == [p \in DOMAIN advs |-> Metric(policy, advs[p], located)]
        Left(t) == Unmasked(policy, {p \in DOMAIN advs : advs[p].type = t},
                            views, metric, inflight)
        Masked(kept) == [p \in DOMAIN advs |->
                            IF p \in kept THEN views[p]
                            ELSE [views[p] EXCEPT !.max = views[p].current]]
    IN {Masked(k[1] \cup k[2]) : k \in Left("standard") \X Left("gpu")}

-----------------------------------------------------------------------------
(* The consumer's own brain.                                               *)

(* withinBound: measured, else estimated from the distance, else out.      *)
withinBound(s, bound, located) ==
    IF s.rtt >= 0 THEN s.rtt <= bound
    ELSE located /\ s.distance >= 0 /\ s.distance <= bound

(* Mutant: own chunks are not added to what is free. *)
providerAdvertisementFreeOnly(sites, own) ==
    LET type == Size(sites[1]).type
        count == [i \in DOMAIN sites |-> Size(sites[i]).count]
    IN [site |-> sites[1], type |-> type, reserved |-> own,
        total |-> Total(LAMBDA i : count[i], DOMAIN sites)]

(* providerAdvertisement: sites are sized one by one and pooled; only      *)
(* those of the pooled type count, and the one with the most free chunks   *)
(* lends its attributes.                                                   *)
providerAdvertisement(sites, own) ==
    LET Sum(field) == Total(LAMBDA i : sites[i][field], DOMAIN sites)
        type == Size([cpu |-> Sum("cpu"), memory |-> Sum("memory"),
                      gpu |-> Sum("gpu")]).type
        count == [i \in DOMAIN sites |->
                    IF Size(sites[i]).type = type
                    THEN Size(sites[i]).count ELSE 0]
        lead == SelectInSeq(count, LAMBDA n :
                                       \A i \in DOMAIN count : count[i] <= n)
    IN [site |-> sites[lead], type |-> type, reserved |-> own,
        total |-> own + Total(LAMBDA i : count[i], DOMAIN sites)]

(* FromReservations, ownByProvider: chunks held, and providers where one   *)
(* is still being provisioned.                                             *)
Own == [p \in Candidates |-> bookings[p].settled + bookings[p].inFlight]
InFlight == {p \in Candidates : bookings[p].inFlight > 0}

(* heldOutsideBound *)
heldOutsideBound(kept) ==
    {p \in Candidates : offers[p].sites # <<>> /\ kept[p] = <<>> /\ Own[p] > 0}

(* nodeGroups: bound (-1: none) filters sites; providers held outside it   *)
(* or refused lately (`full`) are listed but cannot grow.                  *)
nodeGroups(policy, bound, full, located) ==
    LET kept == [p \in Candidates |->
                    IF bound < 0 THEN offers[p].sites
                    ELSE SelectSeq(offers[p].sites, LAMBDA s :
                                       withinBound(s, bound, located))]
        held == heldOutsideBound(kept)
        sites == [p \in Candidates |->
                    IF p \in held THEN offers[p].sites ELSE kept[p]]
        Listed == {p \in Candidates : sites[p] # <<>>}
        advs == [p \in Listed |->
                   LET a == providerAdvertisement(sites[p], Own[p])
                   IN IF p \in held \cup full
                      THEN [a EXCEPT !.total = a.reserved] ELSE a]
    IN BuildNodeGroups(policy, advs, Own, InFlight, located)

(* EffectiveBound: the bound of the request, if it has one.                *)
EffectiveBound(policyBound, requestBound) ==
    IF requestBound >= 0 THEN requestBound ELSE policyBound

(* NodeGroupsWithin, for a ConsumerPolicy with a strategy and a bound.     *)
NodeGroupsWithin(policy, policyBound, requestBound, full, located) ==
    nodeGroups(policy, EffectiveBound(policyBound, requestBound), full, located)

(* handleNodeGroupsList over advertisements that say what the offers say.  *)
handleNodeGroupsList(policy, located) ==
    LET Available == {p \in Candidates : offers[p].sites # <<>>}
        advs == [p \in Available |->
                   LET s == Size(offers[p].sites[1])
                       reserved == Own[p] + offers[p].others
                   IN [site |-> offers[p].sites[1], type |-> s.type,
                       reserved |-> reserved, total |-> reserved + s.count]]
    IN BuildNodeGroups(policy, advs, Own, InFlight, located)

(* The same list before a policy masks any of it. *)
Unranked == handleNodeGroupsList("ConsumerChoice", TRUE)

Growable(views) == {p \in DOMAIN views : HeadRoom(views[p]) > 0}
Policies == {"Price", "Eco", "Latency", "Random", "ConsumerChoice", "Standard"}

-----------------------------------------------------------------------------
(* UpsertOffer, DeleteOffer and expiry; the next advertisement; the other  *)
(* consumers' bookings.                                                    *)
Publish(p) ==
    /\ offers' \in {[offers EXCEPT ![p] = o] : o \in OfferSets \ {offers[p]}}
    /\ UNCHANGED bookings

(* CA grows a provider with head-room (ConsumerChoice masks nothing).      *)
Book(p) ==
    /\ Own[p] < MaxOwn
    /\ \E v \in Unranked : p \in Growable(v)
    /\ bookings' = [bookings EXCEPT ![p].inFlight = @ + 1]
    /\ UNCHANGED offers

(* A reservation becomes Peered, or fails. *)
Settle(p) ==
    /\ bookings[p].inFlight > 0
    /\ \/ bookings' = [bookings EXCEPT ![p].inFlight = @ - 1,
                                        ![p].settled = @ + 1]
       \/ bookings' = [bookings EXCEPT ![p].inFlight = @ - 1]
    /\ UNCHANGED offers

(* A Peered reservation is released. *)
Release(p) ==
    /\ bookings[p].settled > 0
    /\ bookings' = [bookings EXCEPT ![p].settled = @ - 1]
    /\ UNCHANGED offers

Next ==
    \E p \in Candidates :
        Publish(p) \/ Book(p) \/ Settle(p) \/ Release(p)

Spec == Init /\ [][Next]_vars

-----------------------------------------------------------------------------
TypeOK ==
    /\ offers \in [Candidates -> OfferSets]
    /\ bookings \in
          [Candidates -> [settled: 0 .. MaxOwn, inFlight: 0 .. MaxOwn]]

(* q spends no head-room and has nothing of ours on the way.               *)
Exhausted(q, room) == room[q] = 0 /\ q \notin InFlight

(* Under a ranking policy a provider can grow exactly when it has          *)
(* head-room and everything the policy prefers to it is full and settled;  *)
(* providers without a metric come last and together (applyMetricPreference*)
(* for Price, Eco and Standard).                                           *)
RanksTheBest ==
    \A policy \in {"Price", "Eco", "Standard"}, v \in Unranked :
        LET room == [p \in DOMAIN v |-> HeadRoom(v[p])]
            m == [p \in DOMAIN v |->
                    LET s == Size(offers[p].sites[1])
                        reserved == Own[p] + offers[p].others
                    IN Metric(policy,
                              [site |-> offers[p].sites[1], type |-> s.type,
                               reserved |-> reserved,
                               total |-> reserved + s.count], TRUE)]
            Preferred(q, p) ==
                /\ v[q].type = v[p].type /\ m[q] # None
                /\ \/ m[p] = None
                   \/ Less(m[q], m[p])
                   \/ ~Less(m[p], m[q]) /\ q < p
        IN \A w \in handleNodeGroupsList(policy, TRUE) :
             Growable(w) =
                {p \in DOMAIN v :
                    /\ room[p] > 0
                    /\ \A q \in DOMAIN v :
                          Preferred(q, p) => Exhausted(q, room)}

(* The latency shortlist: at most LatencyShortlistSize per chunk type when *)
(* a distance decides, never one behind a nearer provider with head-room   *)
(* that is left out, and nothing at all while the nearest that is not      *)
(* exhausted is still peering (applyLatencyTopN).                          *)
ShortlistsTheNearest ==
    \A v \in Unranked, w \in handleNodeGroupsList("Latency", TRUE) :
        LET room == [p \in DOMAIN v |-> HeadRoom(v[p])]
            d == [p \in DOMAIN v |-> offers[p].sites[1].distance]
            Nearer(q, p) == d[q] < d[p] \/ (d[q] = d[p] /\ q < p)
        IN \A t \in ChunkTypes :
             LET S == {p \in DOMAIN v : v[p].type = t}
                 D == {p \in S : d[p] >= 0}
                 G == Growable(w) \cap S
                 roomy == {p \in D : room[p] > 0}
             IN IF \E p \in D :
                      /\ ~Exhausted(p, room) /\ room[p] = 0
                      /\ \A q \in D : Nearer(q, p) => Exhausted(q, room)
                THEN G = {}
                ELSE IF roomy = {} THEN G = {p \in S : room[p] > 0}
                ELSE /\ G \subseteq D
                     /\ Cardinality(G) =
                          Smaller(LatencyShortlistSize, Cardinality(roomy))
                     /\ \A p \in G, q \in roomy : Nearer(q, p) => q \in G

(* A latency bound is a hard filter that never hides what the consumer     *)
(* holds: only a provider with a free chunk at a site inside the bound (of *)
(* the request, or else of the policy) can grow, and one that holds chunks *)
(* stays listed with them (EffectiveBound, withinBound, heldOutsideBound). *)
(* The same for a provider marked full.                                    *)
BoundIsHard ==
    \A b \in {<<-1, 1>>, <<0, -1>>, <<0, 1>>}, located \in BOOLEAN,
       full \in {{}, Candidates} :
        \A v \in NodeGroupsWithin("ConsumerChoice", b[1], b[2], full,
                                  located) :
            /\ \A p \in Candidates :
                 Own[p] > 0 /\ offers[p].sites # <<>> =>
                     p \in DOMAIN v /\ v[p].current = Own[p]
            /\ \A p \in Growable(v) :
                 /\ p \notin full
                 /\ \E i \in DOMAIN offers[p].sites :
                      LET s == offers[p].sites[i]
                          bound == IF b[2] = -1 THEN b[1] ELSE b[2]
                      IN /\ Size(s).count > 0
                         /\ \/ s.rtt \in 0 .. bound
                            \/ /\ s.rtt < 0 /\ located
                               /\ s.distance \in 0 .. bound

(* Every policy grows providers in its order and within the latency bound: *)
(* the three above, whatever is booked, full or still peering.             *)
PreferredGrows == RanksTheBest /\ ShortlistsTheNearest /\ BoundIsHard

(* The brain leaves the same providers growable as the Broker, for         *)
(* single-site providers, whatever other consumers hold: "every policy     *)
(* behaves exactly as it does on the Broker".  Standard is left out: it    *)
(* ranks by the free share, and only the Broker counts the chunks of other *)
(* consumers in it.                                                        *)
BrainAgrees ==
    (\A p \in Candidates : Len(offers[p].sites) <= 1) =>
        \A policy \in Policies \ {"Standard"}, located \in BOOLEAN :
            {Growable(v) : v \in nodeGroups(policy, -1, {}, located)}
                = {Growable(v) : v \in handleNodeGroupsList(policy, located)}
=============================================================================
