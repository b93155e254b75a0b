# Federation autoscaler: TLA+ specifications

The federation autoscaler lends the spare capacity of *provider* clusters to
*consumer* clusters. A central **Broker** keeps the books; an agent in every
cluster polls it for instructions and carries them out with Liqo; in a consumer
cluster a gRPC server offers the borrowed nodes to the Cluster Autoscaler (CA).
This directory holds TLA+ models of these parts and of the experiments kept with
them, the TLC configurations that check the models, and proofs that TLAPS checks.
The reference for every definition is the Go code; the lines each one stands for
are in `PROJECT.json` under `map`.

## 1. The system and its models

| Part | Code (under `internal/` unless said otherwise) | Model |
|---|---|---|
| ClusterAdvertisement status: `TotalChunks`, `ReservedChunks`, `AvailableChunks`, `Available` | `broker/api/advertisement.go`, `controller/broker/clusteradvertisement_controller.go` | `Advertisement`, `ChunkLedger`; in time: `Publisher` |
| Reservation API: create and release | `broker/api/reservation.go` | `ChunkLedger` (write by write), `ReservationLifecycle` (one step each) |
| Reservation reconciler | `controller/broker/reservation_controller.go` | chunk accounting and finalizer in `ChunkLedger`; phases, instructions, shared credential in `ReservationLifecycle` |
| Instruction delivery, results, instruction reconcilers | `broker/api/instructions.go`, `controller/autoscaling/*instruction*.go` | `ReservationLifecycle` |
| Poll loop of both agents, readiness gate | `agent/poller`, `agent/health` | `ReservationLifecycle` (what a batch does), `Readiness` (the loop and the atomics) |
| Handlers GenerateKubeconfig, Cleanup, Peer, Unpeer | `agent/provider/instructions`, `agent/consumer/instructions` | `ReservationLifecycle` |
| Liqo: peering-user, kubeconfig, tunnel, ResourceSlice | external, as the handlers use it | `ReservationLifecycle` |
| ResourceRequest controller | `controller/autoscaling` | `ResourceRequests` |
| VirtualNodeState controller | `controller/autoscaling` | `VirtualNodes` |
| gRPC cloud provider | `grpcserver` | `CloudProvider`; CA is external |
| Placement, pricing, chunk sizing; the consumer's own brain | `broker/api`, `broker/chunk`, `agent/consumer/brain` | `Placement` |
| ConsumerChoice: ranking by a language model | `agent/consumer/localapi`, `agent/ollama` | `ConsumerChoice` |
| Latency prober | `agent/consumer/latency` | `Prober` |
| Broker client, heartbeat, registry, local API's bookings | `agent/client`, `agent/consumer/{heartbeat,localapi}`, `broker/api` | `AgentLink` |
| Advertisement publisher, snapshot, capacity caps, carbon cache | `agent/provider/{advertise,snapshot}`, `agent/eco` | `Publisher` |
| Config console | `agent/console` | `Console` |
| Network servers and how they stop | all three binaries | `Serving` |
| Start-up, leader election, exit and restart | `cmd/*`, `manager`, `agent/{consumer,provider}` | `Processes` |
| Comparative experiments | `federation-tests/comparative-*`, `federation-tests/testlib` | `Comparison`, `Replay`, `TestBed` |
| Load test of the Broker | `federation-tests/scalability` | `LoadTest` |

How they interact. A provider's agent publishes what its cluster can spare; the
Broker sizes it in chunks and flags a provider that falls silent. CA asks the gRPC
server for node groups, which come, through the agent's local API, from the Broker
or from the consumer's brain under a placement policy. To grow a group the agent
books a reservation: the Broker charges one chunk on the provider's
ClusterAdvertisement and creates a `Reservation`, which its reconciler walks
through Pending, GeneratingKubeconfig, KubeconfigReady and Peering. On the way it
queues a GenerateKubeconfig for the provider (one per consumer/provider pair,
shared by the pair's reservations) and a Peer for the consumer. A release, a
deadline, a failure, a lost provider or a delete ends it; the chunk is credited
back, the consumer cleans up, and with the pair's last active reservation the
peering-user is removed at the provider. A ResourceRequest is the other way to a
reservation: its controller books, protects the node and may move to a better
provider.

## 2. Modules

`AdmissionGate` is an abstract specification: a chunk is admitted only while fewer
are out than are offered. `Federation` declares the constants that most component
modules share (`Providers`, `Candidates`, `NoProvider`, `MaxMigrations`,
`MaxFaults`) with `FederationAssumption`. The `MC` modules put components together
for TLC, the modules named `...Proofs` hold theorems and proofs. A definition whose
comment begins with "Mutant" is not used by any specification: it is a plausible
mistake in the code, kept to show that a property notices it (`mutants` in
`PROJECT.json`). In the eleven component modules that are extended side by side, the
standard names carry the component's: `Request...`, `Choice...`, `Link...`, `Gate...`,
`Publisher...`, `Console...`, `Cloud...`, `Prober...`, `Comparison...`, `Replay...`,
`Load...`, as in `RequestInit`, `ChoiceNext`, `LinkSpec`, `GateVars`, `CloudTypeOK`.

Three conventions run through the modules. A step is what the code does between two
points at which another goroutine, process or the world can act: a write at the API
server, a remote call, the part of a handler that holds a lock. A write to the API
server carries the version that was read, and fails when the object has moved on.
What can go wrong (a lost reply, a failed call, a crash, a dropped event) is an
action of its own, counted by a `...Faults` variable up to a named bound.

### ChunkLedger

State: the advertisement record `adv`; per reservation the phase (coarsened to
Absent, Live, Unpeering, Terminal, Gone), finalizer, deletion mark, the
chunks-released annotation, `TerminatedAt`, and its Peer instruction; per HTTP
handler and for the reconciler's one worker a program counter and the
reservation it works on. `credits` and `lost` are history variables.

An action is one write at the API server. Every write of the Broker is a
read-modify-write under a resource version that is retried on conflict, so a
write that succeeds is atomic; a write that fails for good is a fault. The steps
of `handleReservationCreate` are `CreateBegin`, `ReserveChunks`,
`CreateReservation` (with `CreateFails`, `Rollback`); those of
`handleReservationRelease` are `ReleaseBegin`, `ReleaseAdjust`,
`MarkChunksReleased`; a reconciler pass is `HandleTerminal` or `HandleDeletion`,
then `ReleaseChunks`, `StampChunksReleased`, `RemoveFinalizer`. `Terminate`,
`IssuePeer` and `PeerSucceeds` are the phase changes that `ReservationLifecycle`
models in detail, each as one step. `CutShort` ends a handler whose request context
is cancelled, or whose write fails; `Crash` ends all goroutines; `PassFails` ends a
pass. A reservation has one chunk, the only count the create handler accepts.

### ReservationLifecycle

State: `Status.Phase`, deletion, `TerminatedAt` and expiry of each reservation; the
pair's two ProviderInstructions and each reservation's three
ReservationInstructions (missing, armed, enforced; with `LastChunk` and whether an
owner reference ties them to the reservation); the Broker's staging Secret; the
provider's availability and peering-user; the consumer's Secrets, nodes and tunnel;
and the batch each agent has polled but not yet dispatched. A kubeconfig is `none`,
`live` (of the current peering-user) or `dead` (of a removed one), wherever a copy
of it is: staging Secret, consumer Secret, an instruction on its way.

There is one action per phase handler of the reconciler, per handler of an agent, per
result handler and bookkeeping path. A pass of the reconciler, whose worker is
single, is one step, or a fault cuts it short after some of its writes
(`PassCutShort`). An agent's dispatch is one step with its post. Its parameter `n` is
the number of steps of the handler that worked (for a Peer: Secret, `liqoctl peer`,
ResourceSlice, VirtualNodeState), so that a handler may fail half-way; `liqoctl
generate peering-user` may fail after it created the user. A posted result is
applied; applied except for the Enforced mark; applied except for the reservation's
phase, whose write is best-effort; or lost. The history variable `missed` records
that a failure was marked Enforced and its phase not written. The Broker lists
instructions from an unordered cache, so a batch is dispatched in any order.

### In the consumer cluster

* `ResourceRequests`: one ResourceRequest (`obj`), the copy in the informer's cache
  (`cached`, `synced`), the worker of the reconciler (`work`), the reservations it
  has made at the Broker and the borrowed node. `Reconcile` goes call by call:
  finalizer, first placement (`pickProviderAndSize` over whatever the agent's list says),
  post, status write, holding and protecting the node, re-evaluation,
  break-before-make migration, release on deletion. Beside it act the user who
  deletes, CA that scales down, the Broker that ends or prunes a reservation, and
  faults: a failed release, a lost reply of a post, a crash.
* `CloudProvider`: one node group as CA drives it. `CALoop` is a scan: refresh,
  target size, scale-up by `NodeGroupIncreaseSize` one reservation at a time with
  partial success, or `NodeGroupDeleteNodes`. The node-group cache, the reservations,
  their nodes and VirtualNodeStates are state; nodes appear late and may flap.
* `VirtualNodes`: the projection of a v1.Node on its VirtualNodeState: lagging
  caches, a queue, a conflicting status write, events that are dropped, the requeue.
* `ConsumerChoice`: `GET /local/nodegroups` by concurrent handlers under `aiMutex`,
  the background selection with its prompt, the 60 s cache, an operator who changes
  the prompt, a Broker that learns the policy later. A view is the set of providers
  it leaves growable.
* `Prober`: rounds of concurrent callers that read the cache under the lock, probe
  without it and store; the result that is reported. Samples age by `TimePasses`.
* `Placement`: `BuildNodeGroups` of the Broker and `nodeGroups` of the brain as
  operators over offers (sites with resources, prices, carbon, distance, round trip)
  and bookings; chunk sizing with its integer divisions; every policy's preference
  with its exhaustion and tie rules. The state machine only changes the inputs.

### Between the agents and the Broker

* `AgentLink`: two callers of `Client.do` (the heartbeat and a booking of the local
  API), each with attempt, wait, back-off and the categories of errors; requests the
  client gave up on that arrive late; the in-memory registry that a restart empties
  and the 412 that follows; `handleReservationCreate` as the front end sees it
  (idempotent by key); the brain's full mark.
* `Readiness`: the poll loop and `Ready`, one atomic load or store per step.
* `Publisher`: the publish cycle and the Broker's staleness check in units of 10 s:
  snapshot of the nodes, capacity caps, carbon cache, lost posts.
* `Console`: two browser requests and an administrator on one object, for each of the
  objects the console writes; reads and conflicting writes.
* `Serving`: the serving and the draining goroutine and their channel, for the three
  shapes the servers have.
* `Processes`: the start-up of the agent in both roles, of the Broker and of the gRPC
  server as a list of lines (a check of flags, something built that may fail, a
  goroutine started, signals caught), leader election, a server or lease that fails,
  SIGTERM, the restart policy and the liveness probe.

### The experiments

* `Comparison`: `runExperiment` of comparative-eco and comparative-latency with the
  consumers' goroutines in reserve and in observe mode, in both phases; the Broker
  lists, lapses and credits providers late; calls fail; the run is interrupted.
* `Replay`: the goroutine that redraws carbon values or netem delays, and the reset
  between the phases.
* `TestBed`: configuration, set-up with retries, readiness, experiment, teardown.
* `LoadTest`: the simulated agents, two warm-ups, the evaluation gate, the monitor,
  the bounded drain and the summary.

### Composition

`ChunkLedger` and `ReservationLifecycle` meet in the phase: the former has each
phase change that the latter breaks down as one step. `CloudProvider` takes the
VirtualNodeState's projection as one step that `VirtualNodes` breaks down, and
`Publisher` makes the reports that are one step of `ChunkLedger`. The specifications
that a run puts side by side (`MCConsumer`, `MCServices`, `MCExperiments`) share no
variable. A variable `part`, chosen at the start and never changed, says which of
them moves; the others stay as they start. A behaviour of such a run is therefore a
behaviour of one component alone, so that a run checks each component exactly as a
run of its own would, and interleavings of independent steps, which tell nothing,
are not generated. `NextXX` is the step of the component that `part` names. Fairness
is that of the component. For the experiments this is proved: the specification that
the run explores implies that of each of the three (`EachExperiment`).

## 3. Model checking

Every run has `CHECK_DEADLOCK FALSE`: the system may stop, since no request,
operator action, deadline or fault is ever forced.

| Run | Instance | Shows |
|---|---|---|
| `ledger_contention` | 2 reservations, 2 handlers, capacity 1 or 2, no faults; symmetric | the free count is covered by the counter; the ledger implements `AdmissionGate` |
| `ledger_faults` | 1 reservation, 2 handlers, 2 faults, fair | the annotation stands for a credit; nothing leaks beyond the named losses; a dead or deleted reservation is credited |
| `ledger_double_release` | 1 reservation, no faults | **violated**: a chunk can be credited twice |
| `lifecycle_siblings` | 2 reservations of a pair, no faults; symmetric | the staged credential is there, is usable, and its user is never forgotten |
| `lifecycle_liveness` | 1 reservation that may expire and be deleted, 1 fault, fair | phases only advance, but for a Peer result and a late failure; nobody waits for good; deadlines and releases end the reservation; the credential is retired |
| `lifecycle_waiter_served` | 2 reservations, 1 fault, fair | **violated**: a sibling waits for good |
| `lifecycle_missed_is_retried` | 1 reservation that expires, 1 fault, fair | **violated**: a failure whose phase write was lost is not retried |
| `lifecycle_sibling_keeps_peering` | 2 reservations, no faults | **violated**: a sibling loses its tunnel |
| `lifecycle_deleted_leaves_no_node` | 1 reservation, deletable, fair | **violated**: a node outlives its reservation |
| `consumer` | `ResourceRequests`, `ConsumerChoice`; fair; 212 thousand states | the properties of the table below |
| `services` | eleven components; fair; 209 thousand states | the properties of the table below |
| `experiments` | `Comparison`, `Replay`, `LoadTest`; symmetric in the consumers; 1.2 million states | the properties of the table below |

| Component | Property | What it says |
|---|---|---|
| `ResourceRequests` | `OneLive` | a request never holds two live reservations |
| | `ReleasedOnDelete` | the finalizer of a request that records a reservation goes only when nothing is live |
| | `NoFlap` | a migration starts only `ReEvalInterval` after the last transition, though it is decided on a cached copy |
| | `RequestSettles` | a deleted request goes; a held node does not stay exposed to scale-down |
| `ConsumerChoice` | `ViewIsTheChoice` | a view follows a ranking made for the prompt its request read, and grows one provider at most |
| | `ChoiceIsServed` | with the prompt and the head-room settled, a provider is offered again and again |
| `CloudProvider` | `NoOvershoot` | CA never holds more chunks than its pods ever called for |
| | `DrainsWhenIdle` | capacity nobody needs is given back |
| `VirtualNodes` | `ProjectionCatchesUp` | a node that has settled shows, whatever events were dropped |
| `Placement` | `PreferredGrows` | each policy grows the best by a reference definition of its metric, shortlists the nearest and keeps the latency bound |
| | `BrainAgrees` | the brain and the Broker leave the same providers growable (all policies but Standard) |
| `Prober` | `ChosenAnswered` | the chosen provider answered recently, and no slower than another |
| `AgentLink` | `OneBookingPerCall` | one call books one reservation at most, through retries, late arrivals and restarts |
| | `RefusedHoldsNothing` | a provider is marked full only for a call that holds nothing |
| | `PolicyReachesBroker` | a policy that stays reaches the Broker and stays there |
| `Readiness` | `BusyIsReady` | a reading that begins inside a handler within its time is green |
| | `WedgedIsSeen` | a handler stuck over its time, with nothing else happening, is seen |
| `Publisher` | `AvailabilityFollowsReports` | silence is flagged in time, a single missed report is not |
| | `OfferIsBacked` | the chunks on offer fit the ready nodes; a stale carbon value is only sent when its service failed |
| `Console` | `OtherKeysSurvive` | no request undoes an edit of what the console does not own |
| `Serving` | `StopsWhenTold` | a server told to stop stops and leaves no goroutine behind |
| `Processes` | `ServesOrEnds` | once failures are over, a process with valid flags runs all it is there for, or has ended if told to |
| `TestBed` | `EndsClean` | a run ends and leaves no cluster it could delete and was not told to keep |
| `Comparison` | `PhasesArePaired` | nothing that phase A left behind takes a chunk of the baseline in phase B |
| | `BooksAgree` | what the harness says a consumer holds is what the Broker holds |
| `Replay` | `ReplayIsExact` | phase B sees the sequence phase A saw, and nothing of phase A |
| `LoadTest` | `SummaryIsComplete` | nobody adds a record after the summary, and its end shows in no outcome |

`services` and `experiments` check the components' type invariants as one `TypeOK`;
that of `experiments`, and those of `ChunkLedger`, `ReservationLifecycle` and
`ResourceRequests`, are proved.

### Bounds

* `Resv`: two reservations are what contention for the last chunk, and sharing of a
  credential, take; a third adds a second sibling, which the ref-counts treat alike.
  `Handlers`: two, so that a create races a create, a release or itself (the same
  `X-Reservation-Id` sent twice).
* `Counts = {1, 2}`: a report may shrink the provider below what is reserved, and
  leave room for one or for both.
* `MaxFaults`: each fault is a lost or half-applied result, a failed call, a restart,
  a cut-short pass or handler, or a crash. One loses a message, two lose its retry.
* `Expiring`, `Deletable`: the reservations whose deadline may pass, and those an
  operator deletes or `TerminalTTL` collects. They cut the state space, so each run
  switches on what its properties are about.
* `MaxMigrations = 1`, `Providers` = 2: one migration from a provider to the other and
  a request at its limit. `SmallGroupViews`: a provider that is not listed, full, has
  room at either metric, chunks too small, or no metric.
* `Candidates` = 3 with the six `OfferSets`: the least that has a best, a tie and an
  outsider; the offers lie on both sides of every integer division of the sizing.
* `MaxResv`, `Capacity`, `MaxDemand` = 2: the least at which a scale-up can be half
  done. `MaxRetries = 1`, `MaxCalls = 1`: an attempt, its retry and a late copy of
  either. `MaxBatch = 2`: the gap between two handlers of a batch.
* `Interval = 3`, `StaleAfter = 9`, in units of 10 s, are the deployment's own
  numbers; `MaxCycle = 2` is a cycle of up to 20 s. `CacheTTL`, `CarbonTTL`, `MaxProbe`
  are scaled down: what matters is which side of them an age is.
* `deployMaxAttempts = 3` is the code's; `MaxBedFaults = 3` exhausts it.
* Experiments: two consumers that race for a group of one chunk, a second iteration
  (so that keep, switch and release happen), one race retry, two redraws of two
  places, one simulated provider, one retry of the client.

### Fairness

Only what the code itself drives is fair; nothing is assumed of requests, operators,
deadlines, `TerminalTTL`, faults, the provider's return, pods, prompts, the Broker's
restarts or the times calls take.

* `ChunkLedger`: a handler that has started runs on; the worker finishes its pass; the
  reconciler comes back to a terminal or deleted reservation (`handleTerminal` always
  requeues, errors are retried with back-off, a deletion is an event).
* `ReservationLifecycle`: the reconciler comes back to an object it has work for
  (events, `gkResync`, requeues); the instruction reconcilers wake up at `EnforcedTTL`
  and `ExpiresAt`; the agents keep polling and work through their batch, with a result
  that is applied once the faults are used up. `TimelySpec`, of
  `lifecycle_missed_is_retried` only, lets every deadline pass as well, since the retry
  it asks for is tied to a deadline.
* `ResourceRequests`, `VirtualNodes`: the work queue hands the worker what is queued
  (events, `RequeueAfter`, back-off), a pass goes on, watches deliver in the end.
* `CloudProvider`: CA scans periodically; peering, Liqo and the projection go on.
* `ConsumerChoice`: handlers run and are asked again by the scans, a selection returns
  (its context has a timeout), a cache entry expires, heartbeats carry the policy.
* `AgentLink`: the heartbeat's ticker, and the retry loop that goes on by itself.
* `Readiness`: only the kubelet's probe; the poll loop may be stuck.
* `Serving`, `Processes`: goroutines run on; the kubelet restarts and probes; a free
  lease is won.
* `TestBed`: `run` goes on. That every command it executes returns is assumed of the
  tools; its waits have deadlines of their own.

### Where the code and its comments disagree

Five disagreements are runs whose property is violated:

1. `NoDoubleRelease`. The DELETE handler credits without looking at the annotation and
   stamps it in a later write; a terminal pass in between credits again.
   `common_types.go` says double-release is impossible. The counter is clamped at
   zero, so it is another reservation's charge that disappears.
2. `WaiterServed`. A failed GenerateKubeconfig fails the reservation it names; a
   sibling that waits for the same instruction stays in GeneratingKubeconfig until its
   deadline.
3. `MissedIsRetried`. `applyProviderResult` marks a failed GenerateKubeconfig Enforced
   and then writes Failed. If that write is lost, the comment counts on the
   instruction-expiry tick, but an enforced instruction is only collected; the
   reservation waits for its own expiry. The same holds of a failed Peer.
4. `SiblingKeepsPeering`. `LastChunk` is computed when the Unpeer is queued. A sibling
   that peers before the consumer executes it is left with a node and no tunnel.
5. `DeletedLeavesNoNode`. After a hard delete the consumer may hold the Peer and the
   Cleanup of the reservation in one batch and execute the Cleanup first.

The hypotheses of the properties that hold mark further limits of the code:

* `WaitersAnswered` excepts a `missed` failure, for the reason of 3. `PhasesAdvance`
  excepts the Peer result, which makes a reservation Peered in any phase, a terminal
  one included. `CredentialAccounted` is about fault-free behaviours: a provider
  Cleanup delivered again after its result was lost removes the peering-user of a newer
  reservation. Its second half excludes expiries: when the kubeconfig of a minted user
  is lost, the reservation fails with no Secret, and `handleTerminal` takes the missing
  Secret to mean that there is no user. `SecretRetired` excepts a Reservation that is
  deleted or collected: a kubeconfig delivered after that stays in its Secret.
  `NoSilentLeak` counts `lost` charges: a create that ends between the charge and the
  object, or a delete before the finalizer, leaves the chunk reserved.
* `ReleasedOnDelete` is about requests that record a reservation. When the post took
  effect and its reply or the status write was lost, a deletion releases nothing,
  although `docs/design.md:269` says that the finalizer guarantees the release. A
  migration whose post fails leaves the phase Failed under the new id, and the request
  is then held as Reserved for a reservation that does not exist.
* `BrainAgrees` leaves out Standard, which ranks by the free share: only the Broker
  counts the chunks of other consumers in it. The brain's comment says that every
  policy behaves exactly as on the Broker.
* `WedgedIsSeen` asks that no contact is recorded. Heartbeats and publishes record one
  too (`consumer.go:280`, `provider.go:206`), so that a stuck handler can go unnoticed;
  the comment on `DefaultMaxHandlerInFlight` calls the bound the only signal.
  `BusyIsReady` excepts a handler that returns under the reading, which loads its three
  atomics one by one.
* `AvailabilityFollowsReports` says "one missed report": after two a slow cycle is
  already flagged, `docs/design.md:119` speaks of three.
* `ChosenAnswered` bounds the age of a sample by the TTL plus two rounds. A caller that
  hangs up caches infinity for the providers it had not finished with.
* `OtherKeysSurvive` is about parts the console does not own. Of its own part, a POST
  with one of the two price or capacity fields drops the other's line; a release reads
  and deletes without a precondition.
* `ServesOrEnds` does not ask for the agent's loopback API and console: their failure
  is logged, and nothing restarts them. An agent exits without waiting for its servers
  to drain. `broker/api/runnable.go:149-151` calls duplicate-write races impossible by
  construction; leader election does not exclude a paused old leader, and handlers of
  one pod race anyway, which is why every write carries a version.
* `BooksAgree` holds its last part for runs without failed calls: a `ReserveAndWait`
  that fails or is interrupted once the booking exists strands it. `PhasesArePaired`
  holds because phase B waits for the baseline's capacity. A consumer's row is missing
  when a back-off is interrupted, which the comment "exactly one row" does not say.
* `EndsClean` is about `--keep-clusters`: the `cleanup` key, which
  `federation-tests/guide.md:345` calls the same, is never consulted by `Teardown`.
* `SummaryIsComplete` says that no evaluation is sent while a consumer still warms up;
  one that gave up no longer does. `--warmup-timeout` bounds the wait, and not the call,
  which runs under the root context.

## 4. Proofs

The theorems hold for any sets of reservations, handlers, providers, prompts, tabs,
callers and simulated agents (finite where the code counts them), any number of
retries, migrations, edits, iterations and faults, under the named assumptions of the
constants. These say that sets the model counts are finite, that bounds are natural
numbers, and little else: `LedgerAssumption`, `LifecycleAssumption`,
`FederationAssumption`, `CloudAssumption`, `ComparisonAssumption`; `ProberAssumption`
(the cache keeps a sample for some time), `ReplayAssumption` (there is a place to
change), `LoadAssumption` (the drain has some slack, and an agent of the load test is
a provider or a consumer). The publisher's theorems have the hypothesis `Deployment`:
two intervals and a cycle fit in the threshold, and sizes are natural numbers.

| Module | Theorem | Statement |
|---|---|---|
| `ChunkLedgerProofs` | `TypeCorrect` | `Spec => []TypeOK` |
| | `FreeCovered` | `Spec => []FreeIsCovered` |
| | `LedgerImplementsGate` | `Spec => ImplementsGate` |
| | `MarkedCredited` | `Spec => []MarkedMeansCredited` |
| | `NoLeak` | `Spec => []NoSilentLeak` |
| `ReservationLifecycleProofs` | `TypeCorrect` | `Spec => []TypeOK` |
| | `CredentialStaysHeld` | `Spec => []CredentialHeld` |
| | `CredentialSound` | `Spec => []CredentialAccounted` |
| | `PhasesOnlyAdvance` | `Spec => PhasesAdvance` |
| `ResourceRequestsProofs` | `RequestTypeCorrect` | `RequestSpec => []RequestTypeOK` |
| | `NeverTwoLive` | `RequestSpec => []OneLive` |
| | `DeletionReleases` | `RequestSpec => []ReleasedOnDelete` |
| | `MigrationsRest` | `RequestSpec => NoFlap` |
| `AgentProofs` | `BooksOnce` | `LinkSpec => []OneBookingPerCall` |
| | `FullMeansRefused` | `LinkSpec => RefusedHoldsNothing` |
| | `BusyStaysReady` | `GateSpec => []BusyIsReady` |
| | `EditsSurvive` | `ConsoleSpec => OtherKeysSurvive` |
| | `SilenceIsFlagged` | `Deployment` gives `PublisherSpec => []AvailabilityFollowsReports` |
| | `OffersAreBacked` | `Deployment` gives `PublisherSpec => []OfferIsBacked` |
| `ConsumerChoiceProofs` | `ChoiceIsTheConsumers` | `ChoiceSpec => []ViewIsTheChoice` |
| `ScalingProofs` | `NeverOvershoots` | `CloudSpec => []NoOvershoot` |
| | `NearestAnswered` | `ProberSpec => []ChosenAnswered` |
| `ComparisonProofs` | `PairedPhases` | `ComparisonSpec => []PhasesArePaired` |
| | `BooksStayInStep` | `ComparisonSpec => []BooksAgree` |
| `ExperimentProofs` | `PhasesReplay` | `ReplaySpec => []ReplayIsExact` |
| | `SummaryComplete` | `LoadSpec => []SummaryIsComplete` |
| | `ExperimentTypes` | `Spec => []TypeOK` (of `MCExperiments`) |

The arguments:

* **Ledger types** need `Assigned`: a busy handler or worker names a reservation, and
  one that releases or finalizes names a created one. Otherwise the program counters
  say nothing about the functions they index.
* **Admission**: every step makes one of five updates to the status (`AdvStep`) and
  charges only with a free chunk. `FreeIsCovered` is inductive with the types; with it
  a charge is an `Admit` of the gate, a credit a `Return` or a stutter.
* **Credits**: `MarkedMeansCredited` is strengthened to `Credit`, which follows the
  credit through the program counters: a handler about to mark, and a worker about to
  stamp or to remove the finalizer, have credited.
* **No leak**: each step changes the counter and the cardinality of what accounts for
  it together; `Credit` is what shows that an object that goes by way of the finalizer
  is not among the uncredited ones.
* **Credential held**: inductive with the types; the case that matters is
  `HandleTerminal`, where `OtherActive` is false exactly if no other reservation is in
  KubeconfigReady or Peering.
* **Credential accounted**: `Sound` relates the staging Secret, the peering-user and
  the provider Cleanup. A live Secret means that the user is there and no Cleanup is
  armed; an armed Cleanup has a user to remove; what the provider holds in its batch is
  still armed at the Broker; a user is known by its Secret or by the Cleanup. None of
  these is inductive alone.
* **Requests**: the worker is the only writer of the status, and a write lands only
  when the cache was up to date as the pass began. `Behind` says that a copy is at most
  one write of an id behind the object, `Branch` what each program counter knows of the
  copy, `Landing` what a write that will land changes, `Record` that the status names
  what is live. Together they are inductive; one-live, release and no-flap follow.
* **Bookings**: `LinkInv` says that every booking, in the client, on its way or made,
  carries the key minted for its call before the retry loop.
* **Readiness**: `Bracket` gives the three atomics by where the poll loop is, `Reading`
  what a reading has found by where it is. The contact is stored before the count and
  the stretch are touched, so that a reading which found it stale began inside the
  handler it goes on to see.
* **Console**: marks only grow, and a request whose version is current holds a copy of
  the object as it is.
* **ConsumerChoice**: `Matched`: a cached ranking answers the prompt it is cached under.
* **Publisher**: two clocks, the publisher's ticker (`ByTicker`) and the requeue of the
  Broker's check (`ByCheck`), each bound the age of the last report.

* **Scale-up**: `Planned` gives what a scan of CA relies on at each of its calls: the
  cache of the scan before has expired when the target size is asked for, no reservation
  is made between that answer and the increase but by the scan itself, and what it still
  plans to add, with what is reserved, stays within the peak. A reservation is counted
  from the moment it is made, whether or not its node has appeared.
* **Prober**: `Young` bounds the age of a cached sample by the TTL and the time the
  round that measured it took; `InTime` says that what a round was served from the cache
  ages with the round, and no round outlasts `MaxProbe`. That the chosen provider is no
  slower than another is the definition of the pick, whose minimum exists because the
  providers are finite.
* **Comparison**: `CleanBaseline` (the baseline is read while nothing is reserved) and
  `WaitForFederationCapacity` pair the phases: the sum of what the listed groups hold is
  zero, so each of them holds nothing. For the books, `OneEach` makes an id name one
  reservation (`NextSeqFresh`: a sequence number that is still free is found by the
  pigeonhole principle), `AtWork` and `Handling` tell which calls a consumer can have
  under way in which part of the run, and `Holding`, `RowsTell`, `NoStray` are
  `BooksAgree` part by part.
* **Replay**: `OneAtWork` (only the goroutine of the current phase is alive, since the
  run waits for the cancelled one before the reset), `BeginsAsApplied` (a phase of
  comparative-latency begins on the configured delays) and `FollowsRedraws` (from then
  on, or from the first redraw of comparative-eco, a place has what the goroutine drew
  last, once the redraw has reached it).
* **Load test**: `DrainsAll` is the race of two clocks. A request in flight is at least
  as old as the drain has waited, and `DrainOutlasts` shows that the drain's timeout
  exceeds the longest a request can take with all its retries, for every retry count,
  zero (which the client reads as its default) included; so nothing is in flight when
  the root context is cancelled, and `RootOutlives` gives the outcomes.
* **Composition**: each step of `MCExperiments` is a step of one experiment and leaves
  the variables of the others alone, so that its specification implies all three.

Only model-checked: every liveness property, since temporal reasoning under fairness is
outside what the prover does; the placement operators (`PreferredGrows`,
`BrainAgrees`), whose folds and sorts over the providers and sites would need induction
over data; and the `TypeOK` of `services`, eleven type invariants of which those of
`VirtualNodes`, `Placement`, `Serving`, `Processes` and `TestBed` have no theorem.

## 5. Not modelled

* The specification part of ClusterAdvertisements (topology, locations, labels) beyond
  what placement reads, validation, and the GET and list handlers: they write nothing.
* The sibling counts of `ReservationLifecycle` are read from the API server; the lag of
  the Broker's cache behind it is not modelled.
* Reconcile instructions: the agents have handlers for them, which only read, and
  nothing in the Broker issues one (`docs/design.md:604`).
* Floating point: metrics of the policies are exact fractions. The haversine formula,
  the parsing of carbon answers and prices, and the UDP exchange of a probe are values
  chosen from small sets.
* The token bucket's clock, logging, panic recovery and the identity taken from the
  client certificate: a request is turned away or reaches its handler.
* Node templates, dashboards and the GET side of the console: presentation without
  state of their own. The chosen provider that heartbeats report for the dashboard is
  written in two steps that a reader can see apart; nothing decides on it.
* The geo client, the mock servers, the model's prompt text, deployment manifests, and
  the generated gRPC and deepcopy code.
* A local catalog of the brain: the agent refuses `brain=local` at start-up today, so
  that the brain's operators are checked on given offers.
* In the experiments: the federation sampler, probe payloads, the writers and summaries
  of results (formatting), the older configuration format, the arguments of commands,
  a booking that the Broker serves after its caller gave up (`AgentLink` has that
  race), the ConsumerChoice suite (one sequential pass that grades a model's answers)
  and the end-to-end tests, which are scripts against real clusters.
