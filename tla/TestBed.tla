------------------------------ MODULE TestBed -------------------------------
(***************************************************************************)
(* The bed of a comparative experiment of federation-tests: run() loads a  *)
(* configuration, the Orchestrator sets up one Kind cluster for the        *)
(* central side, one per consumer and one per provider, deploys the        *)
(* components with retries and waits for them, the experiment runs, and    *)
(* Teardown takes the clusters down.  A command may fail, and os.Interrupt *)
(* may come at any moment.                                                 *)
(***************************************************************************)
EXTENDS Integers, FiniteSets

CONSTANTS
    Configs,            \* the configuration files
    deployMaxAttempts,  \* of retryDeploy
    MaxBedFaults        \* bound on the commands that fail on their own

VARIABLES
    config,      \* the AutoConfig
    keep,        \* --keep-clusters
    bed,         \* run() and what it calls: [pc, at, attempt]
    specs,       \* o.Specs: how many clusters Teardown knows of
    alive,       \* the clusters of which something exists
    stuck,       \* clusters whose deletion failed
    signalled,   \* the context is done: os.Interrupt
    bedFaults    \* commands that failed on their own so far

vars == <<config, keep, bed, specs, alive, stuck, signalled, bedFaults>>

At(pc) == [pc |-> pc, at |-> 0, attempt |-> 1]

Init ==
    /\ config \in Configs /\ keep \in BOOLEAN
    /\ bed = At("load")
    /\ specs = 0 /\ alive = {} /\ stuck = {}
    /\ signalled = FALSE /\ bedFaults = 0

-----------------------------------------------------------------------------
(* The configuration: sizes, the number of regions, the mode of a phase    *)
(* and how it is bounded, the pairs of consumer and provider that delays   *)
(* are set for and the providers with a delay of their own.                *)

(* applyTopologyDefaults *)
applyTopologyDefaults(c) ==
    [c EXCEPT !.consumers = IF @ <= 0 THEN 1 ELSE @,
              !.providers = IF @ <= 0 THEN 2 ELSE @]

(* applyExperimentDefaults; the other values it fills in are durations. *)
applyExperimentDefaults(c) ==
    [c EXCEPT !.mode = IF @ = "" THEN "observe" ELSE @,
              !.duration = IF @ = "" THEN "iterations" ELSE @]

(* applyGeneratedDefaults: a region per provider, and the full matrix of   *)
(* delays when no delay is configured.                                     *)
applyGeneratedDefaults(c) ==
    [c EXCEPT !.regions = IF @ = 0 THEN c.providers ELSE @,
              !.delays = IF @ = {} /\ c.tcDelays = {}
                         THEN (1 .. c.consumers) \X (1 .. c.providers) ELSE @]

applyDefaults(c) ==
    applyGeneratedDefaults(applyExperimentDefaults(applyTopologyDefaults(c)))

(* Validate *)
Validate(c) ==
    /\ c.consumers >= 1 /\ c.providers >= 2
    /\ c.regions \in {0, c.providers}
    /\ c.mode \in {"observe", "reserve"}
    /\ c.duration \in {"iterations", "time"}
    /\ c.duration = "time" => c.timer > 0
    /\ c.tcDelays \subseteq 1 .. c.providers
    /\ c.delays \subseteq (1 .. c.consumers) \X (1 .. c.providers)

(* The clusters: 0 is the central one, then the consumers, then the        *)
(* providers.                                                              *)
GenerateClusterSpecs(c) == 0 .. c.consumers + c.providers

(* cidr: the second and third octets of a cluster's pods; kind takes no    *)
(* octet above 255.                                                        *)
cidr(i) == <<241 + i \div 16, (i % 16) * 16>>

-----------------------------------------------------------------------------
Signal ==
    /\ ~ signalled /\ bed.pc \notin {"load", "ended"}
    /\ signalled' = TRUE
    /\ UNCHANGED <<config, keep, bed, specs, alive, stuck, bedFaults>>

(* A command, or a call, of the set-up fails: its context is done, or on   *)
(* its own.                                                                *)
CommandFails ==
    \/ signalled /\ UNCHANGED bedFaults
    \/ bedFaults < MaxBedFaults /\ bedFaults' = bedFaults + 1

(* Setup returns the error; the deferred Teardown follows. *)
SetupFails == CommandFails /\ bed' = At("teardown")

(* Setup goes on. *)
Done(pc) == bed' = At(pc) /\ UNCHANGED bedFaults

(* The next round of a loop over the clusters, or the next step. *)
DoneOne(last, pc) ==
    /\ bed' = IF bed.at = last THEN At(pc)
              ELSE [At(bed.pc) EXCEPT !.at = bed.at + 1]
    /\ UNCHANGED bedFaults

(* LoadAutoConfig: a configuration that is not valid ends the run before   *)
(* there is an Orchestrator.                                               *)
LoadAutoConfig ==
    /\ bed.pc = "load"
    /\ config' = applyDefaults(config)
    /\ bed' = At(IF Validate(config') THEN "prerequisites" ELSE "ended")
    /\ UNCHANGED <<keep, specs, alive, stuck, signalled, bedFaults>>

(* CheckPrerequisites and the temporary directories. *)
CheckPrerequisites ==
    /\ bed.pc = "prerequisites"
    /\ Done("images") \/ SetupFails
    /\ UNCHANGED <<config, keep, specs, alive, stuck, signalled>>

(* DockerBuild unless --skip-build, RetagForStandalone, DockerPullImages;  *)
(* then the specs are generated.                                           *)
PrepareImages ==
    /\ bed.pc = "images"
    /\ \/ /\ ~ signalled /\ Done("create")
          /\ specs' = Cardinality(GenerateClusterSpecs(config))
       \/ SetupFails /\ UNCHANGED specs
    /\ UNCHANGED <<config, keep, alive, stuck, signalled>>

(* KindCreateCluster of the next cluster.  A creation that fails, or is    *)
(* killed when the context is done, may leave containers behind.           *)
KindCreateCluster ==
    /\ bed.pc = "create"
    /\ \/ /\ ~ signalled /\ cidr(bed.at)[1] <= 255
          /\ alive' = alive \cup {bed.at}
          /\ DoneOne(specs - 1, "load images")
       \/ /\ cidr(bed.at)[1] > 255 /\ UNCHANGED <<alive, bedFaults>>
          /\ bed' = At("teardown")
       \/ SetupFails /\ alive' \in {alive, alive \cup {bed.at}}
    /\ UNCHANGED <<config, keep, specs, stuck, signalled>>

(* KindLoadImages into the next cluster. *)
KindLoadImages ==
    /\ bed.pc = "load images"
    /\ \/ ~ signalled /\ DoneOne(specs - 1, "central")
       \/ SetupFails
    /\ UNCHANGED <<config, keep, specs, alive, stuck, signalled>>

(* retryDeploy: up to deployMaxAttempts runs of a deploy script, unless    *)
(* the context is done during the pause.                                   *)
retryDeploy(pc, last, next) ==
    /\ bed.pc = pc
    /\ \/ ~ signalled /\ DoneOne(last, next)
       \/ /\ CommandFails
          /\ bed' = IF bed.attempt < deployMaxAttempts /\ ~ signalled
                    THEN [bed EXCEPT !.attempt = @ + 1] ELSE At("teardown")
    /\ UNCHANGED <<config, keep, specs, alive, stuck, signalled>>

(* deployCentral *)
deployCentral == retryDeploy("central", 0, "mocks")

(* deployMocks *)
deployMocks == retryDeploy("mocks", 0, "controllable")

(* deployControllableMockEco, deployControllableMockGeo,                   *)
(* registerGeoOverrides and the join bundles; none is retried here.        *)
PrepareMocks ==
    /\ bed.pc = "controllable"
    /\ (~ signalled /\ Done("consumers")) \/ SetupFails
    /\ UNCHANGED <<config, keep, specs, alive, stuck, signalled>>

(* deployConsumer, one consumer after the other *)
deployConsumer == retryDeploy("consumers", config.consumers - 1, "providers")

(* deployProvider *)
deployProvider == retryDeploy("providers", config.providers - 1, "capacity")

(* SetProviderCapacity of the next provider. *)
SetProviderCapacity ==
    /\ bed.pc = "capacity"
    /\ \/ ~ signalled /\ DoneOne(config.providers - 1, "identities")
       \/ SetupFails
    /\ UNCHANGED <<config, keep, specs, alive, stuck, signalled>>

(* resolveIdentities, whose commands have no context. *)
resolveIdentities ==
    /\ bed.pc = "identities"
    /\ Done("readiness") \/ (CommandFails /\ bed' = At("teardown"))
    /\ UNCHANGED <<config, keep, specs, alive, stuck, signalled>>

(* WaitForReadiness: tryBuildClients succeeds, the deadline passes or the  *)
(* context is done.                                                        *)
WaitForReadiness ==
    /\ bed.pc = "readiness"
    /\ \/ ~ signalled /\ Done("experiment")
       \/ bed' = At("teardown") /\ UNCHANGED bedFaults
    /\ UNCHANGED <<config, keep, specs, alive, stuck, signalled>>

(* runExperiment returns, with or without an error. *)
runExperiment ==
    /\ bed.pc = "experiment" /\ Done("teardown")
    /\ UNCHANGED <<config, keep, specs, alive, stuck, signalled>>

(* Mutant: Teardown uses the context of the run. *)
TeardownSignalled ==
    /\ bed.pc = "teardown"
    /\ IF keep \/ bed.at = specs
       THEN Done("ended") /\ UNCHANGED <<alive, stuck>>
       ELSE /\ bed' = [bed EXCEPT !.at = @ + 1]
            /\ alive' = IF signalled THEN alive ELSE alive \ {bed.at}
            /\ UNCHANGED <<stuck, bedFaults>>
    /\ UNCHANGED <<config, keep, specs, signalled>>

(* Teardown, on every path that had an Orchestrator: every cluster of the  *)
(* specs, created or not, under a context of its own; a deletion that      *)
(* fails is logged.  The configuration's cleanup is not consulted.         *)
Teardown ==
    /\ bed.pc = "teardown"
    /\ IF keep \/ bed.at = specs
       THEN Done("ended") /\ UNCHANGED <<alive, stuck>>
       ELSE /\ bed' = [bed EXCEPT !.at = @ + 1]
            /\ \/ alive' = alive \ {bed.at} /\ UNCHANGED <<stuck, bedFaults>>
               \/ /\ bedFaults < MaxBedFaults /\ bedFaults' = bedFaults + 1
                  /\ stuck' = stuck \cup {bed.at} /\ UNCHANGED alive
    /\ UNCHANGED <<config, keep, specs, signalled>>

Setup ==
    \/ CheckPrerequisites \/ PrepareImages \/ KindCreateCluster
    \/ KindLoadImages \/ deployCentral \/ deployMocks \/ PrepareMocks \/ deployConsumer
    \/ deployProvider \/ SetProviderCapacity \/ resolveIdentities
    \/ WaitForReadiness

run == LoadAutoConfig \/ Setup \/ runExperiment \/ Teardown

Next == run \/ Signal

Spec == Init /\ [][Next]_vars

(* Every command returns. *)
Fairness == WF_vars(run)

FairSpec == Spec /\ Fairness

-----------------------------------------------------------------------------
TypeOK ==
    /\ keep \in BOOLEAN /\ signalled \in BOOLEAN
    /\ specs \in Nat /\ bedFaults \in 0 .. MaxBedFaults
    /\ bed.at \in Nat /\ bed.attempt \in 1 .. deployMaxAttempts
    /\ alive \subseteq 0 .. specs - 1 /\ stuck \subseteq 0 .. specs - 1

(* A run ends, and leaves no cluster behind that it was not told to keep   *)
(* and that could be deleted, wherever the set-up or the experiment failed *)
(* or was interrupted, half-created clusters included (run, Teardown).     *)
EndsClean ==
    <>[](bed.pc = "ended" /\ (~ keep => alive \subseteq stuck))
=============================================================================
