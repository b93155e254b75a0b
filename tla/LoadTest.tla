------------------------------ MODULE LoadTest ------------------------------
(***************************************************************************)
(* The Broker's load test (federation-tests/scalability): a goroutine per  *)
(* simulated provider and consumer, the two warm-ups, the gate behind      *)
(* which the evaluations wait, the monitor, and the end of a run, which    *)
(* stops new requests first, lets the ones in flight finish for a bounded  *)
(* time and cancels the rest.  Requests go through the agents' own client, *)
(* with its retries; time passes in units in which that bound is counted,  *)
(* and no time passes while a goroutine can take a step.                   *)
(***************************************************************************)
EXTENDS Federation

CONSTANTS
    LoadProviders,       \* the simulated providers
    LoadConsumers,       \* the simulated consumers
    RequestTimeout,      \* of one attempt
    DefaultMaxRetries,   \* of the agent client
    DefaultMaxBackoff,   \* between two attempts
    DrainSlack           \* what the drain allows on top

ASSUME LoadAssumption ==
    /\ LoadProviders \cap LoadConsumers = {}
    /\ RequestTimeout \in Nat /\ DefaultMaxRetries \in Nat
    /\ DefaultMaxBackoff \in Nat /\ DrainSlack \in Nat \ {0}

VARIABLES
    clientMaxRetries,  \* the flag --client-max-retries
    harness,           \* where run is
    loaders,           \* per agent: [pc, age]; age of its request in flight
    warmups,           \* agents whose warm-up outcome was sent
    evalGate,          \* the gate is open
    genCtx, rootCtx,   \* the contexts: TRUE until they are done
    interrupted,       \* Ctrl+C or SIGTERM
    outcomes,          \* the outcomes in the collector
    waited,            \* how long waitWithTimeout has waited
    monitor            \* "idle", "sampling", "ended"

LoadVars == <<clientMaxRetries, harness, loaders, warmups, evalGate, genCtx,
          rootCtx, interrupted, outcomes, waited, monitor>>

Loaders == LoadProviders \cup LoadConsumers
HarnessPcs == {"providers", "consumers", "measure", "drain", "stop", "done"}
LoaderPcs == {"none", "new", "warm", "warming", "backoff", "loop", "calling",
              "evaluating", "ended"}

At(pc) == [pc |-> pc, age |-> 0]
InFlight(a) == loaders[a].pc \in {"warming", "calling", "evaluating"}

(* run up to the first warm-up: identities, the Broker's health, newMonitor*)
(* and the providers' goroutines.                                          *)
LoadInit ==
    /\ clientMaxRetries \in {0, 1}
    /\ harness = "providers"
    /\ loaders = [a \in Loaders |-> At(IF a \in LoadProviders THEN "new"
                                       ELSE "none")]
    /\ warmups = {} /\ evalGate = FALSE
    /\ genCtx = TRUE /\ rootCtx = TRUE /\ interrupted = FALSE
    /\ outcomes = {}
    /\ waited = 0
    /\ monitor \in {"idle", "ended"}

-----------------------------------------------------------------------------
(* A request through the agent client.                                     *)

(* Options.MaxRetries: zero means the default. *)
maxRetries ==
    IF clientMaxRetries <= 0 THEN DefaultMaxRetries ELSE clientMaxRetries

Longest == (maxRetries + 1) * RequestTimeout + maxRetries * DefaultMaxBackoff

(* What the client returns: a cancelled context at once, else an answer, a *)
(* refusal or, of the last attempt, a deadline.                            *)
Results == IF rootCtx THEN {"nil", "refused", "deadline"} ELSE {"canceled"}

classify(err) ==
    CASE err = "nil" -> "success"
      [] err = "canceled" -> "cancelled"
      [] err = "deadline" -> "timeout"
      [] OTHER -> "failure"

Become(a, pc) == loaders' = [loaders EXCEPT ![a] = At(pc)]

(* Collector.Add(recordFor(...)) *)
Add(err) == outcomes' = outcomes \cup {classify(err)}

-----------------------------------------------------------------------------
(* runProvider and runConsumer.                                            *)

(* When newAgentClient fails the outcome is sent and the goroutine ends.   *)
newAgentClient(a) ==
    /\ loaders[a].pc = "new"
    /\ \/ Become(a, "warm") /\ UNCHANGED warmups
       \/ Become(a, "ended") /\ warmups' = warmups \cup {a}
    /\ UNCHANGED <<clientMaxRetries, harness, evalGate, genCtx, rootCtx,
                   interrupted, outcomes, waited, monitor>>

(* retryUntilSuccess: the call runs under rootCtx, ... *)
WarmupCall(a) ==
    /\ loaders[a].pc = "warm"
    /\ Become(a, "warming")
    /\ UNCHANGED <<clientMaxRetries, harness, warmups, evalGate, genCtx,
                   rootCtx, interrupted, outcomes, waited, monitor>>

(* ... its success sends the outcome, ... *)
WarmupReturns(a, err) ==
    /\ loaders[a].pc = "warming"
    /\ Add(err)
    /\ IF err # "nil" THEN Become(a, "backoff") /\ UNCHANGED warmups
       ELSE /\ Become(a, IF genCtx THEN "loop" ELSE "ended")
            /\ warmups' = warmups \cup {a}
    /\ UNCHANGED <<clientMaxRetries, harness, evalGate, genCtx, rootCtx,
                   interrupted, waited, monitor>>

(* ... and after a failure the pause ends, or the warm-up's own timeout or *)
(* the end of genCtx gives up.                                             *)
WarmupBackoff(a) ==
    /\ loaders[a].pc = "backoff"
    /\ \/ Become(a, "warm") /\ UNCHANGED warmups
       \/ Become(a, "ended") /\ warmups' = warmups \cup {a}
    /\ UNCHANGED <<clientMaxRetries, harness, evalGate, genCtx, rootCtx,
                   interrupted, outcomes, waited, monitor>>

(* A tick of one of the loop's tickers, with genCtx looked at again:       *)
(* advertisements, heartbeats and instruction polls start with the loop, a *)
(* consumer's evaluations with the gate.                                   *)
Call(a) ==
    /\ loaders[a].pc = "loop" /\ genCtx
    /\ \/ Become(a, "calling")
       \/ a \in LoadConsumers /\ evalGate /\ Become(a, "evaluating")
    /\ UNCHANGED <<clientMaxRetries, harness, warmups, evalGate, genCtx,
                   rootCtx, interrupted, outcomes, waited, monitor>>

CallReturns(a, err) ==
    /\ loaders[a].pc \in {"calling", "evaluating"}
    /\ Add(err)
    /\ Become(a, "loop")
    /\ UNCHANGED <<clientMaxRetries, harness, warmups, evalGate, genCtx,
                   rootCtx, interrupted, waited, monitor>>

GeneratorEnds(a) ==
    /\ loaders[a].pc = "loop" /\ ~ genCtx
    /\ Become(a, "ended")
    /\ UNCHANGED <<clientMaxRetries, harness, warmups, evalGate, genCtx,
                   rootCtx, interrupted, outcomes, waited, monitor>>

(* MonitorRunner.Run: a sample is a command under rootCtx.                 *)
Sample ==
    /\ \/ monitor = "idle" /\ rootCtx /\ monitor' = "sampling"
       \/ monitor = "sampling" /\ monitor' = "idle"
       \/ monitor = "idle" /\ ~ rootCtx /\ monitor' = "ended"
    /\ UNCHANGED <<clientMaxRetries, harness, loaders, warmups, evalGate,
                   genCtx, rootCtx, interrupted, outcomes, waited>>

-----------------------------------------------------------------------------
(* run.                                                                    *)

(* signal.NotifyContext; genCtx is a child of rootCtx.                     *)
NotifyContext ==
    /\ ~ interrupted /\ harness # "done"
    /\ interrupted' = TRUE
    /\ rootCtx' = FALSE /\ genCtx' = FALSE
    /\ UNCHANGED <<clientMaxRetries, harness, loaders, warmups, evalGate,
                   outcomes, waited, monitor>>

(* collectWarmup of the providers, then the consumers' goroutines.         *)
ProvidersWarm ==
    /\ harness = "providers" /\ LoadProviders \subseteq warmups
    /\ harness' = "consumers"
    /\ loaders' = [a \in Loaders |-> IF a \in LoadConsumers THEN At("new")
                                     ELSE loaders[a]]
    /\ UNCHANGED <<clientMaxRetries, warmups, evalGate, genCtx, rootCtx,
                   interrupted, outcomes, waited, monitor>>

(* collectWarmup of the consumers; whoever gave up does not hold the gate. *)
collectWarmup ==
    /\ harness = "consumers" /\ LoadConsumers \subseteq warmups
    /\ harness' = "measure"
    /\ evalGate' = TRUE
    /\ UNCHANGED <<clientMaxRetries, loaders, warmups, genCtx, rootCtx,
                   interrupted, outcomes, waited, monitor>>

(* The duration has passed, or an interrupt: no new requests.              *)
stopGenerators ==
    /\ harness = "measure"
    /\ harness' = "drain"
    /\ genCtx' = FALSE
    /\ waited' = 0
    /\ UNCHANGED <<clientMaxRetries, loaders, warmups, evalGate, rootCtx,
                   interrupted, outcomes, monitor>>

(* Mutant: a retry count of zero is taken for no retries. *)
drainTimeoutLiteral ==
    (clientMaxRetries + 1) * RequestTimeout
        + clientMaxRetries * DefaultMaxBackoff + DrainSlack

drainTimeout ==
    LET retries ==
            IF clientMaxRetries <= 0 THEN DefaultMaxRetries
            ELSE clientMaxRetries
    IN (retries + 1) * RequestTimeout + retries * DefaultMaxBackoff
           + DrainSlack

(* waitWithTimeout: whichever comes first. *)
waitWithTimeout(finished, timeout) == finished \/ waited >= timeout

stop ==
    /\ harness = "drain"
    /\ waitWithTimeout(\A a \in Loaders : loaders[a].pc = "ended",
                       drainTimeout)
    /\ harness' = "stop"
    /\ rootCtx' = FALSE
    /\ waited' = 0
    /\ UNCHANGED <<clientMaxRetries, loaders, warmups, evalGate, genCtx,
                   interrupted, outcomes, monitor>>

(* collector.Snapshot and the outputs, after the monitor.                  *)
Snapshot ==
    /\ harness = "stop"
    /\ waitWithTimeout(monitor = "ended", DrainSlack)
    /\ harness' = "done"
    /\ UNCHANGED <<clientMaxRetries, loaders, warmups, evalGate, genCtx,
                   rootCtx, interrupted, outcomes, waited, monitor>>

-----------------------------------------------------------------------------
(* Nothing but a request in flight, or a run that waits for its duration,  *)
(* lets time pass; no request outlives its last attempt.                   *)
Tick ==
    /\ \E a \in Loaders : InFlight(a)
    /\ \A a \in Loaders :
           IF InFlight(a) THEN loaders[a].age < Longest /\ rootCtx
           ELSE genCtx \/ loaders[a].pc \in {"none", "ended"}
    /\ ~ rootCtx => monitor = "ended"
    /\ loaders' = [a \in Loaders |->
                      IF InFlight(a) THEN [loaders[a] EXCEPT !.age = @ + 1]
                      ELSE loaders[a]]
    /\ waited' = IF harness \in {"drain", "stop"} THEN waited + 1 ELSE 0
    /\ UNCHANGED <<clientMaxRetries, harness, warmups, evalGate, genCtx,
                   rootCtx, interrupted, outcomes, monitor>>

runLoader(a) ==
    \/ newAgentClient(a) \/ WarmupCall(a) \/ WarmupBackoff(a)
    \/ Call(a) \/ GeneratorEnds(a)
    \/ \E err \in Results : WarmupReturns(a, err) \/ CallReturns(a, err)

run ==
    ProvidersWarm \/ collectWarmup \/ stopGenerators \/ stop \/ Snapshot

LoadNext ==
    \/ \E a \in Loaders : runLoader(a)
    \/ run \/ Sample \/ NotifyContext \/ Tick

LoadSpec == LoadInit /\ [][LoadNext]_LoadVars

-----------------------------------------------------------------------------
LoadTypeOK ==
    /\ clientMaxRetries \in Nat
    /\ harness \in HarnessPcs
    /\ loaders \in [Loaders -> [pc: LoaderPcs, age: 0 .. Longest]]
    /\ warmups \subseteq Loaders
    /\ evalGate \in BOOLEAN /\ genCtx \in BOOLEAN
    /\ rootCtx \in BOOLEAN /\ interrupted \in BOOLEAN
    /\ outcomes \subseteq {"success", "failure", "timeout", "cancelled"}
    /\ waited \in Nat
    /\ monitor \in {"idle", "sampling", "ended"}

(* The records are complete when they are summed up: no goroutine is left  *)
(* that could still add one, the monitor has stopped writing its samples,  *)
(* and the end of a run that was not interrupted shows in no outcome: what *)
(* was in flight has had the client's every retry (drainTimeout, stop and  *)
(* Snapshot in run).  No evaluation is sent while a consumer still warms   *)
(* up (evalGate).                                                          *)
SummaryIsComplete ==
    /\ harness = "done" => /\ \A a \in Loaders : loaders[a].pc = "ended"
                           /\ monitor = "ended"
    /\ "cancelled" \in outcomes => interrupted
    /\ \A a \in LoadConsumers :
           loaders[a].pc = "evaluating" => LoadConsumers \subseteq warmups
=============================================================================
