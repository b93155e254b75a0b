------------------------------- MODULE Replay -------------------------------
(***************************************************************************)
(* The environment of a comparative experiment of federation-tests: the    *)
(* netem delays of comparative-latency, one tc per container, and the      *)
(* carbon intensities of comparative-eco, one mock-eco entry per region.   *)
(* A goroutine redraws them on a ticker during each phase; both phases     *)
(* seed it alike, so that phase B replays what phase A saw.  The phases    *)
(* themselves are in module Comparison.                                    *)
(***************************************************************************)
EXTENDS Federation

CONSTANTS
    Places,     \* how many containers or regions there are, in their order
    Redraws     \* bound on the redraws of a phase

ASSUME ReplayAssumption == Places \in Nat \ {0} /\ Redraws \in Nat

VARIABLES
    suite,      \* "eco" or "latency"
    stage,      \* Experiment: [pc, phase, at]; at is a loop's target
    env,        \* [1 .. Places -> what is in force there]
    refresher,  \* [phase -> its goroutine: st, drawn, at]
    missed,     \* targets whose last update failed
    halted,     \* the context of the run is done: os.Interrupt
    envFaults   \* updates that failed so far

ReplayVars == <<suite, stage, env, refresher, missed, halted, envFaults>>

Phases == {"A", "B"}
All == 1 .. Places
Bare == 0             \* no delay installed; mock-eco's own value
Draw(n) == n + 1      \* of the n-th redraw; Draw(0): the configured delays
Off == [st |-> "off", drawn |-> 0, at |-> 0]

ReplayInit ==
    /\ suite \in {"eco", "latency"}
    /\ stage = [pc |-> "apply", phase |-> "A", at |-> 1]
    /\ env = [t \in All |-> Bare]
    /\ refresher = [ph \in Phases |-> Off]
    /\ missed = {} /\ halted = FALSE /\ envFaults = 0

EnvFault ==
    /\ envFaults < MaxFaults
    /\ envFaults' = envFaults + 1

Goto(pc) == stage' = [stage EXCEPT !.pc = pc, !.at = 1]

-----------------------------------------------------------------------------
(* The environment.                                                        *)

(* UpdateDelays, SetCarbon: one script, or one request, per target.  One   *)
(* that fails may have taken effect.                                       *)
Update(t, value) ==
    /\ env' = [env EXCEPT ![t] = value]
    /\ missed' = missed \ {t}
    /\ UNCHANGED envFaults

UpdateFails(t, value) ==
    /\ EnvFault
    /\ env' \in {env, [env EXCEPT ![t] = value]}
    /\ missed' = missed \cup {t}

-----------------------------------------------------------------------------
(* refreshLatency and refreshCarbon, the goroutine of one phase.           *)

(* A tick: the next values are drawn.  refreshCarbon assigns at once, too. *)
(* A select that finds the context done and the ticker ready may choose    *)
(* the ticker.                                                             *)
Redraw(ph) ==
    /\ refresher[ph].st \in {"on", "cancelled"} /\ refresher[ph].at = 0
    /\ refresher[ph].drawn < Redraws
    /\ refresher' = [refresher EXCEPT ![ph].drawn = @ + 1, ![ph].at = 1]
    /\ UNCHANGED <<suite, stage, env, missed, halted, envFaults>>

(* The next target gets its value.  The script of tc is not bound to the   *)
(* context, the request to mock-eco is; an error once the context is done  *)
(* ends the redraw (refreshLatency: the goroutine), any other is logged.   *)
UpdateNext(ph) ==
    LET r == refresher[ph]
        t == r.at
        next == [refresher EXCEPT ![ph].at = IF t = Places THEN 0 ELSE t + 1]
        done == r.st = "cancelled" \/ halted
        stop == IF suite = "eco" THEN [refresher EXCEPT ![ph].at = 0]
                ELSE [refresher EXCEPT ![ph].st = "off"] IN
    /\ r.st # "off" /\ t > 0
    /\ \/ /\ ~ (suite = "eco" /\ done)
          /\ Update(t, Draw(r.drawn))
          /\ refresher' = next
       \/ /\ UpdateFails(t, Draw(r.drawn))
          /\ refresher' = IF done THEN stop ELSE next
       \/ /\ suite = "eco" /\ done
          /\ env' \in {env, [env EXCEPT ![t] = Draw(r.drawn)]}
          /\ refresher' = stop
          /\ missed' = missed \cup {t} /\ UNCHANGED envFaults
    /\ UNCHANGED <<suite, stage, halted>>

(* ctx.Done(). *)
Returns(ph) ==
    /\ refresher[ph].st # "off" /\ refresher[ph].at = 0
    /\ refresher[ph].st = "cancelled" \/ halted
    /\ refresher' = [refresher EXCEPT ![ph].st = "off"]
    /\ UNCHANGED <<suite, stage, env, missed, halted, envFaults>>

-----------------------------------------------------------------------------
(* runExperiment.                                                          *)

Halt ==
    /\ ~ halted /\ stage.pc # "ended"
    /\ halted' = TRUE
    /\ UNCHANGED <<suite, stage, env, refresher, missed, envFaults>>

(* applyConsumerTCDelays, applyProviderTCDelays: a tc that cannot be       *)
(* applied takes back the ones before it; a container whose address cannot *)
(* be read leaves them.                                                    *)
Apply ==
    /\ stage.pc = "apply"
    /\ \/ /\ suite = "eco" /\ Goto("policy") /\ UNCHANGED <<env, envFaults>>
       \/ /\ suite = "latency"
          /\ env' = [env EXCEPT ![stage.at] = Draw(0)]
          /\ IF stage.at = Places THEN Goto("policy")
             ELSE stage' = [stage EXCEPT !.at = @ + 1]
          /\ UNCHANGED envFaults
       \/ /\ suite = "latency" /\ EnvFault /\ Goto("ended")
          /\ env' \in {env, [t \in All |-> IF t < stage.at THEN Bare
                                           ELSE env[t]]}
       \/ /\ suite = "latency" /\ halted /\ Goto("ended")
          /\ UNCHANGED <<env, envFaults>>
    /\ UNCHANGED <<suite, refresher, missed, halted>>

(* Any other step of the run fails: it returns, and the deferred Restore   *)
(* of comparative-latency runs.                                            *)
Fails ==
    /\ stage.pc \in {"policy", "settle"}
    /\ Goto("restore")
    /\ UNCHANGED <<suite, env, refresher, missed, halted, envFaults>>

(* SetPolicyAll done, the phase's goroutine starts, freshly seeded. *)
StartRefresh ==
    /\ stage.pc = "policy" /\ ~ halted
    /\ refresher' = [refresher EXCEPT
                       ![stage.phase] = [Off EXCEPT !.st = "on"]]
    /\ Goto("drain")
    /\ UNCHANGED <<suite, env, missed, halted, envFaults>>

(* The caches are waited out: proberCacheDrain, CarbonRefreshInterval.     *)
(* Posting the first carbon values takes less than that.                   *)
Drained ==
    LET r == refresher[stage.phase] IN
    /\ stage.pc = "drain" /\ ~ halted
    /\ suite = "eco" => r.drawn > 1 \/ (r.drawn = 1 /\ r.at = 0)
    /\ Goto("sample")
    /\ UNCHANGED <<suite, env, refresher, missed, halted, envFaults>>

(* The phase ends, or the interrupt ends the wait: the refresh is          *)
(* cancelled.                                                              *)
CancelRefresh ==
    LET ph == stage.phase IN
    /\ stage.pc = "sample" \/ (stage.pc = "drain" /\ halted)
    /\ refresher' = [refresher EXCEPT ![ph].st =
                       IF @ = "off" THEN "off" ELSE "cancelled"]
    /\ Goto("stop")
    /\ UNCHANGED <<suite, env, missed, halted, envFaults>>

(* Mutant: the goroutine of phase A is cancelled but not waited for. *)
WaitRefreshNot ==
    /\ stage.pc = "stop"
    /\ CASE halted -> Goto("restore")
         [] ~ halted /\ stage.phase = "A" -> Goto("settle")
         [] OTHER -> Goto("finish")
    /\ UNCHANGED <<suite, env, refresher, missed, halted, envFaults>>

(* WaitGroup.Wait(): until the goroutine has returned. *)
WaitRefresh ==
    /\ stage.pc = "stop" /\ refresher[stage.phase].st = "off"
    /\ CASE halted -> Goto("restore")
         [] ~ halted /\ stage.phase = "A" -> Goto("settle")
         [] OTHER -> Goto("finish")
    /\ UNCHANGED <<suite, env, refresher, missed, halted, envFaults>>

(* The federation has settled and the policy of phase B is set. *)
Settled ==
    /\ stage.pc = "settle" /\ ~ halted
    /\ stage' = [pc |-> IF suite = "eco" THEN "policy" ELSE "reset",
                 phase |-> "B", at |-> 1]
    /\ UNCHANGED <<suite, env, refresher, missed, halted, envFaults>>

(* Every tc goes back to the delays as applied. *)
Reset ==
    /\ stage.pc = "reset"
    /\ \/ /\ Update(stage.at, Draw(0))
          /\ IF stage.at = Places THEN Goto("policy")
             ELSE stage' = [stage EXCEPT !.at = @ + 1]
       \/ UpdateFails(stage.at, Draw(0)) /\ Goto("restore")
    /\ UNCHANGED <<suite, refresher, halted>>

(* The clean-up of a run that went through: ResetCarbon. *)
ResetCarbon ==
    /\ stage.pc = "finish" /\ Goto("restore")
    /\ \/ suite = "eco" /\ ~ halted /\ env' = [t \in All |-> Bare]
       \/ UNCHANGED env
    /\ UNCHANGED <<suite, refresher, missed, halted, envFaults>>

(* The deferred Restore of every tc; its errors are logged. *)
Restore ==
    /\ stage.pc = "restore" /\ Goto("ended")
    /\ \/ /\ env' = IF suite = "latency" THEN [t \in All |-> Bare] ELSE env
          /\ UNCHANGED envFaults
       \/ /\ suite = "latency" /\ EnvFault
          /\ \E left \in All :
               env' = [t \in All |-> IF t = left THEN env[t] ELSE Bare]
    /\ UNCHANGED <<suite, refresher, missed, halted>>

Experiment ==
    \/ Apply \/ Fails \/ StartRefresh \/ Drained \/ CancelRefresh
    \/ WaitRefresh \/ Settled \/ Reset \/ ResetCarbon \/ Restore

ReplayNext ==
    \/ Experiment \/ Halt
    \/ \E ph \in Phases : Redraw(ph) \/ UpdateNext(ph) \/ Returns(ph)

ReplaySpec == ReplayInit /\ [][ReplayNext]_ReplayVars

-----------------------------------------------------------------------------
ReplayTypeOK ==
    /\ suite \in {"eco", "latency"} /\ missed \subseteq All
    /\ stage \in [pc: {"apply", "policy", "drain", "sample", "stop", "settle",
                       "reset", "finish", "restore", "ended"},
                  phase: Phases, at: All]
    /\ env \in [All -> 0 .. Draw(Redraws)]
    /\ refresher \in [Phases -> [st: {"off", "on", "cancelled"},
                                 drawn: 0 .. Redraws, at: 0 .. Places]]
    /\ halted \in BOOLEAN /\ envFaults \in 0 .. MaxFaults

(* Both phases see the same sequence: while a phase samples, what is in    *)
(* force everywhere is the latest redraw of this phase's own goroutine     *)
(* (the configured delays before its first), or the one before where the   *)
(* goroutine has not come to yet, save where an update failed: nothing is  *)
(* left of phase A, and no late update of phase A's goroutine lands in     *)
(* phase B (refreshLatency, refreshCarbon, WaitGroup.Wait, the reset).  An *)
(* interrupted run throws its samples away.                                *)
ReplayIsExact ==
    stage.pc = "sample" /\ ~ halted =>
        LET r == refresher[stage.phase] IN
        \A t \in All \ missed :
            env[t] = Draw(IF r.at > 0 /\ t >= r.at THEN r.drawn - 1
                          ELSE r.drawn)
=============================================================================
