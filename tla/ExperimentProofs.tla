-------------------------- MODULE ExperimentProofs --------------------------
(***************************************************************************)
(* Proofs about the environment of the comparative experiments (Replay),   *)
(* about the Broker's load test (LoadTest), and about the specification    *)
(* that puts them and Comparison side by side (MCExperiments).             *)
(***************************************************************************)
EXTENDS MCExperiments, ComparisonProofs, TLAPS

(* Replay.  A goroutine is at work for the phase that runs only, ...       *)
OneAtWork ==
    /\ \A ph \in Phases : refresher[ph].st # "off" =>
          ph = stage.phase /\ stage.pc \in {"drain", "sample", "stop"}
    /\ stage.pc \in {"drain", "sample"} /\ ~ halted =>
          refresher[stage.phase].st = "on"

(* ... a phase of comparative-latency begins on the configured delays, ... *)
BeginsAsApplied ==
    suite = "latency" =>
        /\ stage.pc = "policy" =>
              \A t \in All \ missed : env[t] = Draw(0)
        /\ stage.pc \in {"apply", "reset"} =>
              \A t \in All \ missed : t < stage.at => env[t] = Draw(0)

(* ... and from then on, as from the first redraw of comparative-eco, what *)
(* is in force follows the goroutine target by target.                     *)
Current == refresher[stage.phase]

Reached(t) ==
    \/ suite = "latency" \/ Current.drawn > 1
    \/ Current.drawn = 1 /\ (Current.at = 0 \/ t < Current.at)

InForce(t) ==
    Draw(IF Current.at > 0 /\ t >= Current.at THEN Current.drawn - 1
         ELSE Current.drawn)

FollowsRedraws ==
    stage.pc \in {"drain", "sample"} /\ ~ halted =>
        /\ \A t \in All \ missed : Reached(t) => env[t] = InForce(t)
        /\ stage.pc = "sample" => \A t \in All : Reached(t)

ReplayInv == ReplayTypeOK /\ OneAtWork /\ BeginsAsApplied /\ FollowsRedraws

Goroutines == [st: {"off", "on", "cancelled"}, drawn: 0 .. Redraws,
               at: 0 .. Places]

(* A step of one goroutine that keeps it at work. *)
LEMMA RedrawStep ==
    ASSUME ReplayInv, NEW ph \in Phases, Redraw(ph)
    PROVE  ReplayInv'
<1> USE ReplayAssumption
<1> DEFINE r == refresher[ph]
           s == refresher'[ph]
<1>0. /\ r \in Goroutines /\ refresher \in [Phases -> Goroutines]
      /\ r.drawn \in Nat
  BY DEF ReplayInv, ReplayTypeOK, Goroutines
<1>1. /\ r.at = 0 /\ r.drawn < Redraws /\ r.st # "off"
      /\ UNCHANGED <<suite, stage, env, missed, halted, envFaults>>
  BY DEF Redraw
<1>2. /\ s \in Goroutines /\ s.st = r.st /\ s.drawn = r.drawn + 1 /\ s.at = 1
      /\ refresher' \in [Phases -> Goroutines]
      /\ \A o \in Phases \ {ph} : refresher'[o] = refresher[o]
  BY <1>0, <1>1 DEF Redraw, Goroutines
<1>3. ReplayTypeOK' BY <1>1, <1>2 DEF ReplayInv, ReplayTypeOK, Goroutines
<1>4. OneAtWork' BY <1>1, <1>2 DEF ReplayInv, OneAtWork, Phases
<1>5. BeginsAsApplied' BY <1>1 DEF ReplayInv, BeginsAsApplied
<1>6. FollowsRedraws'
  <2>1. ph = stage.phase BY <1>1 DEF ReplayInv, OneAtWork
  <2>2. Current = r /\ Current' = s BY <1>1, <2>1 DEF Current
  <2>3. \A t \in All : /\ Reached(t)' = Reached(t)
                       /\ InForce(t)' = InForce(t)
    BY <1>0, <1>1, <1>2, <2>2 DEF Reached, InForce, All, Draw
  <2> QED BY <1>1, <2>3 DEF ReplayInv, FollowsRedraws, All
<1> QED BY <1>3, <1>4, <1>5, <1>6 DEF ReplayInv

(* An update of one target, which is recorded unless it fails.             *)
LEMMA UpdateNextStep ==
    ASSUME ReplayInv, NEW ph \in Phases, UpdateNext(ph)
    PROVE  ReplayInv'
<1> USE ReplayAssumption
<1> DEFINE r == refresher[ph]
           s == refresher'[ph]
           t == r.at
<1>1. /\ r \in Goroutines /\ refresher \in [Phases -> Goroutines]
      /\ r.st # "off" /\ t \in All /\ r.drawn \in 0 .. Redraws
      /\ UNCHANGED <<suite, stage, halted>>
  BY DEF ReplayInv, ReplayTypeOK, Goroutines, UpdateNext, All
<1>2. /\ ph = stage.phase /\ Current = r /\ Current' = s
      /\ stage.pc \in {"drain", "sample", "stop"}
  BY <1>1 DEF ReplayInv, OneAtWork, Current
<1>3. /\ s \in Goroutines /\ s.drawn = r.drawn
      /\ refresher' \in [Phases -> Goroutines]
      /\ \A o \in Phases \ {ph} : refresher'[o] = refresher[o]
  BY <1>1 DEF UpdateNext, Goroutines, All
<1>4. /\ env' \in {env, [env EXCEPT ![t] = Draw(r.drawn)]}
      /\ missed' \in {missed \ {t}, missed \cup {t}}
      /\ missed' = missed \ {t} => env' = [env EXCEPT ![t] = Draw(r.drawn)]
      /\ envFaults' \in 0 .. MaxFaults
  <2>1. \/ Update(t, Draw(r.drawn))
        \/ UpdateFails(t, Draw(r.drawn))
        \/ /\ env' \in {env, [env EXCEPT ![t] = Draw(r.drawn)]}
           /\ missed' = missed \cup {t} /\ UNCHANGED envFaults
    BY DEF UpdateNext
  <2>2. envFaults \in 0 .. MaxFaults BY DEF ReplayInv, ReplayTypeOK
  <2>3. t \notin missed \ {t} /\ t \in missed \cup {t} OBVIOUS
  <2> HIDE DEF t, r
  <2> QED
    BY <2>1, <2>2, <2>3, FederationAssumption
       DEF Update, UpdateFails, EnvFault
<1>5. ReplayTypeOK'
  <2>1. Draw(r.drawn) \in 0 .. Draw(Redraws) BY <1>1 DEF Draw
  <2>2. env' \in [All -> 0 .. Draw(Redraws)]
    BY <1>1, <1>4, <2>1 DEF ReplayInv, ReplayTypeOK
  <2>3. missed' \subseteq All BY <1>1, <1>4 DEF ReplayInv, ReplayTypeOK
  <2> QED
    BY <1>1, <1>3, <1>4, <2>2, <2>3 DEF ReplayInv, ReplayTypeOK, Goroutines
<1>6. stage.pc # "stop" /\ ~ halted =>
        s.st = "on" /\ s.at = IF t = Places THEN 0 ELSE t + 1
  BY <1>1, <1>2 DEF UpdateNext, Goroutines, ReplayInv, OneAtWork
<1>7. OneAtWork' BY <1>1, <1>2, <1>3, <1>6 DEF ReplayInv, OneAtWork, Phases
<1>8. BeginsAsApplied' BY <1>1, <1>2 DEF BeginsAsApplied
<1>9. FollowsRedraws'
  <2> SUFFICES ASSUME stage.pc \in {"drain", "sample"}, ~ halted
               PROVE  /\ \A u \in All \ missed' :
                           Reached(u)' => env'[u] = InForce(u)'
                      /\ stage.pc = "sample" => \A u \in All : Reached(u)'
    BY <1>1 DEF FollowsRedraws, All
  <2>1. s.at = IF t = Places THEN 0 ELSE t + 1 BY <1>6
  <2>2. ASSUME NEW u \in All
        PROVE  /\ Reached(u) => Reached(u)'
               /\ u # t /\ Reached(u)' => Reached(u)
               /\ u # t => InForce(u)' = InForce(u)
               /\ u = t => InForce(u)' = Draw(r.drawn)
    <3>1. /\ u \in 1 .. Places /\ t \in 1 .. Places /\ r.drawn \in Nat
          /\ Current' = s /\ Current = r /\ s.drawn = r.drawn /\ r.at = t
          /\ suite' = suite /\ Places \in Nat
      BY <1>1, <1>2, <1>3 DEF All
    <3> HIDE DEF r, s, t
    <3>2. Reached(u) => Reached(u)' BY <2>1, <3>1 DEF Reached
    <3>3. u # t /\ Reached(u)' => Reached(u) BY <2>1, <3>1 DEF Reached
    <3>4. u # t => InForce(u)' = InForce(u) BY <2>1, <3>1 DEF InForce
    <3>5. u = t => InForce(u)' = Draw(r.drawn) BY <2>1, <3>1 DEF InForce
    <3> QED BY <3>2, <3>3, <3>4, <3>5
  <2>3. ASSUME NEW u \in All \ missed', Reached(u)'
        PROVE  env'[u] = InForce(u)'
    <3>1. CASE u = t
      <4>1. missed' = missed \ {t} BY <1>4, <2>3, <3>1
      <4>2. env'[t] = Draw(r.drawn)
        BY <1>1, <1>4, <4>1 DEF ReplayInv, ReplayTypeOK
      <4> QED BY <2>2, <2>3, <3>1, <4>2
    <3>2. CASE u # t
      BY <1>1, <1>4, <2>2, <2>3, <3>2
         DEF ReplayInv, ReplayTypeOK, FollowsRedraws
    <3> QED BY <3>1, <3>2
  <2> QED BY <2>2, <2>3 DEF ReplayInv, FollowsRedraws
<1> QED BY <1>5, <1>7, <1>8, <1>9 DEF ReplayInv

(* The goroutine returns.                                                  *)
LEMMA ReturnsStep ==
    ASSUME ReplayInv, NEW ph \in Phases, Returns(ph)
    PROVE  ReplayInv'
<1>1. /\ refresher \in [Phases -> Goroutines]
      /\ UNCHANGED <<suite, stage, env, missed, halted, envFaults>>
      /\ ph = stage.phase /\ (stage.pc = "stop" \/ halted)
      /\ stage.pc \in {"drain", "sample", "stop"}
  BY DEF ReplayInv, ReplayTypeOK, Goroutines, Returns, OneAtWork
<1>2. /\ refresher' \in [Phases -> Goroutines] /\ refresher'[ph].st = "off"
      /\ \A o \in Phases \ {ph} : refresher'[o] = refresher[o]
  BY <1>1 DEF Returns, Goroutines
<1>3. ReplayTypeOK' BY <1>1, <1>2 DEF ReplayInv, ReplayTypeOK, Goroutines
<1> QED
  BY <1>1, <1>2, <1>3 DEF ReplayInv, OneAtWork, BeginsAsApplied,
                          FollowsRedraws, Phases

(* What Goto makes of the stage. *)
StagePcs == {"apply", "policy", "drain", "sample", "stop", "settle", "reset",
             "finish", "restore", "ended"}
Stages == [pc: StagePcs, phase: Phases, at: All]

(* The stage moves, and the phase stays.                                   *)
LEMMA GotoStage ==
    ASSUME ReplayInv, NEW pc \in StagePcs, Goto(pc)
    PROVE  /\ stage' \in Stages /\ stage'.pc = pc
           /\ stage'.phase = stage.phase /\ stage'.at = 1
<1>1. stage \in Stages
  BY DEF ReplayInv, ReplayTypeOK, Stages, StagePcs
<1>2. 1 \in All BY ReplayAssumption DEF All
<1> QED BY <1>1, <1>2 DEF Goto, Stages

(* Apply and Reset, which take the targets in their order.                 *)
LEMMA TargetsStep ==
    ASSUME ReplayInv, Apply \/ Reset
    PROVE  ReplayInv'
<1> USE ReplayAssumption DEF ReplayInv
<1>1. /\ stage \in Stages /\ stage.at \in All /\ stage.pc \in {"apply", "reset"}
      /\ UNCHANGED <<suite, refresher, halted>>
      /\ env \in [All -> 0 .. Draw(Redraws)] /\ missed \subseteq All
      /\ envFaults \in 0 .. MaxFaults
  BY DEF ReplayTypeOK, Stages, StagePcs, Apply, Reset
<1>2. \A ph \in Phases : refresher[ph].st = "off" BY <1>1 DEF OneAtWork
<1>3. Draw(0) \in 0 .. Draw(Redraws) /\ Bare \in 0 .. Draw(Redraws)
  BY DEF Draw, Bare
<1>4. /\ env' \in [All -> 0 .. Draw(Redraws)] /\ missed' \subseteq All
      /\ envFaults' \in 0 .. MaxFaults
  BY <1>1, <1>3, FederationAssumption
     DEF Apply, Reset, Update, UpdateFails, EnvFault
<1>5. \/ /\ suite = "eco" /\ stage.pc = "apply" /\ Goto("policy")
      \/ Goto("ended") \/ Goto("restore")
      \/ /\ suite = "latency" \/ stage.pc = "reset"
         /\ env' = [env EXCEPT ![stage.at] = Draw(0)]
         /\ missed' \in {missed, missed \ {stage.at}}
         /\ \/ stage.at = Places /\ Goto("policy")
            \/ stage.at # Places /\ stage' = [stage EXCEPT !.at = @ + 1]
  BY DEF Apply, Reset, Update
<1>6. CASE Goto("ended") \/ Goto("restore")
  <2>1. stage' \in Stages /\ stage'.pc \in {"ended", "restore"}
    BY <1>6, GotoStage DEF StagePcs
  <2> QED
    BY <1>1, <1>2, <1>4, <2>1
       DEF ReplayTypeOK, Stages, StagePcs, OneAtWork, BeginsAsApplied,
           FollowsRedraws
<1>7. CASE suite = "eco" /\ Goto("policy")
  <2>1. stage' \in Stages /\ stage'.pc = "policy"
    BY <1>7, GotoStage DEF StagePcs
  <2> QED
    BY <1>1, <1>2, <1>4, <1>7, <2>1
       DEF ReplayTypeOK, Stages, StagePcs, OneAtWork, BeginsAsApplied,
           FollowsRedraws
<1>8. CASE /\ env' = [env EXCEPT ![stage.at] = Draw(0)]
           /\ missed' \in {missed, missed \ {stage.at}}
           /\ \/ stage.at = Places /\ Goto("policy")
              \/ stage.at # Places /\ stage' = [stage EXCEPT !.at = @ + 1]
  <2>1. /\ stage' \in Stages
        /\ \/ stage'.pc = "policy" /\ stage.at = Places
           \/ stage'.pc = stage.pc /\ stage'.at = stage.at + 1
    BY <1>1, <1>8, GotoStage DEF StagePcs, Stages, All
  <2>2. ASSUME suite = "latency", NEW t \in All \ missed', t <= stage.at
        PROVE  env'[t] = Draw(0)
    <3>1. CASE t = stage.at BY <1>1, <1>8, <3>1
    <3>2. CASE t # stage.at
      <4>1. t \in All \ missed /\ t < stage.at
        BY <1>1, <1>8, <2>2, <3>2 DEF All
      <4>2. env'[t] = env[t] BY <1>1, <1>8, <3>2
      <4> QED BY <1>1, <2>2, <4>1, <4>2 DEF BeginsAsApplied
    <3> QED BY <3>1, <3>2
  <2>3. BeginsAsApplied'
    <3>1. ASSUME stage'.pc = "policy", suite = "latency",
                 NEW t \in All \ missed'
          PROVE  env'[t] = Draw(0)
      <4>1. t <= stage.at BY <1>1, <2>1, <3>1 DEF All
      <4> QED BY <2>2, <3>1, <4>1
    <3>2. ASSUME stage'.pc \in {"apply", "reset"}, suite = "latency",
                 NEW t \in All \ missed', t < stage'.at
          PROVE  env'[t] = Draw(0)
      <4>1. t <= stage.at BY <1>1, <2>1, <3>2 DEF All
      <4> QED BY <2>2, <3>2, <4>1
    <3> QED BY <1>1, <3>1, <3>2 DEF BeginsAsApplied, All
  <2> QED
    BY <1>1, <1>2, <1>4, <2>1, <2>3
       DEF ReplayTypeOK, Stages, StagePcs, OneAtWork, FollowsRedraws
<1> QED BY <1>5, <1>6, <1>7, <1>8

(* The phase's goroutine starts on what is in force.                       *)
LEMMA StartRefreshStep == ASSUME ReplayInv, StartRefresh PROVE ReplayInv'
<1> USE ReplayAssumption DEF ReplayInv
<1> DEFINE s == refresher'[stage.phase]
<1>1. /\ stage.pc = "policy" /\ stage.phase \in Phases
      /\ UNCHANGED <<suite, env, missed, halted, envFaults>>
      /\ refresher \in [Phases -> Goroutines]
  BY DEF StartRefresh, ReplayTypeOK, Goroutines
<1>2. /\ stage' \in Stages /\ stage'.pc = "drain"
      /\ stage'.phase = stage.phase
  BY GotoStage DEF StartRefresh, StagePcs
<1>3. /\ refresher' \in [Phases -> Goroutines]
      /\ s.st = "on" /\ s.drawn = 0 /\ s.at = 0
      /\ \A ph \in Phases \ {stage.phase} : refresher'[ph] = refresher[ph]
  BY <1>1 DEF StartRefresh, Off, Goroutines
<1>4. \A ph \in Phases : refresher[ph].st = "off" BY <1>1 DEF OneAtWork
<1>5. ReplayTypeOK'
  BY <1>1, <1>2, <1>3 DEF ReplayTypeOK, Goroutines, Stages, StagePcs
<1>6. OneAtWork' BY <1>2, <1>3, <1>4 DEF OneAtWork
<1>7. BeginsAsApplied' BY <1>2 DEF BeginsAsApplied
<1>8. FollowsRedraws'
  <2>1. Current' = s BY <1>2 DEF Current
  <2>2. \A t \in All : /\ Reached(t)' => suite = "latency"
                       /\ InForce(t)' = Draw(0)
    BY <1>1, <1>3, <2>1 DEF Reached, InForce
  <2> QED BY <1>1, <1>2, <2>2 DEF FollowsRedraws, BeginsAsApplied, All
<1> QED BY <1>5, <1>6, <1>7, <1>8

(* The wait for the caches ends, by then every region has been redrawn.    *)
LEMMA DrainedStep == ASSUME ReplayInv, Drained PROVE ReplayInv'
<1> USE ReplayAssumption DEF ReplayInv
<1>1. /\ stage.pc = "drain" /\ ~ halted
      /\ UNCHANGED <<suite, env, refresher, missed, halted, envFaults>>
      /\ suite = "eco" => \/ Current.drawn > 1
                          \/ Current.drawn = 1 /\ Current.at = 0
      /\ suite \in {"eco", "latency"}
  BY DEF Drained, Current, ReplayTypeOK
<1>2. /\ stage' \in Stages /\ stage'.pc = "sample"
      /\ stage'.phase = stage.phase
  BY GotoStage DEF Drained, StagePcs
<1>3. ReplayTypeOK' BY <1>1, <1>2 DEF ReplayTypeOK, Stages, StagePcs
<1>4. OneAtWork' /\ BeginsAsApplied'
  BY <1>1, <1>2 DEF OneAtWork, BeginsAsApplied
<1>5. FollowsRedraws'
  <2>1. Current' = Current BY <1>1, <1>2 DEF Current
  <2>2. \A t \in All : /\ Reached(t)' = Reached(t) /\ Reached(t)
                       /\ InForce(t)' = InForce(t)
    BY <1>1, <2>1 DEF Reached, InForce
  <2> QED BY <1>1, <1>2, <2>2 DEF FollowsRedraws, All
<1> QED BY <1>3, <1>4, <1>5

(* The refresh is cancelled. *)
LEMMA CancelRefreshStep == ASSUME ReplayInv, CancelRefresh PROVE ReplayInv'
<1> USE DEF ReplayInv
<1>1. /\ stage.phase \in Phases /\ refresher \in [Phases -> Goroutines]
      /\ UNCHANGED <<suite, env, missed, halted, envFaults>>
  BY DEF CancelRefresh, ReplayTypeOK, Goroutines
<1>2. /\ stage' \in Stages /\ stage'.pc = "stop"
      /\ stage'.phase = stage.phase
  BY GotoStage DEF CancelRefresh, StagePcs
<1>3. /\ refresher' \in [Phases -> Goroutines]
      /\ \A ph \in Phases \ {stage.phase} : refresher'[ph] = refresher[ph]
  BY <1>1 DEF CancelRefresh, Goroutines
<1>4. ReplayTypeOK'
  BY <1>1, <1>2, <1>3 DEF ReplayTypeOK, Goroutines, Stages, StagePcs
<1> QED
  BY <1>1, <1>2, <1>3, <1>4 DEF OneAtWork, BeginsAsApplied, FollowsRedraws

(* The steps of a run while no goroutine is at work.                       *)
LEMMA QuietStep ==
    ASSUME ReplayInv,
           \/ Fails \/ WaitRefresh \/ Settled \/ ResetCarbon \/ Restore
    PROVE  ReplayInv'
<1> USE ReplayAssumption DEF ReplayInv
<1>1. /\ stage.pc \in {"policy", "settle", "stop", "finish", "restore"}
      /\ stage.pc = "stop" => refresher[stage.phase].st = "off"
      /\ UNCHANGED <<suite, refresher, missed, halted>>
  BY DEF Fails, WaitRefresh, Settled, ResetCarbon, Restore
<1>2. \A ph \in Phases : refresher[ph].st = "off"
  BY <1>1 DEF OneAtWork, ReplayTypeOK
<1>3. /\ stage' \in Stages
      /\ \/ stage'.pc \in {"settle", "finish", "restore", "ended"}
         \/ stage'.pc = "policy" /\ suite = "eco"
         \/ stage'.pc = "reset" /\ stage'.at = 1
  <2>1. CASE Fails BY <2>1, GotoStage DEF Fails, StagePcs
  <2>2. CASE WaitRefresh BY <2>2, GotoStage DEF WaitRefresh, StagePcs
  <2>3. CASE Settled
    BY <2>3 DEF Settled, Stages, StagePcs, Phases, All, ReplayTypeOK
  <2>4. CASE ResetCarbon BY <2>4, GotoStage DEF ResetCarbon, StagePcs
  <2>5. CASE Restore BY <2>5, GotoStage DEF Restore, StagePcs
  <2> QED BY <2>1, <2>2, <2>3, <2>4, <2>5
<1>4. Bare \in 0 .. Draw(Redraws) BY DEF Draw, Bare
<1>5. env' \in [All -> 0 .. Draw(Redraws)] /\ envFaults' \in 0 .. MaxFaults
  BY <1>4, FederationAssumption
     DEF Fails, WaitRefresh, Settled, ResetCarbon, Restore, EnvFault,
         ReplayTypeOK
<1>6. ReplayTypeOK'
  BY <1>1, <1>3, <1>5 DEF ReplayTypeOK, Stages, StagePcs
<1>7. BeginsAsApplied' BY <1>1, <1>3 DEF BeginsAsApplied, All
<1> QED BY <1>1, <1>2, <1>3, <1>6, <1>7 DEF OneAtWork, FollowsRedraws

(* The invariant holds at the start and is kept by every step.             *)
LEMMA ReplayInvariant == ReplaySpec => []ReplayInv
<1>1. ReplayInit => ReplayInv
  <2> SUFFICES ASSUME ReplayInit PROVE ReplayInv OBVIOUS
  <2> USE ReplayAssumption, FederationAssumption DEF ReplayInit
  <2>1. /\ stage.pc = "apply" /\ stage.at = 1
        /\ \A ph \in Phases : refresher[ph].st = "off"
    BY DEF Off
  <2>2. ReplayTypeOK
    <3>1. Off \in Goroutines BY DEF Off, Goroutines
    <3>2. refresher \in [Phases -> Goroutines] BY <3>1
    <3>3. env \in [All -> 0 .. Draw(Redraws)] BY DEF Bare, Draw
    <3>4. stage \in Stages BY DEF Stages, StagePcs, Phases, All
    <3>5. halted \in BOOLEAN OBVIOUS
    <3>6. envFaults \in 0 .. MaxFaults /\ missed \subseteq All OBVIOUS
    <3> HIDE DEF ReplayInit
    <3>7. suite \in {"eco", "latency"} BY DEF ReplayInit
    <3> QED
      BY <3>2, <3>3, <3>4, <3>5, <3>6, <3>7
         DEF ReplayTypeOK, Goroutines, Stages, StagePcs
  <2>3. OneAtWork /\ FollowsRedraws BY <2>1 DEF OneAtWork, FollowsRedraws
  <2>4. BeginsAsApplied BY <2>1 DEF BeginsAsApplied, All
  <2> QED BY <2>2, <2>3, <2>4 DEF ReplayInv
<1>2. ReplayInv /\ [ReplayNext]_ReplayVars => ReplayInv'
  <2> SUFFICES ASSUME ReplayInv, [ReplayNext]_ReplayVars PROVE ReplayInv'
    OBVIOUS
  <2>1. CASE Experiment
    BY <2>1, TargetsStep, StartRefreshStep, DrainedStep, CancelRefreshStep,
       QuietStep DEF Experiment
  <2>2. CASE Halt \/ UNCHANGED ReplayVars
    BY <2>2 DEF Halt, ReplayVars, ReplayInv, ReplayTypeOK, OneAtWork,
                BeginsAsApplied, FollowsRedraws, Reached, InForce, Current
  <2>3. CASE \E ph \in Phases : Redraw(ph) \/ UpdateNext(ph) \/ Returns(ph)
    BY <2>3, RedrawStep, UpdateNextStep, ReturnsStep
  <2> QED BY <2>1, <2>2, <2>3 DEF ReplayNext
<1> QED BY <1>1, <1>2, PTL DEF ReplaySpec

(* Phase B sees what phase A saw: while a phase samples, what is in force  *)
(* at every target whose last update did not fail is the latest redraw of  *)
(* the phase's own goroutine, or the one before where it has not come to,  *)
(* for any number of targets, redraws and failed updates (refreshLatency,  *)
(* refreshCarbon, WaitGroup.Wait).                                         *)
THEOREM PhasesReplay == ReplaySpec => []ReplayIsExact
<1>1. ReplayInv => ReplayIsExact
  BY DEF ReplayInv, FollowsRedraws, ReplayIsExact, InForce, Current
<1> QED BY <1>1, ReplayInvariant, PTL

-----------------------------------------------------------------------------
(* LoadTest.  An agent whose warm-up outcome was sent is past its warm-up, *)
(* and the run goes on only when all of a warm-up's outcomes are in; ...   *)
PastWarmup ==
    /\ \A a \in warmups :
          loaders[a].pc \in {"loop", "calling", "evaluating", "ended"}
    /\ harness = "providers" =>
          \A a \in LoadConsumers : loaders[a].pc = "none" /\ a \notin warmups
    /\ harness # "providers" => LoadProviders \subseteq warmups
    /\ evalGate \/ harness \notin {"providers", "consumers"} =>
          LoadConsumers \subseteq warmups
    /\ \A a \in LoadConsumers : loaders[a].pc = "evaluating" => evalGate

(* ... the drain begins with the last requests in flight, none of which    *)
(* outlives the client's last attempt, so that it never times out; ...     *)
DrainsAll ==
    /\ harness \in {"drain", "stop", "done"} => ~ genCtx
    /\ harness = "drain" =>
          /\ waited <= Longest
          /\ \A a \in Loaders : InFlight(a) => loaders[a].age >= waited
    /\ harness \in {"stop", "done"} =>
          /\ waited = 0
          /\ \A a \in Loaders : loaders[a].pc = "ended"
    /\ harness = "done" => monitor = "ended"

(* ... and the root context ends by an interrupt or after the drain.       *)
RootOutlives ==
    /\ ~ rootCtx => interrupted \/ harness \in {"stop", "done"}
    /\ "cancelled" \in outcomes => interrupted

LoadInv == LoadTypeOK /\ PastWarmup /\ DrainsAll /\ RootOutlives

(* The drain is given longer than a request can take.                      *)
LEMMA DrainOutlasts ==
    ASSUME clientMaxRetries \in Nat
    PROVE  /\ Longest \in Nat /\ drainTimeout = Longest + DrainSlack
           /\ drainTimeout > Longest
<1> DEFINE m == maxRetries
<1>1. m \in Nat BY LoadAssumption DEF maxRetries
<1>2. /\ RequestTimeout \in Nat /\ DefaultMaxBackoff \in Nat
      /\ DrainSlack \in Nat \ {0}
  BY LoadAssumption
<1>3. drainTimeout = (m + 1) * RequestTimeout + m * DefaultMaxBackoff
                        + DrainSlack
  BY DEF drainTimeout, maxRetries
<1>4. Longest = (m + 1) * RequestTimeout + m * DefaultMaxBackoff
  BY DEF Longest
<1> HIDE DEF m
<1>5. (m + 1) * RequestTimeout \in Nat /\ m * DefaultMaxBackoff \in Nat
  BY <1>1, <1>2
<1> QED BY <1>2, <1>3, <1>4, <1>5

(* The longest a request takes does not change.                            *)
LEMMA LongestStays ==
    ASSUME UNCHANGED clientMaxRetries PROVE Longest' = Longest
BY DEF Longest, maxRetries

(* An agent's goroutine moves on. *)
LEMMA Becomes ==
    ASSUME LoadTypeOK, NEW a \in Loaders, NEW pc \in LoaderPcs, Become(a, pc),
           UNCHANGED clientMaxRetries
    PROVE  /\ loaders' \in [Loaders -> [pc: LoaderPcs, age: 0 .. Longest']]
           /\ loaders'[a].pc = pc /\ loaders'[a].age = 0
           /\ \A b \in Loaders \ {a} : loaders'[b] = loaders[b]
<1>1. Longest \in Nat /\ Longest' = Longest
  BY DrainOutlasts, LongestStays DEF LoadTypeOK
<1>2. At(pc) \in [pc: LoaderPcs, age: 0 .. Longest] /\ At(pc).pc = pc
      /\ At(pc).age = 0
  BY <1>1 DEF At
<1>3. /\ loaders' = [loaders EXCEPT ![a] = At(pc)]
      /\ loaders \in [Loaders -> [pc: LoaderPcs, age: 0 .. Longest]]
  BY DEF Become, LoadTypeOK
<1> QED BY <1>1, <1>2, <1>3

(* What a step of an agent's goroutine does. *)
LoaderMoves(a, pc) ==
    /\ Become(a, pc) /\ loaders[a].pc \notin {"none", "ended"}
    /\ warmups' \in {warmups, warmups \cup {a}}
    /\ a \in warmups' => pc \in {"loop", "calling", "evaluating", "ended"}
    /\ pc = "evaluating" => evalGate
    /\ pc \in {"warming", "calling", "evaluating"} =>
          \/ loaders[a].pc = "warm"
          \/ loaders[a].pc = "loop" /\ genCtx
    /\ outcomes' \subseteq {"success", "failure", "timeout", "cancelled"}
    /\ "cancelled" \in outcomes' => "cancelled" \in outcomes \/ ~ rootCtx
    /\ UNCHANGED <<clientMaxRetries, harness, evalGate, genCtx, rootCtx,
                   interrupted, waited, monitor>>

(* A result is recorded. *)
LEMMA AddRecords ==
    ASSUME LoadInv, NEW err \in Results, Add(err)
    PROVE  /\ outcomes' \subseteq {"success", "failure", "timeout", "cancelled"}
           /\ "cancelled" \in outcomes' => "cancelled" \in outcomes \/ ~ rootCtx
<1>1. classify(err) \in {"success", "failure", "timeout", "cancelled"}
  BY DEF classify
<1>2. classify(err) = "cancelled" => ~ rootCtx BY DEF classify, Results
<1> QED BY <1>1, <1>2 DEF LoadInv, LoadTypeOK, Add

(* A goroutine moves on, and the summary with it.                          *)
LEMMA LoaderStep ==
    ASSUME LoadInv, NEW a \in Loaders, runLoader(a)
    PROVE  \E pc \in LoaderPcs : LoaderMoves(a, pc)
<1> USE DEF LoadInv, LoaderMoves
<1>0. /\ a \in warmups =>
            loaders[a].pc \in {"loop", "calling", "evaluating", "ended"}
      /\ UNCHANGED outcomes =>
           /\ outcomes' \subseteq {"success", "failure", "timeout", "cancelled"}
           /\ "cancelled" \in outcomes' => "cancelled" \in outcomes
  BY DEF PastWarmup, LoadTypeOK
<1>1. CASE newAgentClient(a) BY <1>0, <1>1 DEF newAgentClient, LoaderPcs
<1>2. CASE WarmupCall(a) BY <1>0, <1>2 DEF WarmupCall, LoaderPcs
<1>3. CASE WarmupBackoff(a) BY <1>0, <1>3 DEF WarmupBackoff, LoaderPcs
<1>4. CASE Call(a) BY <1>0, <1>4 DEF Call, LoaderPcs
<1>5. CASE GeneratorEnds(a) BY <1>0, <1>5 DEF GeneratorEnds, LoaderPcs
<1>6. ASSUME NEW err \in Results, WarmupReturns(a, err)
      PROVE  \E pc \in LoaderPcs : LoaderMoves(a, pc)
  <2>1. CASE err # "nil"
    BY <1>0, <1>6, <2>1, AddRecords DEF WarmupReturns, LoaderPcs
  <2>2. CASE err = "nil" /\ genCtx
    BY <1>0, <1>6, <2>2, AddRecords DEF WarmupReturns, LoaderPcs
  <2>3. CASE err = "nil" /\ ~ genCtx
    BY <1>0, <1>6, <2>3, AddRecords DEF WarmupReturns, LoaderPcs
  <2> QED BY <2>1, <2>2, <2>3
<1>7. ASSUME NEW err \in Results, CallReturns(a, err)
      PROVE  \E pc \in LoaderPcs : LoaderMoves(a, pc)
  BY <1>0, <1>7, AddRecords DEF CallReturns, LoaderPcs
<1> QED BY <1>1, <1>2, <1>3, <1>4, <1>5, <1>6, <1>7 DEF runLoader

(* Every step of an agent's goroutine keeps the invariant.                 *)
LEMMA LoaderKeeps ==
    ASSUME LoadInv, NEW a \in Loaders, NEW pc \in LoaderPcs, LoaderMoves(a, pc)
    PROVE  LoadInv'
<1> USE DEF LoadInv
<1>1. /\ loaders' \in [Loaders -> [pc: LoaderPcs, age: 0 .. Longest']]
      /\ loaders'[a].pc = pc /\ loaders'[a].age = 0
      /\ \A b \in Loaders \ {a} : loaders'[b] = loaders[b]
  BY Becomes DEF LoaderMoves
<1>2. Longest' = Longest BY LongestStays DEF LoaderMoves
<1>3. LoadTypeOK' BY <1>1 DEF LoadTypeOK, LoaderMoves
<1>4. PastWarmup'
  <2>1. warmups \subseteq Loaders /\ LoadConsumers \subseteq Loaders
    BY DEF LoadTypeOK, Loaders
  <2>2. \A b \in warmups' :
            loaders'[b].pc \in {"loop", "calling", "evaluating", "ended"}
    BY <1>1, <2>1 DEF PastWarmup, LoaderMoves
  <2>3. harness = "providers" => a \notin LoadConsumers
    BY DEF PastWarmup, LoaderMoves
  <2>4. warmups \subseteq warmups' /\ warmups' \subseteq warmups \cup {a}
    BY DEF LoaderMoves
  <2>5. harness' = "providers" => \A b \in LoadConsumers :
            loaders'[b].pc = "none" /\ b \notin warmups'
    BY <1>1, <2>1, <2>3, <2>4 DEF PastWarmup, LoaderMoves
  <2>6. \A b \in LoadConsumers : loaders'[b].pc = "evaluating" => evalGate'
    BY <1>1, <2>1 DEF PastWarmup, LoaderMoves
  <2> QED BY <2>2, <2>4, <2>5, <2>6 DEF PastWarmup, LoaderMoves
<1>5. DrainsAll'
  <2>1. harness \notin {"stop", "done"}
    BY DEF DrainsAll, LoaderMoves
  <2>2. ASSUME harness = "drain", NEW b \in Loaders, InFlight(b)'
        PROVE  loaders'[b].age >= waited
    <3>1. Loaders \subseteq warmups BY <2>2 DEF PastWarmup, Loaders
    <3>2. b # a
      BY <1>1, <2>2, <3>1 DEF InFlight, PastWarmup, DrainsAll, LoaderMoves
    <3> QED BY <1>1, <2>2, <3>2 DEF InFlight, DrainsAll
  <2> QED BY <1>2, <2>1, <2>2 DEF DrainsAll, LoaderMoves
<1>6. RootOutlives'
  <2>1. harness \notin {"stop", "done"}
    BY DEF DrainsAll, LoaderMoves
  <2> QED BY <2>1 DEF RootOutlives, LoaderMoves
<1> QED BY <1>3, <1>4, <1>5, <1>6

(* The monitor and an interrupt. *)
LEMMA AroundLoad == ASSUME LoadInv, Sample \/ NotifyContext PROVE LoadInv'
<1> USE DEF LoadInv
<1>1. /\ UNCHANGED <<clientMaxRetries, harness, loaders, warmups, evalGate,
                     outcomes, waited>>
      /\ genCtx' \in BOOLEAN /\ rootCtx' \in BOOLEAN
      /\ ~ genCtx => ~ genCtx'
      /\ interrupted => interrupted'
      /\ interrupted' \in BOOLEAN /\ monitor' \in {"idle", "sampling", "ended"}
      /\ monitor = "ended" => monitor' = "ended"
      /\ ~ rootCtx' => ~ rootCtx \/ interrupted'
  <2>1. CASE Sample BY <2>1 DEF Sample, LoadTypeOK
  <2>2. CASE NotifyContext BY <2>2 DEF NotifyContext, LoadTypeOK
  <2> QED BY <2>1, <2>2
<1>2. Longest' = Longest BY <1>1, LongestStays
<1>3. LoadTypeOK' BY <1>1, <1>2 DEF LoadTypeOK
<1>4. PastWarmup' BY <1>1 DEF PastWarmup
<1>5. DrainsAll' BY <1>1, <1>2 DEF DrainsAll, InFlight
<1>6. RootOutlives' BY <1>1 DEF RootOutlives
<1> QED BY <1>3, <1>4, <1>5, <1>6

(* Time passes. *)
LEMMA TickKeeps == ASSUME LoadInv, Tick PROVE LoadInv'
<1> USE DEF LoadInv
<1>1. UNCHANGED <<clientMaxRetries, harness, warmups, evalGate, genCtx,
                  rootCtx, interrupted, outcomes, monitor>>
  BY DEF Tick
<1>2. Longest' = Longest /\ Longest \in Nat
  BY <1>1, LongestStays, DrainOutlasts DEF LoadTypeOK
<1>3. \A a \in Loaders : /\ loaders[a] \in [pc: LoaderPcs, age: 0 .. Longest]
                         /\ loaders[a].age \in Nat
  BY <1>2 DEF LoadTypeOK
<1>4. \A a \in Loaders : InFlight(a) => loaders[a].age < Longest
  BY DEF Tick
<1>5. \A a \in Loaders :
        /\ loaders'[a] \in [pc: LoaderPcs, age: 0 .. Longest]
        /\ loaders'[a].pc = loaders[a].pc
        /\ loaders'[a].age = IF InFlight(a) THEN loaders[a].age + 1
                             ELSE loaders[a].age
  BY <1>2, <1>3, <1>4 DEF Tick
<1>6. loaders' \in [Loaders -> [pc: LoaderPcs, age: 0 .. Longest]]
  BY <1>5 DEF Tick
<1>7. waited' \in Nat BY DEF Tick, LoadTypeOK
<1>8. LoadTypeOK' BY <1>1, <1>2, <1>6, <1>7 DEF LoadTypeOK
<1>9. PastWarmup'
  BY <1>1, <1>5 DEF PastWarmup, LoadTypeOK, Loaders
<1>10. DrainsAll'
  <2>1. harness \notin {"stop", "done"} BY DEF Tick, DrainsAll, InFlight
  <2>2. ASSUME harness = "drain"
        PROVE  /\ waited' = waited + 1 /\ waited' <= Longest
               /\ \A a \in Loaders : InFlight(a)' => loaders'[a].age >= waited'
    <3>1. waited' = waited + 1 /\ waited \in Nat BY <2>2 DEF Tick, LoadTypeOK
    <3>2. PICK a \in Loaders : InFlight(a) BY DEF Tick
    <3>3. waited <= loaders[a].age BY <2>2, <3>2 DEF DrainsAll
    <3>4. waited' <= Longest BY <1>2, <1>3, <1>4, <3>1, <3>2, <3>3
    <3>5. ASSUME NEW b \in Loaders, InFlight(b)'
          PROVE  loaders'[b].age >= waited'
      <4>1. InFlight(b) BY <1>5, <3>5 DEF InFlight
      <4>2. loaders[b].age >= waited BY <2>2, <4>1 DEF DrainsAll
      <4> QED BY <1>3, <1>5, <3>1, <4>1, <4>2
    <3> QED BY <3>1, <3>4, <3>5
  <2> QED BY <1>1, <1>2, <2>1, <2>2 DEF DrainsAll
<1>11. RootOutlives' BY <1>1 DEF RootOutlives
<1> QED BY <1>8, <1>9, <1>10, <1>11

(* The harness's own steps. *)
LEMMA ProvidersWarmKeeps == ASSUME LoadInv, ProvidersWarm PROVE LoadInv'
<1> USE DEF LoadInv
<1>1. /\ harness = "providers" /\ harness' = "consumers"
      /\ UNCHANGED <<clientMaxRetries, warmups, evalGate, genCtx, rootCtx,
                     interrupted, outcomes, waited, monitor>>
      /\ LoadProviders \subseteq warmups
  BY DEF ProvidersWarm
<1>2. Longest' = Longest /\ Longest \in Nat
  BY <1>1, LongestStays, DrainOutlasts DEF LoadTypeOK
<1>3. /\ At("new") \in [pc: LoaderPcs, age: 0 .. Longest]
      /\ At("new").pc = "new"
  BY <1>2 DEF At, LoaderPcs
<1>4. /\ loaders' \in [Loaders -> [pc: LoaderPcs, age: 0 .. Longest]]
      /\ \A a \in LoadConsumers : loaders'[a].pc = "new"
      /\ \A a \in Loaders \ LoadConsumers : loaders'[a] = loaders[a]
  BY <1>3 DEF ProvidersWarm, LoadTypeOK, Loaders
<1>5. LoadTypeOK' BY <1>1, <1>2, <1>4 DEF LoadTypeOK, HarnessPcs
<1>6. \A a \in warmups : a \in Loaders \ LoadConsumers
  BY <1>1 DEF PastWarmup, LoadTypeOK
<1>7. PastWarmup' BY <1>1, <1>4, <1>6 DEF PastWarmup
<1>8. DrainsAll' /\ RootOutlives' BY <1>1 DEF DrainsAll, RootOutlives
<1> QED BY <1>5, <1>7, <1>8

(* So does every step of the run.                                          *)
LEMMA RunKeeps ==
    ASSUME LoadInv, collectWarmup \/ stopGenerators \/ stop \/ Snapshot
    PROVE  LoadInv'
<1> USE DEF LoadInv
<1>1. UNCHANGED <<clientMaxRetries, loaders, warmups, interrupted, outcomes,
                  monitor>>
  BY DEF collectWarmup, stopGenerators, stop, Snapshot
<1>2. Longest' = Longest /\ Longest \in Nat /\ drainTimeout > Longest
      /\ drainTimeout \in Nat
  BY <1>1, LongestStays, DrainOutlasts, LoadAssumption DEF LoadTypeOK
<1>3. CASE collectWarmup
  <2>1. LoadTypeOK' BY <1>1, <1>2, <1>3
          DEF LoadTypeOK, HarnessPcs, collectWarmup
  <2>2. PastWarmup' BY <1>1, <1>3 DEF collectWarmup, PastWarmup
  <2>3. DrainsAll' BY <1>1, <1>3 DEF collectWarmup, DrainsAll
  <2>4. RootOutlives' BY <1>1, <1>3 DEF collectWarmup, RootOutlives
  <2> QED BY <2>1, <2>2, <2>3, <2>4
<1>4. CASE stopGenerators
  <2>1. LoadTypeOK' BY <1>1, <1>2, <1>4
          DEF LoadTypeOK, HarnessPcs, stopGenerators
  <2>2. \A a \in Loaders : loaders'[a].age >= 0
    BY <1>1 DEF LoadTypeOK
  <2>3. DrainsAll'
    <3>1. harness' = "drain" /\ genCtx' = FALSE /\ waited' = 0
      BY <1>4 DEF stopGenerators
    <3>2. waited' <= Longest' BY <1>2, <3>1
    <3>3. \A a \in Loaders : loaders'[a].age >= waited' BY <2>2, <3>1
    <3> QED BY <3>1, <3>2, <3>3 DEF DrainsAll
  <2>4. PastWarmup' BY <1>1, <1>4 DEF stopGenerators, PastWarmup
  <2>5. RootOutlives' BY <1>1, <1>4 DEF stopGenerators, RootOutlives
  <2> QED BY <2>1, <2>3, <2>4, <2>5
<1>5. CASE stop
  <2>1. LoadTypeOK' BY <1>1, <1>2, <1>5 DEF LoadTypeOK, HarnessPcs, stop
  <2>2. \A a \in Loaders : loaders[a].pc = "ended"
    <3>1. waited <= Longest /\ waited \in Nat
      BY <1>5 DEF stop, DrainsAll, LoadTypeOK
    <3>2. ~ (waited >= drainTimeout) BY <1>2, <3>1
    <3> QED BY <1>5, <3>2 DEF stop, waitWithTimeout
  <2>3. PastWarmup' BY <1>1, <1>5 DEF stop, PastWarmup
  <2>4. DrainsAll' BY <1>1, <1>5, <2>2 DEF stop, DrainsAll
  <2>5. RootOutlives'
    <3>1. harness' = "stop" BY <1>5 DEF stop
    <3> QED BY <1>1, <3>1 DEF RootOutlives
  <2> QED BY <2>1, <2>3, <2>4, <2>5
<1>6. CASE Snapshot
  <2>1. LoadTypeOK' BY <1>1, <1>2, <1>6 DEF LoadTypeOK, HarnessPcs, Snapshot
  <2>2. monitor = "ended"
    <3>1. waited = 0 BY <1>6 DEF Snapshot, DrainsAll
    <3>2. ~ (waited >= DrainSlack) BY <3>1, LoadAssumption
    <3> QED BY <1>6, <3>2 DEF Snapshot, waitWithTimeout
  <2>3. PastWarmup' BY <1>1, <1>6 DEF Snapshot, PastWarmup
  <2>4. DrainsAll' BY <1>1, <1>6, <2>2 DEF Snapshot, DrainsAll
  <2>5. RootOutlives' BY <1>1, <1>6 DEF Snapshot, RootOutlives
  <2> QED BY <2>1, <2>3, <2>4, <2>5
<1> QED BY <1>3, <1>4, <1>5, <1>6

(* The invariant holds at the start and is kept by every step.             *)
LEMMA LoadInvariant == LoadSpec => []LoadInv
<1>1. LoadInit => LoadInv
  <2> SUFFICES ASSUME LoadInit PROVE LoadInv OBVIOUS
  <2>1. clientMaxRetries \in Nat /\ waited \in Nat BY DEF LoadInit
  <2>2. Longest \in Nat BY <2>1, DrainOutlasts
  <2>3. \A pc \in LoaderPcs : /\ At(pc) \in [pc: LoaderPcs, age: 0 .. Longest]
                              /\ At(pc).pc = pc
    BY <2>2 DEF At
  <2>4. loaders \in [Loaders -> [pc: LoaderPcs, age: 0 .. Longest]]
    BY <2>3 DEF LoadInit, LoaderPcs
  <2>5. \A a \in LoadConsumers : loaders[a].pc = "none"
    <3>1. "none" \in LoaderPcs BY DEF LoaderPcs
    <3> QED BY <2>3, <3>1, LoadAssumption DEF LoadInit, Loaders
  <2>6. LoadTypeOK BY <2>1, <2>4 DEF LoadInit, LoadTypeOK, HarnessPcs
  <2> QED
    BY <2>5, <2>6 DEF LoadInit, LoadInv, PastWarmup, DrainsAll, RootOutlives
<1>2. LoadInv /\ [LoadNext]_LoadVars => LoadInv'
  <2> SUFFICES ASSUME LoadInv, [LoadNext]_LoadVars PROVE LoadInv' OBVIOUS
  <2>1. CASE LoadNext
    BY <2>1, LoaderStep, LoaderKeeps, ProvidersWarmKeeps, RunKeeps,
       AroundLoad, TickKeeps DEF LoadNext, run
  <2>2. CASE UNCHANGED LoadVars
    BY <2>2, LongestStays
       DEF LoadVars, LoadInv, LoadTypeOK, PastWarmup, DrainsAll, RootOutlives,
           InFlight
  <2> QED BY <2>1, <2>2
<1> QED BY <1>1, <1>2, PTL DEF LoadSpec

(* The summary of a load test is complete, for any number of agents and    *)
(* whatever the client's retries and timeouts are: when the records are    *)
(* summed up no goroutine is left that could add one, and an undisturbed   *)
(* run cuts off no request (drainTimeout, stop and Snapshot in run).       *)
THEOREM SummaryComplete == LoadSpec => []SummaryIsComplete
<1>1. LoadInv => SummaryIsComplete
  BY DEF LoadInv, PastWarmup, DrainsAll, RootOutlives, SummaryIsComplete
<1> QED BY <1>1, LoadInvariant, PTL

-----------------------------------------------------------------------------
(* The experiments together.                                               *)

(* A behaviour of the composition is one of each experiment.               *)
LEMMA EachExperiment == Spec => ComparisonSpec /\ ReplaySpec /\ LoadSpec
<1>1. Init => ComparisonInit /\ ReplayInit /\ LoadInit BY DEF Init
<1>2. [Next]_vars => [ComparisonNext]_ComparisonVars
  BY DEF Next, NextCM, NextRP, NextLT, vars
<1>3. [Next]_vars => [ReplayNext]_ReplayVars
  BY DEF Next, NextCM, NextRP, NextLT, vars
<1>4. [Next]_vars => [LoadNext]_LoadVars
  BY DEF Next, NextCM, NextRP, NextLT, vars
<1> QED
  BY <1>1, <1>2, <1>3, <1>4, PTL
  DEF Spec, ComparisonSpec, ReplaySpec, LoadSpec

(* Every component keeps to its types, through all interrupts, failures    *)
(* and retries of the comparative experiments, their refreshers and the    *)
(* load test.                                                              *)
THEOREM ExperimentTypes == Spec => []TypeOK
<1>1. Init => part \in Parts BY DEF Init
<1>2. part \in Parts /\ [Next]_vars => (part \in Parts)'
  BY DEF Next, NextCM, NextRP, NextLT, vars
<1>3. part \in Parts /\ ComparisonInv /\ ReplayInv /\ LoadInv => TypeOK
  BY DEF ComparisonInv, ReplayInv, LoadInv, TypeOK
<1> QED
  BY <1>1, <1>2, <1>3, EachExperiment, ComparisonInvariant, ReplayInvariant,
     LoadInvariant, PTL
  DEF Spec
=============================================================================
