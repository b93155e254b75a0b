--------------------------- MODULE MCExperiments ----------------------------
(***************************************************************************)
(* Model checking of the experiments kept with the code: the comparative   *)
(* experiments, their environment and the load test.  Their specifications *)
(* share no variable, so that nothing is learnt from interleaving their    *)
(* steps: `part` says which of them a behaviour is one of, and the others  *)
(* stay as they start.                                                     *)
(***************************************************************************)
EXTENDS Comparison, Replay, LoadTest, TLC

(* The experiments that are run. *)
Plan(s, m, t) == [suite |-> s, mode |-> m, timed |-> t]
Plans ==
    {Plan("eco", "reserve", FALSE), Plan("latency", "reserve", TRUE),
     Plan("eco", "observe", TRUE), Plan("latency", "observe", FALSE)}

VARIABLE part   \* the specification a behaviour is one of

vars == <<part, ComparisonVars, ReplayVars, LoadVars>>

Parts == {"CM", "RP", "LT"}

(* What is looked at is a choice only in the behaviours about it.          *)
Init ==
    /\ part \in Parts
    /\ ComparisonInit /\ ReplayInit /\ LoadInit
    /\ plan \in IF part = "CM" THEN Plans ELSE {Plan("eco", "observe", TRUE)}
    /\ part # "RP" => suite = "eco"
    /\ part # "LT" => clientMaxRetries = 0 /\ monitor = "idle"

NextCM ==
    /\ part = "CM" /\ ComparisonNext
    /\ UNCHANGED <<part, ReplayVars, LoadVars>>

NextRP ==
    /\ part = "RP" /\ ReplayNext
    /\ UNCHANGED <<part, ComparisonVars, LoadVars>>

NextLT ==
    /\ part = "LT" /\ LoadNext
    /\ UNCHANGED <<part, ComparisonVars, ReplayVars>>

Next ==
    \/ NextCM \/ NextRP \/ NextLT

Spec == Init /\ [][Next]_vars

(* The consumers of an experiment are alike.                               *)
Interchangeable == Permutations(Testers)

-----------------------------------------------------------------------------
(* Every component keeps to its types.                                     *)
TypeOK ==
    /\ part \in Parts
    /\ part = "CM" => ComparisonTypeOK
    /\ part = "RP" => ReplayTypeOK
    /\ part = "LT" => LoadTypeOK
=============================================================================
