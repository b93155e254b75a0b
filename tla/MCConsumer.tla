----------------------------- MODULE MCConsumer -----------------------------
(***************************************************************************)
(* Model checking of two control loops of a consumer cluster: the          *)
(* controller of ResourceRequests and the ConsumerChoice selection.  Their *)
(* specifications share no variable, so that nothing is learnt from        *)
(* interleaving their steps: `part` says which of them a behaviour is one  *)
(* of, and the others stay as they start.                                  *)
(***************************************************************************)
EXTENDS ResourceRequests, ConsumerChoice

(* What the agent's list may say of a provider: not listed, full, room for *)
(* the request at either metric, chunks too small for it, no metric.       *)
View(l, a, c, m) == [listed |-> l, avail |-> a, chunk |-> c, metric |-> m]
SmallGroupViews ==
    {View(FALSE, 0, 2, 0), View(TRUE, 0, 2, 1), View(TRUE, 1, 2, 1),
     View(TRUE, 1, 2, 2), View(TRUE, 2, 1, 1), View(TRUE, 1, 2, 0)}

VARIABLE part   \* the specification a behaviour is one of

vars == <<part, RequestVars, ChoiceVars>>

Parts == {"RR", "CC"}

Init ==
    /\ part \in Parts
    /\ RequestInit /\ ChoiceInit

NextRR ==
    /\ part = "RR" /\ RequestNext
    /\ UNCHANGED <<part, ChoiceVars>>

NextCC ==
    /\ part = "CC" /\ ChoiceNext
    /\ UNCHANGED <<part, RequestVars>>

Next ==
    \/ NextRR \/ NextCC

(* The fairness the specifications state.                                  *)
Fairness ==
    /\ WF_RequestVars(part = "RR" /\ Reconcile)
    /\ WF_RequestVars(part = "RR" /\ Sync)
    /\ \A h \in Handlers : WF_ChoiceVars(part = "CC" /\ Handle(h))
    /\ WF_ChoiceVars(part = "CC" /\ Finish)
    /\ WF_ChoiceVars(part = "CC" /\ Expire)
    /\ WF_ChoiceVars(part = "CC" /\ BrokerLearns)

Spec == Init /\ [][Next]_vars
FairSpec == Spec /\ Fairness
=============================================================================
