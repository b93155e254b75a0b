---------------------------- MODULE AdmissionGate ----------------------------
(***************************************************************************)
(* What the Broker promises about a provider's capacity: a reservation is  *)
(* admitted only while fewer chunks are out than the provider offers, and  *)
(* chunks come back one at a time.  Nothing is said about who returns a    *)
(* chunk or how often; see ChunkLedger for that.                           *)
(***************************************************************************)
EXTENDS Naturals

VARIABLES offered, out

TypeOK == offered \in Nat /\ out \in Nat

Init == offered = 0 /\ out = 0

Admit ==
    /\ out < offered
    /\ out' = out + 1
    /\ UNCHANGED offered

Return ==
    /\ out > 0
    /\ out' = out - 1
    /\ UNCHANGED offered

(* The provider reports its capacity anew, possibly below what is out.     *)
Report ==
    /\ offered' \in Nat
    /\ UNCHANGED out

Next == Admit \/ Return \/ Report

Spec == Init /\ [][Next]_<<offered, out>>
=============================================================================
