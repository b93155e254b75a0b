----------------------------- MODULE Federation -----------------------------
(***************************************************************************)
(* The constants of a deployment that the component modules of the         *)
(* consumer cluster, the agents and the Broker's front end share, with     *)
(* what the components rely on.                                            *)
(***************************************************************************)
EXTENDS Naturals, FiniteSets

CONSTANTS
    Providers,      \* provider cluster ids; numbers, for their lexical order
    Candidates,     \* provider cluster ids in a placement decision, likewise
    NoProvider,     \* an empty ProviderClusterID
    MaxMigrations,  \* bound on the migrations of one ResourceRequest
    MaxFaults       \* bound on lost replies, failed writes and crashes

ASSUME FederationAssumption ==
    /\ IsFiniteSet(Providers) /\ Providers \subseteq Nat
    /\ NoProvider \notin Providers
    /\ IsFiniteSet(Candidates) /\ Candidates \subseteq Nat
    /\ MaxMigrations \in Nat /\ MaxFaults \in Nat
=============================================================================
