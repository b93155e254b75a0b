--------------------------- MODULE ConsumerChoice ---------------------------
(***************************************************************************)
(* The consumer agent's GET /local/nodegroups under the ConsumerChoice     *)
(* policy: concurrent handlers, the background selection by a language     *)
(* model that takes longer than any request, the cached ranking and the    *)
(* operator who changes the policy and its prompt meanwhile.               *)
(*                                                                         *)
(* A handler reads the node groups and the policy, and then takes aiMutex. *)
(* The policy read and the locked part are steps of their own.  A view is  *)
(* the set of providers it leaves growable; its age changes nothing in     *)
(* what is masked, so it is taken with the last step.  Sixty seconds of    *)
(* cache life are longer than the scan interval of the Cluster Autoscaler  *)
(* (CA), so a ranking is asked for before it expires.                      *)
(***************************************************************************)
EXTENDS Federation, SequencesExt

CONSTANTS
    Handlers,    \* concurrent requests
    Prompts,     \* userPrompt values
    NoPrompt     \* no selection, no ranking

VARIABLES
    policy,      \* the ConsumerPolicy: a prompt, or NoPrompt (another type)
    applied,     \* AppliedPlacement of the Broker is ConsumerChoice
    room,        \* providers with head-room
    ai,          \* aiPrompt, aiResult, aiTimestamp and the running selection
    requests,    \* [Handlers -> MaybePrompt]: the prompt a handler waiting for
                 \* aiMutex has read; NoPrompt: idle
    served       \* the last view written under ConsumerChoice

ChoiceVars == <<policy, applied, room, ai, requests, served>>

MaybePrompt == Prompts \cup {NoPrompt}
Rankings == UNION {SetToAllKPermutations(S) : S \in SUBSET Providers}

(* running: aiRunning, with the prompt and candidates its goroutine holds. *)
(* answers: history, the prompt aiResult was made for.  asked: a handler   *)
(* used aiResult.                                                          *)
AIStates ==
    [prompt: MaybePrompt, result: Rankings, fresh: BOOLEAN, asked: BOOLEAN,
     answers: MaybePrompt, running: BOOLEAN, task: MaybePrompt,
     groups: SUBSET Providers]

(* grow: how many providers it leaves growable; stale: it follows a        *)
(* ranking for another prompt than the one read.                           *)
Views == [grow: 0 .. Cardinality(Providers), stale: BOOLEAN]

ChoiceInit ==
    /\ policy = NoPrompt /\ applied = FALSE /\ room = {}
    /\ ai = [prompt |-> NoPrompt, result |-> <<>>, fresh |-> FALSE,
             asked |-> FALSE, answers |-> NoPrompt, running |-> FALSE,
             task |-> NoPrompt, groups |-> {}]
    /\ requests = [h \in Handlers |-> NoPrompt]
    /\ served = [grow |-> 0, stale |-> FALSE]

-----------------------------------------------------------------------------
(* Rankings.                                                               *)

(* DeterministicFallback: cost, carbon and free chunks give some order of  *)
(* the providers with capacity, here that of their names.                  *)
DeterministicFallback(groups) == SetToSortSeq(groups, <)

(* SelectDetailed: an error, or a ranking of some of the candidates, known *)
(* and without repetition.  A single candidate is not asked about.         *)
SelectDetailed(groups) ==
    IF Cardinality(groups) = 1 THEN {DeterministicFallback(groups)}
    ELSE SetToAllKPermutations(groups)                    \* <<>> is an error

(* completeRanking: candidates the model left out come last.               *)
completeRanking(ranked, groups) ==
    ranked \o DeterministicFallback(groups \ ToSet(ranked))

(* maskToFirstAvailable: what stays growable. *)
maskToFirstAvailable(view, ranked) ==
    LET i == SelectInSeq(ranked, LAMBDA p : p \in view)
    IN IF i = 0 THEN {} ELSE {ranked[i]}

-----------------------------------------------------------------------------
(* handleNodeGroups.                                                       *)

Serve(view, stale) == served' = [grow |-> Cardinality(view), stale |-> stale]

(* nodeGroups, from the Broker or the brain, and maskToMeasuredWinner: all *)
(* that has head-room, or what the policy applied left of it.              *)
Fetched == IF applied THEN {room} ELSE SUBSET room

(* No model decision, for want of a model or because the policy is another *)
(* or could not be read: pick deterministically when the Broker left the   *)
(* choice to the consumer.  (Other views are passed through.)              *)
Plain ==
    /\ applied
    /\ Serve(maskToFirstAvailable(room, DeterministicFallback(room)), FALSE)
    /\ UNCHANGED <<policy, applied, room, ai, requests>>

(* currentConsumerChoice, up to the lock. *)
ReadPolicy(h) ==
    /\ requests[h] = NoPrompt /\ policy # NoPrompt
    /\ requests' = [requests EXCEPT ![h] = policy]
    /\ UNCHANGED <<policy, applied, room, ai, served>>

(* A new prompt clears the cache. *)
ForPrompt(prompt) ==
    IF ai.prompt = prompt THEN ai
    ELSE [ai EXCEPT !.prompt = prompt, !.result = <<>>, !.fresh = FALSE,
                    !.asked = FALSE, !.answers = NoPrompt]

(* Under aiMutex: a fresh ranking decides; otherwise a selection is        *)
(* started unless one is running, and everything is masked.                *)
Locked(h) ==
    LET a == ForPrompt(requests[h]) IN
    /\ requests[h] # NoPrompt
    /\ \E view \in Fetched :
         IF a.fresh /\ a.result # <<>>
         THEN /\ ai' = [a EXCEPT !.asked = TRUE]
              /\ Serve(maskToFirstAvailable(view, a.result),
                       a.answers # requests[h])
         ELSE /\ ai' = IF a.running THEN a
                       ELSE [a EXCEPT !.running = TRUE, !.task = requests[h],
                                      !.groups = view]
              /\ Serve({}, FALSE)
    /\ requests' = [requests EXCEPT ![h] = NoPrompt]
    /\ UNCHANGED <<policy, applied, room>>

-----------------------------------------------------------------------------
(* The background selection.                                               *)

Selected(ranked) ==
    [ai EXCEPT !.result = completeRanking(ranked, ai.groups), !.fresh = TRUE,
               !.asked = FALSE, !.answers = ai.task]
Stopped(a) == [a EXCEPT !.running = FALSE, !.task = NoPrompt, !.groups = {}]

(* Mutant: whatever was asked, the answer is kept. *)
FinishUnchecked ==
    /\ ai.running
    /\ \E ranked \in SelectDetailed(ai.groups) :
          ai' = Stopped(Selected(ranked))
    /\ UNCHANGED <<policy, applied, room, requests, served>>

(* Mutant: a discarded selection leaves aiRunning set. *)
FinishStuck ==
    /\ ai.running /\ ai.prompt = ai.task
    /\ \E ranked \in SelectDetailed(ai.groups) :
          ai' = Stopped(Selected(ranked))
    /\ UNCHANGED <<policy, applied, room, requests, served>>

(* The goroutine ends: an answer to a prompt that has changed is dropped.  *)
Finish ==
    /\ ai.running
    /\ IF ai.prompt # ai.task THEN ai' = Stopped(ai)
       ELSE \E ranked \in SelectDetailed(ai.groups) :
               ai' = Stopped(Selected(ranked))
    /\ UNCHANGED <<policy, applied, room, requests, served>>

(* Sixty seconds pass since aiTimestamp. *)
Expire ==
    /\ ai.fresh /\ ai.asked
    /\ ai' = [ai EXCEPT !.fresh = FALSE, !.asked = FALSE]
    /\ UNCHANGED <<policy, applied, room, requests, served>>

-----------------------------------------------------------------------------
(* The operator edits the policy; a heartbeat carries it to the Broker.    *)
PolicyChanges ==
    /\ policy' \in MaybePrompt \ {policy}
    /\ UNCHANGED <<applied, room, ai, requests, served>>

BrokerLearns ==
    /\ applied' = (policy # NoPrompt) /\ applied' # applied
    /\ UNCHANGED <<policy, room, ai, requests, served>>

(* Chunks are booked and freed, providers come and go.                     *)
RoomChanges ==
    /\ room' \in SUBSET Providers \ {room}
    /\ UNCHANGED <<policy, applied, ai, requests, served>>

Handle(h) == ReadPolicy(h) \/ Locked(h)

ChoiceNext ==
    \/ \E h \in Handlers : Handle(h)
    \/ Plain \/ Finish \/ Expire
    \/ PolicyChanges \/ BrokerLearns \/ RoomChanges

ChoiceSpec == ChoiceInit /\ [][ChoiceNext]_ChoiceVars

(* CA keeps asking and the policy read does not fail for ever, a handler   *)
(* that started ends, the model call times out at the latest, time and     *)
(* heartbeats go on.                                                       *)
ChoiceFairness ==
    /\ \A h \in Handlers : WF_ChoiceVars(Handle(h))
    /\ WF_ChoiceVars(Finish) /\ WF_ChoiceVars(Expire)
    /\ WF_ChoiceVars(BrokerLearns)

ChoiceFairSpec == ChoiceSpec /\ ChoiceFairness

-----------------------------------------------------------------------------
ChoiceTypeOK ==
    /\ policy \in MaybePrompt /\ applied \in BOOLEAN
    /\ room \subseteq Providers
    /\ ai \in AIStates
    /\ requests \in [Handlers -> MaybePrompt]
    /\ served \in Views

(* A view under ConsumerChoice is the consumer's choice.  One that follows *)
(* a ranking follows one that was made for the prompt the request read,    *)
(* however prompts change while the model answers and whichever handler    *)
(* takes the lock first; and none leaves CA two providers to grow at once: *)
(* not while the Broker lags behind the policy, not when the policy cannot *)
(* be read, not without a model.                                           *)
ViewIsTheChoice == ~served.stale /\ served.grow <= 1

(* CA is not held for ever: with the prompt and the head-room settled, a   *)
(* provider is offered again and again (the 60 s cache, completeRanking    *)
(* and the restart after a discarded selection).                           *)
ChoiceIsServed ==
    \A q \in Prompts, R \in SUBSET Providers \ {{}} :
        <>[](policy = q /\ applied /\ room = R) => []<>(served.grow > 0)
=============================================================================
