------------------------ MODULE ConsumerChoiceProofs ------------------------
(***************************************************************************)
(* Proof that a view under ConsumerChoice is the consumer's choice, for    *)
(* any prompts, handlers and providers.  A cached ranking is always one    *)
(* for the prompt it is cached under: a new prompt empties the cache, and  *)
(* a selection is stored only while its prompt is still the current one.   *)
(***************************************************************************)
EXTENDS ConsumerChoice, FiniteSetTheorems, TLAPS

(* The cache, and a selection under way, as records.                       *)
Fields == {"prompt", "result", "fresh", "asked", "answers", "running",
           "task", "groups"}

Matched == ai.result # <<>> => ai.answers = ai.prompt

IInv == DOMAIN ai = Fields /\ Matched /\ ViewIsTheChoice

(* maskToFirstAvailable leaves one provider at most.                       *)
LEMMA OneLeft ==
    ASSUME NEW view, NEW ranked
    PROVE  Cardinality(maskToFirstAvailable(view, ranked)) \in {0, 1}
<1> DEFINE i == SelectInSeq(ranked, LAMBDA p : p \in view)
<1>1. \/ maskToFirstAvailable(view, ranked) = {}
      \/ maskToFirstAvailable(view, ranked) = {ranked[i]}
  BY DEF maskToFirstAvailable
<1>2. Cardinality({}) = 0 BY FS_EmptySet
<1>3. Cardinality({ranked[i]}) = 1 BY FS_Singleton
<1> QED BY <1>1, <1>2, <1>3

(* A view that follows a matching ranking, or masks everything.            *)
LEMMA ServedChoice ==
    ASSUME NEW view, NEW stale, Serve(view, stale), ~stale,
           Cardinality(view) \in {0, 1}
    PROVE  ViewIsTheChoice'
BY DEF Serve, ViewIsTheChoice

(* Under the lock: what is left in the cache is for the prompt just read.  *)
LEMMA ForPromptMatches ==
    ASSUME IInv, NEW q
    PROVE  /\ DOMAIN ForPrompt(q) = Fields /\ ForPrompt(q).prompt = q
           /\ ForPrompt(q).result # <<>> => ForPrompt(q).answers = q
BY DEF IInv, Matched, ForPrompt, Fields

(* A request under the lock.                                               *)
LEMMA LockedStep ==
    ASSUME IInv, NEW h \in Handlers, Locked(h)
    PROVE  IInv'
<1> DEFINE q == requests[h]
           a == ForPrompt(q)
<1>1. /\ DOMAIN a = Fields /\ a.prompt = q
      /\ a.result # <<>> => a.answers = q
  BY ForPromptMatches
<1>2. PICK view \in Fetched :
         IF a.fresh /\ a.result # <<>>
         THEN /\ ai' = [a EXCEPT !.asked = TRUE]
              /\ Serve(maskToFirstAvailable(view, a.result), a.answers # q)
         ELSE /\ ai' = IF a.running THEN a
                       ELSE [a EXCEPT !.running = TRUE, !.task = q,
                                      !.groups = view]
              /\ Serve({}, FALSE)
  BY DEF Locked
<1> HIDE DEF a, q
<1>3. CASE a.fresh /\ a.result # <<>>
  <2>1. a.answers = q BY <1>1, <1>3
  <2>2. ViewIsTheChoice' BY <1>2, <1>3, <2>1, OneLeft, ServedChoice
  <2>3. DOMAIN ai' = Fields /\ Matched'
    BY <1>1, <1>2, <1>3 DEF Fields, Matched
  <2> QED BY <2>2, <2>3 DEF IInv
<1>4. CASE ~(a.fresh /\ a.result # <<>>)
  <2>1. Cardinality({}) = 0 BY FS_EmptySet
  <2>2. ViewIsTheChoice' BY <1>2, <1>4, <2>1, ServedChoice
  <2>3. DOMAIN ai' = Fields /\ Matched'
    BY <1>1, <1>2, <1>4 DEF Fields, Matched
  <2> QED BY <2>2, <2>3 DEF IInv
<1> QED BY <1>3, <1>4

(* The end of a selection, and of the cache's sixty seconds.               *)
LEMMA SelectionStep ==
    ASSUME IInv, Finish \/ Expire
    PROVE  IInv'
<1>1. served' = served BY DEF Finish, Expire
<1>2. DOMAIN ai' = Fields /\ Matched'
  <2>1. CASE Expire
    BY <2>1 DEF Expire, IInv, Matched, Fields
  <2>2. CASE Finish /\ ai.prompt # ai.task
    BY <2>2 DEF Finish, Stopped, IInv, Matched, Fields
  <2>3. CASE Finish /\ ai.prompt = ai.task
    <3>1. PICK ranked : ai' = Stopped(Selected(ranked))
      BY <2>3 DEF Finish
    <3>2. ai'.answers = ai.task /\ ai'.prompt = ai.prompt
          /\ DOMAIN ai' = Fields
      BY <3>1 DEF Stopped, Selected, IInv, Fields
    <3> QED BY <2>3, <3>2 DEF Matched
  <2> QED BY <2>1, <2>2, <2>3
<1> QED BY <1>1, <1>2 DEF IInv, ViewIsTheChoice

-----------------------------------------------------------------------------
(* Every view written under ConsumerChoice follows a ranking for the       *)
(* prompt its request read, and leaves CA one provider to grow at most     *)
(* (handleNodeGroups, maskToFirstAvailable, the discarded selection).      *)
THEOREM ChoiceIsTheConsumers == ChoiceSpec => []ViewIsTheChoice
<1>1. ChoiceInit => IInv
  BY DEF ChoiceInit, IInv, Matched, ViewIsTheChoice, Fields
<1>2. IInv /\ [ChoiceNext]_ChoiceVars => IInv'
  <2> SUFFICES ASSUME IInv, [ChoiceNext]_ChoiceVars PROVE IInv' OBVIOUS
  <2>1. CASE Plain
    <3>1. ViewIsTheChoice' BY <2>1, OneLeft, ServedChoice DEF Plain
    <3> QED BY <2>1, <3>1 DEF Plain, IInv, Matched
  <2>2. CASE UNCHANGED <<ai, served>>
    BY <2>2 DEF IInv, Matched, ViewIsTheChoice
  <2> QED
    BY <2>1, <2>2, LockedStep, SelectionStep
       DEF ChoiceNext, Handle, ReadPolicy, PolicyChanges, BrokerLearns,
           RoomChanges, ChoiceVars
<1>3. IInv => ViewIsTheChoice BY DEF IInv
<1> QED BY <1>1, <1>2, <1>3, PTL DEF ChoiceSpec
=============================================================================
