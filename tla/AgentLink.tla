----------------------------- MODULE AgentLink ------------------------------
(***************************************************************************)
(* A consumer agent's calls to the Broker: the retry loop of the HTTP      *)
(* client every endpoint goes through, the 15 s heartbeat, the booking of  *)
(* a reservation through the agent's local API, and what the Broker's      *)
(* front end does with them.  The Broker keeps the consumer's heartbeat in *)
(* memory only: a restart loses it, and until the next one arrives a       *)
(* booking is refused.                                                     *)
(*                                                                         *)
(* An answer can be lost, a request the client gave up on can still be     *)
(* served later, and a caller of the local API can hang up at any time.    *)
(***************************************************************************)
EXTENDS Federation

CONSTANTS
    Placements,     \* placement policies of the consumer
    NoPlacement,    \* no ConsumerPolicy: the Broker's default applies
    NoEntry,        \* the consumer is not in the Broker's registry
    MaxRetries,     \* Client.maxRetries
    MaxCalls        \* bound on the bookings asked of the local API

VARIABLES
    placement,      \* what the ConsumerPolicy says now, if there is one
    registry,       \* ConsumerRegistry: the placement of the last heartbeat
    calls,          \* the heartbeat's and the booking's call of Client.do
    late,           \* requests given up on that can still reach the Broker
    asked,          \* bookings asked of the local API so far
    booked,         \* Reservations at the Broker: the call and the key
    provider,       \* the provider as the Broker sees it
    full,           \* FullProviders of the consumer's own brain
    linkFaults      \* lost answers, failures and restarts so far

LinkVars == <<placement, registry, calls, late, asked, booked, provider, full,
          linkFaults>>

Senders == {"beat", "book"}
Calls == 1 .. MaxCalls
Pushed == Placements \cup {NoPlacement}

(* A request: the policy a heartbeat carries, or the booking it is for and *)
(* its idempotency key (X-Reservation-Id).                                 *)
Beats == [who: {"beat"}, placement: Pushed]
Bookings == [call: Calls, key: Calls \X (0 .. MaxRetries)]
Requests == Beats \cup [who: {"book"}, booking: Bookings]
NoRequest == [who |-> "none"]

Idle == [pc |-> "idle", try |-> 0, request |-> NoRequest]

LinkInit ==
    /\ placement = NoPlacement
    /\ registry = NoEntry
    /\ calls = [w \in Senders |-> Idle]
    /\ late = {}
    /\ asked = 0
    /\ booked = {}
    /\ provider = [available |-> TRUE, free |-> 1]
    /\ full = FALSE
    /\ linkFaults = 0

LinkFault ==
    /\ linkFaults < MaxFaults
    /\ linkFaults' = linkFaults + 1

----------------------------------------------------------------------------
(* What the Broker does with a request *)

(* Touch overwrites the whole entry of the consumer.                       *)
Touch(m) ==
    /\ registry' = m.placement
    /\ UNCHANGED <<booked, provider>>

(* handleReservationCreate, in the order of its checks: the heartbeat, the *)
(* advertisement, a Reservation of that name, the chunk ledger.            *)
Outcome(b) ==
    CASE registry = NoEntry                            -> "PreconditionFailed"
      [] registry # NoEntry /\ ~provider.available     -> "Transient"
      [] registry # NoEntry /\ provider.available      ->
             IF \E r \in booked : r.key = b.key THEN "ok"
             ELSE IF provider.free = 0 THEN "InsufficientCapacity"
             ELSE "created"

(* Mutant: capacity is looked at before the Reservation of that name.      *)
handleReservationCreateCapacityFirst(b, category) ==
    /\ category = IF Outcome(b) = "ok" /\ provider.free = 0
                  THEN "InsufficientCapacity"
                  ELSE IF Outcome(b) = "created" THEN "ok" ELSE Outcome(b)
    /\ IF Outcome(b) = "created"
       THEN /\ booked' = booked \cup {b}
            /\ provider' = [provider EXCEPT !.free = @ - 1]
       ELSE UNCHANGED <<booked, provider>>

handleReservationCreate(b, category) ==
    /\ category = IF Outcome(b) = "created" THEN "ok" ELSE Outcome(b)
    /\ IF Outcome(b) = "created"
       THEN /\ booked' = booked \cup {b}
            /\ provider' = [provider EXCEPT !.free = @ - 1]
       ELSE UNCHANGED <<booked, provider>>

(* Serving a request, and the category of its answer.                      *)
Serve(m, category) ==
    \/ m.who = "beat" /\ category = "ok" /\ Touch(m)
    \/ /\ m.who = "book"
       /\ handleReservationCreate(m.booking, category)
       /\ UNCHANGED registry

Categories == {"ok", "Transient", "PreconditionFailed", "InsufficientCapacity",
               "TooManyRequests"}

----------------------------------------------------------------------------
(* The client *)

(* The rest of one turn of the loop of do: only a transient failure is     *)
(* retried, and at most MaxRetries times.                                  *)
Turn(c, category) ==
    IF category = "Transient" /\ c.try < MaxRetries
    THEN [c EXCEPT !.pc = "sleep", !.try = @ + 1]
    ELSE Idle

(* The answer of an attempt.  When do returns, the local API tells the     *)
(* brain, which marks a provider full when the Broker refused for capacity *)
(* and for nothing else.                                                   *)
Do(w, category) ==
    /\ calls' = [calls EXCEPT ![w] = Turn(@, category)]
    /\ full' = (full \/ (w = "book" /\ category = "InsufficientCapacity"))

(* Mutant: the key is minted for each attempt.                             *)
KeyPerAttempt(n, try) == <<n, try>>

(* The local API mints the key once, before do is called.                  *)
Key(n, try) == <<n, 0>>

(* Mutant: the policy is read once, when the agent starts.                 *)
beatOnceCached ==
    /\ calls["beat"].pc = "idle"
    /\ \E p \in Pushed :
           calls' = [calls EXCEPT !["beat"] =
                        [pc |-> "send", try |-> 0,
                         request |-> [who |-> "beat", placement |->
                             IF registry = NoEntry THEN p ELSE registry]]]
    /\ UNCHANGED <<placement, registry, late, asked, booked, provider, full,
                   linkFaults>>

(* A tick of the heartbeat: the policy is read now, and a failed read      *)
(* sends none.                                                             *)
beatOnce ==
    /\ calls["beat"].pc = "idle"
    /\ \E p \in Pushed :
           /\ calls' = [calls EXCEPT !["beat"] =
                           [pc |-> "send", try |-> 0,
                            request |-> [who |-> "beat", placement |-> p]]]
           /\ \/ p = placement /\ UNCHANGED linkFaults
              \/ p = NoPlacement /\ LinkFault
    /\ UNCHANGED <<placement, registry, late, asked, booked, provider, full>>

(* A booking is asked of the agent's local API.                            *)
PostReservation ==
    /\ calls["book"].pc = "idle" /\ asked < MaxCalls
    /\ asked' = asked + 1
    /\ calls' = [calls EXCEPT !["book"] =
                    [pc |-> "send", try |-> 0,
                     request |-> [who |-> "book", booking |->
                         [call |-> asked + 1, key |-> Key(asked + 1, 0)]]]]
    /\ UNCHANGED <<placement, registry, late, booked, provider, full,
                   linkFaults>>

(* The request of this attempt: the same header each time.                 *)
Sent(w) ==
    LET c == calls[w]
    IN  IF w = "beat" THEN c.request
        ELSE [c.request EXCEPT !.booking.key =
                                   Key(c.request.booking.call, c.try)]

Attempt(w) ==
    /\ calls[w].pc = "send"
    /\ calls' = [calls EXCEPT ![w].pc = "wait", ![w].request = Sent(w)]
    /\ UNCHANGED <<placement, registry, late, asked, booked, provider, full,
                   linkFaults>>

(* The backoff between two attempts is over.                               *)
Wake(w) ==
    /\ calls[w].pc = "sleep"
    /\ calls' = [calls EXCEPT ![w].pc = "send"]
    /\ UNCHANGED <<placement, registry, late, asked, booked, provider, full,
                   linkFaults>>

(* The Broker serves the request and its answer arrives.                   *)
Answer(w) ==
    /\ calls[w].pc = "wait"
    /\ \E category \in Categories :
           Serve(calls[w].request, category) /\ Do(w, category)
    /\ UNCHANGED <<placement, late, asked, linkFaults>>

(* The Broker serves the request and its answer is lost.                   *)
AnswerLost(w) ==
    /\ calls[w].pc = "wait" /\ LinkFault
    /\ \E category \in Categories : Serve(calls[w].request, category)
    /\ Do(w, "Transient")
    /\ UNCHANGED <<placement, late, asked>>

(* The request is turned away before it changes anything: by the rate      *)
(* limiter, by a panic or a failure of the API server, or on the way.      *)
TurnedAway(w) ==
    /\ calls[w].pc = "wait" /\ LinkFault
    /\ \E category \in {"Transient", "TooManyRequests"} : Do(w, category)
    /\ UNCHANGED <<placement, registry, late, asked, booked, provider>>

(* The attempt times out with the request still on its way.                *)
GiveUp(w) ==
    /\ calls[w].pc = "wait" /\ LinkFault
    /\ late' = late \cup {calls[w].request}
    /\ Do(w, "Transient")
    /\ UNCHANGED <<placement, registry, asked, booked, provider>>

(* The caller of the local API hangs up: the request's context ends, and   *)
(* with it the loop.                                                       *)
HangUp ==
    /\ calls["book"].pc # "idle"
    /\ late' = late \cup (IF calls["book"].pc = "wait"
                          THEN {calls["book"].request} ELSE {})
    /\ calls' = [calls EXCEPT !["book"] = Idle]
    /\ UNCHANGED <<placement, registry, asked, booked, provider, full,
                   linkFaults>>

LateArrives ==
    /\ \E m \in late :
           /\ late' = late \ {m}
           /\ \E category \in Categories : Serve(m, category)
    /\ UNCHANGED <<placement, calls, asked, full, linkFaults>>

(* The Broker restarts: its registry and the requests it was serving are   *)
(* gone, the Reservations are not.                                         *)
Restart ==
    /\ LinkFault
    /\ registry' = NoEntry
    /\ late' = {}
    /\ calls' = [w \in Senders |->
                     IF calls[w].pc = "wait" THEN Turn(calls[w], "Transient")
                     ELSE calls[w]]
    /\ UNCHANGED <<placement, asked, booked, provider, full>>

----------------------------------------------------------------------------
(* Around the link *)

PolicyChanges ==
    /\ placement' \in Pushed \ {placement}
    /\ UNCHANGED <<registry, calls, late, asked, booked, provider, full,
                   linkFaults>>

(* The provider's advertisement goes stale or comes back, and its other    *)
(* chunks are taken and given back.                                        *)
ProviderChanges ==
    /\ provider' \in [available: BOOLEAN, free: 0 .. 1]
    /\ UNCHANGED <<placement, registry, calls, late, asked, booked, full,
                   linkFaults>>

(* FullCooldown is over.                                                   *)
FullExpires ==
    /\ full
    /\ full' = FALSE
    /\ UNCHANGED <<placement, registry, calls, late, asked, booked, provider,
                   linkFaults>>

Caller(w) == Attempt(w) \/ Wake(w) \/ Answer(w)

LinkNext ==
    \/ beatOnce \/ PostReservation \/ HangUp \/ LateArrives \/ Restart
    \/ PolicyChanges \/ ProviderChanges \/ FullExpires
    \/ \E w \in Senders :
           Caller(w) \/ AnswerLost(w) \/ TurnedAway(w) \/ GiveUp(w)

LinkSpec == LinkInit /\ [][LinkNext]_LinkVars

(* The ticker keeps firing, an attempt ends within the request timeout,    *)
(* and a backoff ends.                                                     *)
LinkFairness ==
    WF_LinkVars(beatOnce) /\ \A w \in Senders : WF_LinkVars(Caller(w))

LinkFairSpec == LinkSpec /\ LinkFairness

----------------------------------------------------------------------------
LinkTypeOK ==
    /\ placement \in Pushed
    /\ registry \in Pushed \cup {NoEntry}
    /\ calls \in [Senders -> [pc: {"idle", "send", "wait", "sleep"},
                              try: 0 .. MaxRetries,
                              request: Requests \cup {NoRequest}]]
    /\ late \subseteq Requests
    /\ asked \in 0 .. MaxCalls
    /\ booked \subseteq Bookings
    /\ provider \in [available: BOOLEAN, free: 0 .. 1]
    /\ full \in BOOLEAN
    /\ linkFaults \in 0 .. MaxFaults

(* One call of the local API books at most one Reservation, whatever was   *)
(* lost, repeated or served late in between and however often the Broker   *)
(* restarted: every attempt of do carries the key minted before the loop.  *)
OneBookingPerCall ==
    \A r, s \in booked : r.call = s.call => r = s

(* When the agent's brain marks the provider full, the call that was       *)
(* refused holds nothing: a retry of a booking that went through is        *)
(* answered with that Reservation, not with the provider's lack of chunks. *)
RefusedHoldsNothing ==
    [][full' /\ ~full =>
          calls["book"].request.booking \notin booked']_LinkVars

(* A policy that stays reaches the Broker and stays there, through         *)
(* restarts of the Broker and through old heartbeats that arrive late.     *)
PolicyArrives ==
    \A p \in Pushed : <>[](placement = p) => <>[](registry = p)
=============================================================================
