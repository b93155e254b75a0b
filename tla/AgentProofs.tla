---------------------------- MODULE AgentProofs -----------------------------
(***************************************************************************)
(* Proofs about an agent: its link to the Broker, its readiness gate, its  *)
(* console and its publisher, for any number of calls, of retries and of   *)
(* faults, batches of any size, any number of concurrent requests and of   *)
(* edits, and any publish interval, staleness threshold, cycle length,     *)
(* carbon TTL, node and chunk size.                                        *)
(***************************************************************************)
EXTENDS AgentLink, Readiness, Console, Publisher, FiniteSetTheorems, TLAPS

-----------------------------------------------------------------------------
(* The link to the Broker.  Every request for a booking, in the client, on *)
(* its way or turned into a Reservation, carries the key that was minted   *)
(* for its call before the retry loop: that is the inductive invariant.    *)

(* A booking whose key is the one minted for its call.                     *)
Minted(b) == b = [call |-> b.call, key |-> <<b.call, 0>>]

(* A request: a booking is minted, and only a booking is for the Broker's  *)
(* reservation handler.                                                    *)
Proper(m) == m.who = "book" => Minted(m.booking) /\ m = [who |-> "book",
                                                         booking |-> m.booking]

(* The calls the client has under way.                                     *)
Shaped(c) == c \in [pc: {c.pc}, try: {c.try}, request: {c.request}]
CallsProper ==
    /\ calls = [w \in Senders |-> calls[w]]
    /\ \A w \in Senders : Shaped(calls[w]) /\ Proper(calls[w].request)
    /\ calls["book"].pc # "idle" => calls["book"].request.who = "book"

LinkInv ==
    /\ CallsProper
    /\ \A m \in late : Proper(m)
    /\ \A r \in booked : Minted(r)

(* No request is proper.                                                   *)
LEMMA IdleProper == Idle.pc = "idle" /\ Shaped(Idle) /\ Proper(Idle.request)
BY DEF Idle, NoRequest, Proper, Shaped

(* The next attempt is for the same request.                               *)
LEMMA TurnKeeps ==
    ASSUME NEW c, NEW category, Shaped(c)
    PROVE  /\ Shaped(Turn(c, category))
           /\ \/ Turn(c, category) = Idle
              \/ Turn(c, category).request = c.request
BY IdleProper DEF Turn, Shaped

(* Serving a proper request books nothing but what it asks for.            *)
LEMMA ServeBooks ==
    ASSUME NEW m, NEW category, Serve(m, category), Proper(m),
           \A r \in booked : Minted(r)
    PROVE  \A r \in booked' : Minted(r)
BY DEF Serve, Touch, handleReservationCreate, Proper

(* A call that is replaced by a proper one leaves proper calls.            *)
LEMMA Replaced ==
    ASSUME CallsProper, NEW w \in Senders, NEW c, Shaped(c),
           Proper(c.request),
           w = "book" /\ c.pc # "idle" => c.request.who = "book",
           calls' = [calls EXCEPT ![w] = c]
    PROVE  CallsProper'
<1>1. DOMAIN calls = Senders BY DEF CallsProper
<1>2. /\ calls' = [v \in Senders |-> calls'[v]]
      /\ calls'[w] = c /\ \A v \in Senders \ {w} : calls'[v] = calls[v]
  BY <1>1
<1> QED BY <1>2 DEF CallsProper, Senders

(* The answer of an attempt.                                               *)
LEMMA DoKeeps ==
    ASSUME CallsProper, NEW w \in Senders, NEW category, Do(w, category),
           calls[w].pc # "idle"
    PROVE  CallsProper'
<1> DEFINE d == Turn(calls[w], category)
<1>1. Shaped(d) /\ (d = Idle \/ d.request = calls[w].request)
  BY TurnKeeps DEF CallsProper
<1>2. calls' = [calls EXCEPT ![w] = d] BY DEF Do
<1> HIDE DEF d
<1>3. Proper(d.request) /\ (w = "book" /\ d.pc # "idle" =>
                                d.request.who = "book")
  BY <1>1, IdleProper DEF CallsProper
<1> QED BY <1>1, <1>2, <1>3, Replaced

-----------------------------------------------------------------------------
(* The client's steps, each of which replaces one call.                    *)
LEMMA ClientStep ==
    ASSUME LinkInv,
           \/ beatOnce \/ PostReservation \/ HangUp
           \/ \E w \in Senders : Attempt(w) \/ Wake(w)
    PROVE  LinkInv'
<1> USE DEF LinkInv
<1> "book" \in Senders /\ "beat" \in Senders BY DEF Senders
<1>1. CASE beatOnce
  <2>1. PICK p \in Pushed :
            calls' = [calls EXCEPT !["beat"] =
                        [pc |-> "send", try |-> 0,
                         request |-> [who |-> "beat", placement |-> p]]]
    BY <1>1 DEF beatOnce
  <2>2. CallsProper' BY <2>1, Replaced DEF Shaped, Proper
  <2> QED BY <1>1, <2>2 DEF beatOnce
<1>2. CASE PostReservation
  <2> DEFINE b == [call |-> asked + 1, key |-> Key(asked + 1, 0)]
             c == [pc |-> "send", try |-> 0,
                   request |-> [who |-> "book", booking |-> b]]
  <2>1. Shaped(c) /\ Proper(c.request) /\ c.request.who = "book"
    BY DEF Shaped, Proper, Minted, Key
  <2>2. calls' = [calls EXCEPT !["book"] = c] BY <1>2 DEF PostReservation
  <2> HIDE DEF c
  <2>3. CallsProper' BY <2>1, <2>2, Replaced
  <2> QED BY <1>2, <2>3 DEF PostReservation
<1>3. CASE HangUp
  <2>1. CallsProper' BY <1>3, IdleProper, Replaced DEF HangUp
  <2>2. \A m \in late' : Proper(m) BY <1>3 DEF HangUp, CallsProper
  <2> QED BY <1>3, <2>1, <2>2 DEF HangUp
<1>4. ASSUME NEW w \in Senders, Attempt(w) PROVE LinkInv'
  <2> DEFINE c == [calls[w] EXCEPT !.pc = "wait", !.request = Sent(w)]
  <2>1. Shaped(calls[w]) /\ Proper(calls[w].request)
    BY DEF CallsProper
  <2>2. Sent(w) = calls[w].request
    <3>1. CASE w = "beat" BY <3>1 DEF Sent
    <3>2. CASE w = "book"
      <4> DEFINE m == calls[w].request
      <4>1. /\ m = [who |-> "book", booking |-> m.booking]
            /\ m.booking = [call |-> m.booking.call,
                            key |-> <<m.booking.call, 0>>]
        BY <1>4, <2>1, <3>2 DEF Attempt, CallsProper, Proper, Minted
      <4>2. Sent(w) = [m EXCEPT !.booking.key = <<m.booking.call, 0>>]
        BY <3>2 DEF Sent, Key
      <4> QED BY <4>1, <4>2
    <3> QED BY <3>1, <3>2 DEF Senders
  <2>3. Shaped(c) /\ c.request = calls[w].request
    BY <2>1, <2>2 DEF Shaped
  <2>4. calls' = [calls EXCEPT ![w] = c] BY <1>4 DEF Attempt, CallsProper
  <2>5. w = "book" => calls[w].request.who = "book"
    BY <1>4 DEF Attempt, CallsProper
  <2> HIDE DEF c
  <2>6. CallsProper' BY <2>1, <2>3, <2>4, <2>5, Replaced
  <2> QED BY <1>4, <2>6 DEF Attempt
<1>5. ASSUME NEW w \in Senders, Wake(w) PROVE LinkInv'
  <2> DEFINE c == [calls[w] EXCEPT !.pc = "send"]
  <2>1. calls' = [calls EXCEPT ![w] = c] BY <1>5 DEF Wake, CallsProper
  <2>2. /\ Shaped(c) /\ Proper(c.request)
        /\ w = "book" => c.request.who = "book"
    BY <1>5 DEF Shaped, Wake, CallsProper
  <2> HIDE DEF c
  <2>3. CallsProper' BY <2>1, <2>2, Replaced
  <2> QED BY <1>5, <2>3 DEF Wake
<1> QED BY <1>1, <1>2, <1>3, <1>4, <1>5

(* The Broker's answers, and what happens to them on the way.              *)
LEMMA ReplyStep ==
    ASSUME LinkInv, NEW w \in Senders,
           Answer(w) \/ AnswerLost(w) \/ TurnedAway(w) \/ GiveUp(w)
    PROVE  LinkInv'
<1> USE DEF LinkInv
<1>1. calls[w].pc = "wait"
  BY DEF Answer, AnswerLost, TurnedAway, GiveUp
<1>2. CallsProper'
  BY <1>1, DoKeeps DEF Answer, AnswerLost, TurnedAway, GiveUp
<1>3. Proper(calls[w].request) BY DEF CallsProper
<1>4. \A m \in late' : Proper(m)
  BY <1>3 DEF Answer, AnswerLost, TurnedAway, GiveUp
<1>5. \A r \in booked' : Minted(r)
  BY <1>3, ServeBooks DEF Answer, AnswerLost, TurnedAway, GiveUp
<1> QED BY <1>2, <1>4, <1>5

(* Late requests, restarts and everything around the link.                 *)
LEMMA AroundStep ==
    ASSUME LinkInv,
           \/ LateArrives \/ Restart \/ PolicyChanges \/ ProviderChanges
           \/ FullExpires
    PROVE  LinkInv'
<1> USE DEF LinkInv
<1>1. CASE LateArrives
  <2>1. PICK m \in late : /\ late' = late \ {m}
                          /\ \E category \in Categories : Serve(m, category)
    BY <1>1 DEF LateArrives
  <2>2. \A r \in booked' : Minted(r) BY <2>1, ServeBooks
  <2>3. CallsProper' BY <1>1 DEF LateArrives, CallsProper
  <2> QED BY <2>1, <2>2, <2>3
<1>2. CASE Restart
  <2>1. \A w \in Senders :
            \/ calls'[w] = calls[w]
            \/ calls[w].pc = "wait" /\ calls'[w] = Turn(calls[w], "Transient")
    BY <1>2 DEF Restart
  <2>2. \A w \in Senders : Shaped(calls'[w]) /\ Proper(calls'[w].request)
    BY <2>1, TurnKeeps, IdleProper DEF CallsProper
  <2>3. calls'["book"].pc # "idle" => calls'["book"].request.who = "book"
    BY <2>1, TurnKeeps, IdleProper DEF CallsProper, Senders
  <2>4. calls' = [w \in Senders |-> calls'[w]] BY <1>2 DEF Restart
  <2>5. CallsProper' BY <2>2, <2>3, <2>4 DEF CallsProper
  <2> QED BY <1>2, <2>5 DEF Restart
<1>3. CASE PolicyChanges \/ ProviderChanges \/ FullExpires
  BY <1>3 DEF PolicyChanges, ProviderChanges, FullExpires, CallsProper
<1> QED BY <1>1, <1>2, <1>3

(* The keys hold in every behaviour of the link.                           *)
LEMMA KeysAreMinted == LinkSpec => []LinkInv
<1>1. LinkInit => LinkInv
  BY IdleProper DEF LinkInit, LinkInv, CallsProper, Senders
<1>2. LinkInv /\ [LinkNext]_LinkVars => LinkInv'
  <2> SUFFICES ASSUME LinkInv, [LinkNext]_LinkVars PROVE LinkInv' OBVIOUS
  <2>1. CASE LinkNext
    BY <2>1, ClientStep, ReplyStep, AroundStep DEF LinkNext, Caller
  <2>2. CASE UNCHANGED LinkVars BY <2>2 DEF LinkVars, LinkInv, CallsProper
  <2> QED BY <2>1, <2>2
<1> QED BY <1>1, <1>2, PTL DEF LinkSpec

-----------------------------------------------------------------------------
(* One call of the local API books at most one Reservation, whatever is    *)
(* lost, repeated or served late: do sends the key of the call each time.  *)
THEOREM BooksOnce == LinkSpec => []OneBookingPerCall
<1>1. LinkInv => OneBookingPerCall BY DEF LinkInv, Minted, OneBookingPerCall
<1> QED BY <1>1, KeysAreMinted, PTL

(* The brain marks a provider full only for a call that holds nothing: the *)
(* Broker looks for the Reservation of that key before it looks at the     *)
(* chunks (handleReservationCreate).                                       *)
THEOREM FullMeansRefused == LinkSpec => RefusedHoldsNothing
<1>1. [LinkNext]_LinkVars =>
        [full' /\ ~full => calls["book"].request.booking \notin booked']_LinkVars
  <2> SUFFICES ASSUME LinkNext, full', ~full
               PROVE  calls["book"].request.booking \notin booked'
    OBVIOUS
  <2> DEFINE b == calls["book"].request.booking
  <2>1. Answer("book") /\ Serve(calls["book"].request, "InsufficientCapacity")
    <3>1. PICK w \in Senders :
              Answer(w) \/ AnswerLost(w) \/ TurnedAway(w) \/ GiveUp(w)
      BY DEF LinkNext, Caller, beatOnce, PostReservation, HangUp, LateArrives,
             Restart, PolicyChanges, ProviderChanges, FullExpires, Attempt,
             Wake
    <3> QED BY <3>1 DEF Answer, AnswerLost, TurnedAway, GiveUp, Do
  <2>2. handleReservationCreate(b, "InsufficientCapacity")
    BY <2>1 DEF Serve
  <2>3. Outcome(b) = "InsufficientCapacity"
    BY <2>2 DEF handleReservationCreate
  <2>4. \A r \in booked : r.key # b.key BY <2>3 DEF Outcome
  <2>5. booked' = booked BY <2>2, <2>3 DEF handleReservationCreate
  <2> QED BY <2>4, <2>5
<1> QED BY <1>1, PTL DEF LinkSpec, RefusedHoldsNothing

-----------------------------------------------------------------------------
(* The readiness gate.  Ready loads three atomics one by one while the     *)
(* poll loop writes them.  The argument is about the order of the writes:  *)
(* the contact is stored before the count and the stretch are touched, so  *)
(* that a reading which found it stale began inside a handler, and until   *)
(* that handler returns the count and the stretch it goes on to load are   *)
(* those of the handler.                                                   *)

(* The three atomics, by where the poll loop is. *)
Bracket ==
    /\ lastPollOK \in {"never", "recent", "stale"}
    /\ lastPollOK = "stale" => loop.pc \in {"tick", "running", "returned"}
    /\ loop.pc \in {"counted", "running", "returned", "refreshed"} =>
          inFlight = 1
    /\ loop.pc \in {"tick", "next", "cleared"} => inFlight = 0
    /\ loop.pc \in {"running", "returned"} => handlerSince # "zero"
    /\ handlerSince \in {"zero", "recent", "over"}
    /\ loop.pc \in LoopPCs

(* A reading that began inside a handler which has not returned since.     *)
Inside == ready.stale /\ ready.working /\ ~ready.returned

Reading ==
    /\ ready.pc \in {"since", "inFlight"} =>
          ready.stale /\ ready.verdict = "none"
    /\ ready.pc \in {"since", "inFlight"} /\ Inside =>
          loop.pc \in {"running", "returned"}
    /\ ready.pc = "inFlight" /\ Inside => ready.since \in {"recent", "over"}

GateFields == [pc: {"idle", "since", "inFlight"}, stale: BOOLEAN,
           since: {"zero", "recent", "over"}, working: BOOLEAN,
           returned: BOOLEAN, verdict: {"none", "green", "red"}]

(* The poll goroutine is a record; how much is left of a batch is left     *)
(* open.                                                                   *)
GateShape == loop \in [pc: LoopPCs, left: {loop.left}] /\ ready \in GateFields

GateInv == GateShape /\ Bracket /\ Reading /\ BusyIsReady

-----------------------------------------------------------------------------
(* A step of the poll loop.                                                *)
LEMMA LoopStep ==
    ASSUME GateInv, Loop \/ Handled \/ RecordPoll \/ ContactAges \/ HandlerAges
    PROVE  GateInv'
<1> USE DEF GateInv, GateShape, LoopPCs
<1>1. CASE Fetch
  <2>1. PICK n \in 0 .. MaxBatch :
            loop' = [pc |-> IF n = 0 THEN "tick" ELSE "next", left |-> n]
    BY <1>1 DEF Fetch
  <2>2. /\ loop' \in [pc: LoopPCs, left: {loop'.left}]
        /\ loop'.pc \in {"tick", "next"}
    BY <2>1
  <2> QED BY <1>1, <2>2 DEF Fetch, Bracket, Reading, Inside, BusyIsReady
<1>2. CASE Count
  BY <1>2 DEF Count, At, Bracket, Reading, Inside, BusyIsReady
<1>3. CASE Stamp
  BY <1>3 DEF Stamp, At, Bracket, Reading, Inside, BusyIsReady
<1>4. CASE Handled
  BY <1>4 DEF Handled, At, Bracket, Reading, Inside, BusyIsReady
<1>5. CASE Refresh
  <2>1. loop' \in [pc: LoopPCs, left: {loop'.left}] /\ loop'.pc = "refreshed"
    BY <1>5 DEF Refresh, At
  <2>2. /\ ready' \in GateFields /\ ready'.pc = ready.pc
        /\ ready'.stale = ready.stale /\ ready'.since = ready.since
        /\ ready'.working = ready.working /\ ready'.verdict = ready.verdict
        /\ ready.returned => ready'.returned
        /\ ready.pc # "idle" => ready'.returned
    BY <1>5 DEF Refresh, Returned, GateFields
  <2>3. Bracket' BY <1>5, <2>1 DEF Refresh, Bracket
  <2>4. Reading' /\ BusyIsReady'
    BY <2>2 DEF Reading, Inside, BusyIsReady, GateFields
  <2> QED BY <2>1, <2>2, <2>3, <2>4
<1>6. CASE Uncount
  BY <1>6 DEF Uncount, At, Bracket, Reading, Inside, BusyIsReady
<1>7. CASE Clear
  BY <1>7 DEF Clear, Bracket, Reading, Inside, BusyIsReady
<1>8. CASE RecordPoll
  BY <1>8 DEF RecordPoll, Bracket, Reading, Inside, BusyIsReady
<1>9. CASE ContactAges
  BY <1>9 DEF ContactAges, Bracket, Reading, Inside, BusyIsReady
<1>10. CASE HandlerAges
  BY <1>10 DEF HandlerAges, Bracket, Reading, Inside, BusyIsReady
<1> QED
  BY <1>1, <1>2, <1>3, <1>4, <1>5, <1>6, <1>7, <1>8, <1>9, <1>10 DEF Loop

(* A step of /readyz.                                                      *)
LEMMA ReadyStep == ASSUME GateInv, Ready PROVE GateInv'
<1> USE DEF GateInv, GateShape
<1>1. CASE LoadLast
  <2>1. ready' \in GateFields BY <1>1 DEF LoadLast, GateFields, Working, Bracket
  <2>2. Bracket' /\ loop' = loop BY <1>1 DEF LoadLast, Bracket
  <2>3. Reading' /\ BusyIsReady'
    BY <1>1 DEF LoadLast, Reading, Inside, BusyIsReady, Working, Bracket,
                LoopPCs
  <2> QED BY <2>1, <2>2, <2>3
<1>2. CASE LoadSince
  <2>1. /\ ready' \in GateFields /\ ready'.pc = "inFlight"
        /\ ready'.since = handlerSince /\ ready'.stale = ready.stale
        /\ ready'.working = ready.working /\ ready'.returned = ready.returned
        /\ ready'.verdict = ready.verdict
    BY <1>2 DEF LoadSince, GateFields, Bracket
  <2>2. Bracket' /\ loop' = loop BY <1>2 DEF LoadSince, Bracket
  <2>3. Reading' BY <1>2, <2>1, <2>2 DEF LoadSince, Reading, Inside, Bracket
  <2>4. BusyIsReady' BY <1>2, <2>1 DEF LoadSince, Reading, BusyIsReady, GateFields
  <2> QED BY <2>1, <2>2, <2>3, <2>4
<1>3. CASE LoadInFlight
  <2>1. /\ ready' \in GateFields /\ ready'.pc = "idle"
        /\ ready'.since = ready.since /\ ready'.stale = ready.stale
        /\ ready'.working = ready.working /\ ready'.returned = ready.returned
        /\ ready'.verdict = IF inFlight > 0 /\ ready.since = "recent"
                            THEN "green" ELSE "red"
    BY <1>3 DEF LoadInFlight, Verdict, GateFields
  <2>2. Bracket' /\ loop' = loop BY <1>3 DEF LoadInFlight, Bracket
  <2>3. Reading' BY <2>1 DEF Reading
  <2>4. BusyIsReady'
    BY <1>3, <2>1 DEF LoadInFlight, Reading, Inside, Bracket, BusyIsReady,
                      GateFields
  <2> QED BY <2>1, <2>2, <2>3, <2>4
<1> QED BY <1>1, <1>2, <1>3 DEF Ready

-----------------------------------------------------------------------------
(* A reading that began while a handler was at work within its time is     *)
(* green unless the handler returned or ran over its time under it         *)
(* (Probe.Ready, notifyHandlerActive).                                     *)
THEOREM BusyStaysReady == GateSpec => []BusyIsReady
<1>1. GateInit => GateInv
  BY DEF GateInit, Asleep, GateInv, GateShape, GateFields, Bracket, Reading, Inside,
         BusyIsReady, LoopPCs
<1>2. GateInv /\ [GateNext]_GateVars => GateInv'
  <2> SUFFICES ASSUME GateInv, [GateNext]_GateVars PROVE GateInv' OBVIOUS
  <2>1. CASE FetchFails \/ UNCHANGED GateVars
    BY <2>1 DEF FetchFails, GateVars, GateInv, GateShape, Bracket, Reading, Inside,
                BusyIsReady
  <2> QED BY <2>1, LoopStep, ReadyStep DEF GateNext
<1>3. GateInv => BusyIsReady BY DEF GateInv
<1> QED BY <1>1, <1>2, <1>3, PTL DEF GateSpec

-----------------------------------------------------------------------------
(* The console.  A request whose version is current holds a copy of the    *)
(* object as it is, and the administrator's marks only grow.               *)

Values == {"", "prices", "capacity", "true", "false", "Price",
           "ConsumerChoice", "demo", "label", "release"}
Answers == {"none", "ok", "error", "refused"}
Copies == [exists: BOOLEAN, owned: Values, rest: Nat]
Reqs == [pc: {"idle", "write"}, value: Values, seen: Copies, fresh: BOOLEAN,
         answer: Answers]

(* No mark is beyond the last edit; what is fresh is a copy of the object. *)
Bounded == object.rest <= edits /\ \A t \in Tabs : tab[t].seen.rest <= edits
CopyCurrent ==
    \A t \in Tabs :
        tab[t].pc = "write" /\ tab[t].fresh /\ tab[t].seen.exists =>
            tab[t].seen = object

ConsoleInv ==
    /\ object \in Copies /\ edits \in Nat /\ tab \in [Tabs -> Reqs]
    /\ Bounded /\ CopyCurrent

(* No step of the console or of the administrator takes an edit back.      *)
Keeps == object.exists /\ object'.exists => object'.rest >= object.rest

(* Copies are typed, and an answered request holds none.                   *)
LEMMA Answered ==
    ASSUME NEW a \in Answers
    PROVE  /\ [IdleTab EXCEPT !.answer = a] \in Reqs
           /\ [IdleTab EXCEPT !.answer = a].pc = "idle"
           /\ [IdleTab EXCEPT !.answer = a].seen.rest = 0
<1>1. Absent \in Copies /\ Absent.rest = 0 BY DEF Absent, Copies, Values
<1>2. IdleTab \in Reqs /\ IdleTab.pc = "idle" /\ IdleTab.seen = Absent
  BY <1>1 DEF IdleTab, Reqs, Values, Answers
<1> QED BY <1>1, <1>2 DEF Reqs

(* One request changes and nothing of the object, or only what no current  *)
(* version is of.                                                          *)
LEMMA OneRequest ==
    ASSUME ConsoleInv, NEW t \in Tabs, NEW c \in Reqs, edits' = edits,
           tab' = [tab EXCEPT ![t] = c], c.seen.rest <= edits,
           c.pc = "write" /\ c.seen.exists => c.seen = object',
           object' = object \/ ~object.exists, object' \in Copies,
           object'.rest <= edits
    PROVE  ConsoleInv' /\ Keeps
<1>1. tab' \in [Tabs -> Reqs] BY DEF ConsoleInv
<1>2. tab'[t] = c /\ \A u \in Tabs \ {t} : tab'[u] = tab[u] BY DEF ConsoleInv
<1>3. Bounded' BY <1>2 DEF ConsoleInv, Bounded
<1>4. CopyCurrent' BY <1>2 DEF ConsoleInv, CopyCurrent
<1>5. Keeps BY DEF Keeps, ConsoleInv, Copies
<1> QED BY <1>1, <1>3, <1>4, <1>5 DEF ConsoleInv

(* A request that is answered, the object being left or created.           *)
LEMMA AnswerKeeps ==
    ASSUME ConsoleInv, NEW t \in Tabs, NEW a \in Answers, Respond(t, a),
           edits' = edits, object' = object \/ ~object.exists,
           object' \in Copies, object'.rest <= edits
    PROVE  ConsoleInv' /\ Keeps
<1> DEFINE c == [IdleTab EXCEPT !.answer = a]
<1>1. c \in Reqs /\ c.pc = "idle" /\ c.seen.rest = 0 BY Answered
<1>2. tab' = [tab EXCEPT ![t] = c] BY DEF Respond
<1> HIDE DEF c
<1>3. c.seen.rest <= edits BY <1>1 DEF ConsoleInv
<1> QED BY <1>1, <1>2, <1>3, OneRequest

(* A request that is refused writes nothing.                               *)
LEMMA RefuseKeeps ==
    ASSUME ConsoleInv, NEW t \in Tabs, NEW a \in Answers, Respond(t, a),
           UNCHANGED <<name, object, edits>>
    PROVE  ConsoleInv' /\ Keeps
BY AnswerKeeps DEF ConsoleInv, Bounded

(* The Get of a request.                                                   *)
LEMMA GetKeeps ==
    ASSUME ConsoleInv, NEW t \in Tabs, NEW value \in Values, Get(t, value)
    PROVE  ConsoleInv' /\ Keeps
<1> DEFINE c == [pc |-> "write", value |-> value, seen |-> object,
                 fresh |-> TRUE, answer |-> "none"]
<1>1. c \in Reqs /\ c.seen = object BY DEF Reqs, Answers, ConsoleInv
<1>2. tab' = [tab EXCEPT ![t] = c] /\ object' = object /\ edits' = edits
  BY DEF Get
<1> HIDE DEF c
<1> QED BY <1>1, <1>2, OneRequest DEF ConsoleInv, Bounded

(* A write makes every version that was read an old one.                   *)
LEMMA StaleType ==
    ASSUME ConsoleInv
    PROVE  /\ Stale(tab) \in [Tabs -> Reqs]
           /\ \A u \in Tabs : /\ ~Stale(tab)[u].fresh
                              /\ Stale(tab)[u].seen = tab[u].seen
BY DEF ConsoleInv, Stale, Reqs

(* A write takes effect only when it is made on the current copy.          *)
LEMMA WriteKeeps ==
    ASSUME ConsoleInv, NEW t \in Tabs, NEW a \in Answers, edits' = edits,
           object' \in Copies, object'.rest <= edits,
           tab' = [Stale(tab) EXCEPT ![t] = [IdleTab EXCEPT !.answer = a]]
    PROVE  ConsoleInv'
<1> DEFINE c == [IdleTab EXCEPT !.answer = a]
           s == Stale(tab)
<1>1. c \in Reqs /\ c.pc = "idle" /\ c.seen.rest = 0 BY Answered
<1>2. /\ s \in [Tabs -> Reqs]
      /\ \A u \in Tabs : ~s[u].fresh /\ s[u].seen = tab[u].seen
  BY StaleType
<1>3. tab' = [s EXCEPT ![t] = c] OBVIOUS
<1> HIDE DEF c, s
<1>4. tab' \in [Tabs -> Reqs] BY <1>1, <1>2, <1>3
<1>5. tab'[t] = c /\ \A u \in Tabs \ {t} : tab'[u] = s[u] BY <1>2, <1>3
<1>6. Bounded'
  <2>1. tab'[t].seen.rest = 0 /\ 0 <= edits
    <3>1. tab'[t].seen.rest = 0 BY <1>1, <1>5
    <3> QED BY <3>1 DEF ConsoleInv
  <2>2. \A u \in Tabs \ {t} : tab'[u].seen.rest <= edits
    BY <1>2, <1>5 DEF ConsoleInv, Bounded
  <2> QED BY <2>1, <2>2 DEF Bounded
<1>7. CopyCurrent' BY <1>1, <1>2, <1>5 DEF CopyCurrent
<1> QED BY <1>4, <1>6, <1>7 DEF ConsoleInv

-----------------------------------------------------------------------------
(* The requests that read, refuse or create.                               *)
LEMMA HandleStep ==
    ASSUME ConsoleInv, NEW t \in Tabs,
           \/ handlePrices(t) \/ handleCapacity(t) \/ handleRenewable(t)
           \/ handlePolicy(t) \/ handleWorkload(t) \/ handleReservation(t)
           \/ WriteFails(t)
    PROVE  ConsoleInv' /\ Keeps
<1>1. ASSUME Refuse(t) PROVE ConsoleInv' /\ Keeps
  BY <1>1, RefuseKeeps DEF Refuse, Answers
<1>2. ASSUME Delete(t) PROVE ConsoleInv' /\ Keeps
  <2>1. /\ object' = Absent /\ edits' = edits
        /\ tab' = [Stale(tab) EXCEPT ![t] = [IdleTab EXCEPT !.answer = "ok"]]
    BY <1>2 DEF Delete
  <2>2. Absent \in Copies /\ Absent.rest = 0 /\ ~Absent.exists
    BY DEF Absent, Copies, Values
  <2>3. object'.rest <= edits BY <2>1, <2>2 DEF ConsoleInv
  <2>4. "ok" \in Answers BY DEF Answers
  <2>5. Keeps BY <2>1, <2>2 DEF Keeps
  <2> QED BY <2>1, <2>2, <2>3, <2>4, <2>5, WriteKeeps
<1>3. ASSUME NEW owned \in {"demo", "label"}, edits' = edits,
             Respond(t, "ok"),
             object' = IF object.exists THEN object
                       ELSE [exists |-> TRUE, owned |-> owned, rest |-> 0]
      PROVE  ConsoleInv' /\ Keeps
  <2>1. [exists |-> TRUE, owned |-> owned, rest |-> 0] \in Copies
    BY DEF Copies, Values
  <2>2. /\ object' \in Copies /\ object'.rest <= edits
        /\ object' = object \/ ~object.exists
    <3>1. object \in Copies /\ object.rest <= edits /\ edits \in Nat
      BY DEF ConsoleInv, Bounded
    <3>2. CASE object.exists BY <1>3, <3>1, <3>2
    <3>3. CASE ~object.exists
      <4>1. object' = [exists |-> TRUE, owned |-> owned, rest |-> 0]
        BY <1>3, <3>3
      <4> QED BY <2>1, <3>1, <3>3, <4>1
    <3> QED BY <3>2, <3>3
  <2> QED BY <1>3, <2>2, AnswerKeeps DEF Answers
<1>4. CASE handlePrices(t)
  BY <1>1, <1>4, GetKeeps DEF handlePrices, Values
<1>5. CASE handleCapacity(t)
  BY <1>1, <1>5, GetKeeps DEF handleCapacity, Values
<1>6. CASE handleRenewable(t) BY <1>6, GetKeeps DEF handleRenewable, Values
<1>7. CASE handlePolicy(t)
  BY <1>1, <1>2, <1>7, GetKeeps DEF handlePolicy, Values
<1>8. CASE handleWorkload(t) BY <1>1, <1>2, <1>3, <1>8 DEF handleWorkload
<1>9. CASE handleReservation(t)
  BY <1>1, <1>3, <1>9, GetKeeps, RefuseKeeps
     DEF handleReservation, Values, Answers
<1>10. CASE WriteFails(t)
  BY <1>10, RefuseKeeps DEF WriteFails, Answers
<1> QED BY <1>4, <1>5, <1>6, <1>7, <1>8, <1>9, <1>10

(* The writes.  An Update that succeeds is of the object as it is.         *)
LEMMA UpsertStep ==
    ASSUME ConsoleInv, NEW t \in Tabs, Upsert(t) \/ Release(t)
    PROVE  ConsoleInv' /\ Keeps
<1>1. CASE Release(t)
  <2>1. PICK a \in Answers :
            tab' = [Stale(tab) EXCEPT ![t] = [IdleTab EXCEPT !.answer = a]]
    BY <1>1 DEF Release, Answers
  <2>2. object' = Absent /\ edits' = edits BY <1>1 DEF Release
  <2>3. Absent \in Copies /\ Absent.rest = 0 /\ ~Absent.exists
    BY DEF Absent, Copies, Values
  <2>4. object'.rest <= edits BY <2>2, <2>3 DEF ConsoleInv
  <2>5. Keeps BY <2>2, <2>3 DEF Keeps
  <2> QED BY <2>1, <2>2, <2>3, <2>4, <2>5, WriteKeeps
<1>2. CASE Upsert(t)
  <2> DEFINE r == tab[t]
             new == [exists |-> TRUE, owned |-> r.value,
                     rest |-> r.seen.rest]
             ok == IF r.seen.exists THEN r.fresh ELSE ~object.exists
  <2>1. CASE ~ok
    <3>1. Respond(t, "error") /\ UNCHANGED <<name, object, edits>>
      BY <1>2, <2>1 DEF Upsert
    <3> QED BY <3>1, RefuseKeeps DEF Answers
  <2>2. CASE ok
    <3>1. /\ object' = new /\ edits' = edits /\ r.pc = "write"
          /\ tab' = [Stale(tab) EXCEPT ![t] = [IdleTab EXCEPT !.answer = "ok"]]
      BY <1>2, <2>2 DEF Upsert
    <3>2. r \in Reqs /\ r.seen.rest \in Nat BY DEF ConsoleInv, Reqs, Copies
    <3>3. new \in Copies /\ new.rest = r.seen.rest
      BY <3>2 DEF Copies, Reqs
    <3>4. r.seen.rest <= edits BY DEF ConsoleInv, Bounded
    <3>5. object.exists => r.seen = object
      BY <2>2, <3>1 DEF ConsoleInv, CopyCurrent
    <3>6. Keeps BY <3>1, <3>2, <3>3, <3>5 DEF Keeps
    <3>7. "ok" \in Answers BY DEF Answers
    <3> HIDE DEF new
    <3> QED BY <3>1, <3>3, <3>4, <3>6, <3>7, WriteKeeps
  <2> QED BY <2>1, <2>2
<1> QED BY <1>1, <1>2

(* The administrator's edit.                                               *)
LEMMA EditStep == ASSUME ConsoleInv, Edit PROVE ConsoleInv' /\ Keeps
<1>1. /\ edits' = edits + 1 /\ tab' = Stale(tab)
      /\ object' = [object EXCEPT !.exists = TRUE, !.rest = edits + 1]
  BY DEF Edit
<1>2. edits' \in Nat /\ edits < edits' BY <1>1 DEF ConsoleInv
<1>3. object' \in Copies /\ object'.rest = edits'
  BY <1>1, <1>2 DEF ConsoleInv, Copies
<1>4. /\ tab' \in [Tabs -> Reqs]
      /\ \A u \in Tabs : ~tab'[u].fresh /\ tab'[u].seen = tab[u].seen
  BY <1>1, StaleType
<1>5. \A u \in Tabs : tab[u].seen.rest \in Nat BY DEF ConsoleInv, Reqs, Copies
<1>6. Bounded' BY <1>2, <1>3, <1>4, <1>5 DEF ConsoleInv, Bounded
<1>7. CopyCurrent' BY <1>4 DEF CopyCurrent
<1>8. Keeps BY <1>2, <1>3 DEF Keeps, ConsoleInv, Bounded, Copies
<1> QED BY <1>2, <1>3, <1>4, <1>6, <1>7, <1>8 DEF ConsoleInv

-----------------------------------------------------------------------------
(* As long as the object is not deleted no request undoes an edit of a     *)
(* part the console does not own (upsertConfigMap, upsertConsumerPolicy).  *)
THEOREM EditsSurvive == ConsoleSpec => OtherKeysSurvive
<1>1. ConsoleInit => ConsoleInv
  <2> SUFFICES ASSUME ConsoleInit PROVE ConsoleInv OBVIOUS
  <2>1. Absent \in Copies /\ Absent.rest = 0 BY DEF Absent, Copies, Values
  <2>2. IdleTab \in Reqs /\ IdleTab.pc = "idle" /\ IdleTab.seen = Absent
    BY <2>1 DEF IdleTab, Reqs, Values, Answers
  <2> QED BY <2>1, <2>2 DEF ConsoleInit, ConsoleInv, Bounded, CopyCurrent
<1>2. ConsoleInv /\ [ConsoleNext]_ConsoleVars
        => ConsoleInv' /\ [Keeps]_ConsoleVars
  <2> SUFFICES ASSUME ConsoleInv, [ConsoleNext]_ConsoleVars
               PROVE  ConsoleInv' /\ [Keeps]_ConsoleVars
    OBVIOUS
  <2>1. CASE UNCHANGED ConsoleVars
    BY <2>1 DEF ConsoleVars, ConsoleInv, Bounded, CopyCurrent
  <2>2. CASE ConsoleNext
    BY <2>2, EditStep, HandleStep, UpsertStep DEF ConsoleNext, Request
  <2> QED BY <2>1, <2>2
<1> QED BY <1>1, <1>2, PTL DEF ConsoleSpec, OtherKeysSurvive, Keeps

-----------------------------------------------------------------------------
(* The publisher.  Two clocks are compared, the publisher's ticker and the *)
(* requeue of the Broker's check.  What relates them is the age of the     *)
(* last report: together with the time to the next tick it is at most one  *)
(* interval per cycle since, and together with the time to the next check  *)
(* it is at most the threshold and one requeue while the provider is on    *)
(* offer.  The deployment's own numbers are an instance of Deployment.     *)

(* Two intervals and a cycle fit in the threshold: 30 s, 90 s, and cycles  *)
(* that end within the interval.                                           *)
Deployment ==
    /\ Interval \in Nat /\ StaleAfter \in Nat /\ MaxCycle \in Nat
    /\ 2 * Interval + MaxCycle <= StaleAfter
    /\ CarbonTTL \in Nat \ {0} /\ NodeAllocatable \in Nat
    /\ ChunkSize \in Nat \ {0}

OfferShape ==
    /\ publisher \in [next: 0 .. Interval, pc: {"idle", "begun", "taken"},
                      offer: Offers, age: 0 .. MaxCycle, missed: 0 .. 2]
    /\ carbonCache \in [forecast: Nat, current: Nat]
    /\ advertisement \in [seen: 0 .. Never, available: BOOLEAN,
                          carbon: Nat, excused: BOOLEAN]
    /\ checkIn \in 0 .. Requeue

(* The age of the last report by the publisher's clock, with none or one   *)
(* cycle failed since, between cycles and within one.                      *)
ByTicker ==
    LET since == advertisement.seen + publisher.next IN
    /\ publisher.pc # "idle" => publisher.age + publisher.next = Interval
    /\ advertisement.seen # Never /\ publisher.missed <= 1 =>
          /\ advertisement.available
          /\ publisher.pc = "idle" /\ publisher.missed = 0 =>
                since <= Interval
          /\ publisher.pc # "idle" /\ publisher.missed = 0 =>
                since <= 2 * Interval
          /\ publisher.pc = "idle" /\ publisher.missed = 1 =>
                since <= 2 * Interval
          /\ publisher.pc # "idle" /\ publisher.missed = 1 =>
                since <= 3 * Interval

(* And by the Broker's.                                                    *)
ByCheck ==
    advertisement.available =>
        advertisement.seen + checkIn <= StaleAfter + Requeue

PublisherInv == OfferShape /\ ByTicker /\ ByCheck

(* The requeue of the check is a number of units.                          *)
LEMMA RequeueType == ASSUME Deployment PROVE Requeue \in Nat
BY DEF Deployment, Requeue

(* An advertisement that was never seen.                                   *)
LEMMA NeverType ==
    ASSUME Deployment
    PROVE  /\ Never \in Nat /\ StaleAfter < Never
           /\ Old \in Nat /\ NoCarbon \in Nat
BY DEF Deployment, Never, Old, NoCarbon

(* Whole chunks fit in what they are cut from.                             *)
LEMMA ChunksFit ==
    ASSUME NEW a \in Nat, NEW b \in Nat \ {0}
    PROVE  a \div b \in Nat /\ (a \div b) * b <= a
OBVIOUS

(* Older counts one unit, up to its cap.                                   *)
LEMMA OlderType ==
    ASSUME NEW cap \in Nat, NEW age \in Nat
    PROVE  /\ Older(age, cap) \in 0 .. cap
           /\ age < cap => Older(age, cap) = age + 1
           /\ age = cap => Older(age, cap) = cap
<1>1. CASE age < cap BY <1>1 DEF Older
<1>2. CASE ~(age < cap) BY <1>2 DEF Older
<1> QED BY <1>1, <1>2

(* What the provider's nodes can give.                                     *)
LEMMA TakeType ==
    ASSUME Deployment, NEW nodes \in NodeStates
    PROVE  Take(nodes) \in Nat
<1> DEFINE R == {n \in DOMAIN nodes : nodes[n] = "ready"}
<1>1. DOMAIN nodes = 1 .. 2 BY DEF NodeStates
<1>2. IsFiniteSet(1 .. 2)
  <2>1. 1 \in Int /\ 2 \in Int OBVIOUS
  <2> QED BY <2>1, FS_Interval, Zenon
<1>3. IsFiniteSet(R) BY <1>1, <1>2, FS_Subset
<1>4. Cardinality(R) \in Nat BY <1>3, FS_CardinalityType
<1> QED BY <1>4 DEF Take, Deployment

(* A cap lowers what is offered, and the chunks fit in it.                 *)
LEMMA OfferFits ==
    ASSUME Deployment, NEW nodes \in NodeStates, NEW rule \in Rules
    PROVE  LET chunks == Size(applyCapacityScaling(Take(nodes), rule))
           IN  chunks \in Nat /\ chunks * ChunkSize <= Take(nodes)
<1> DEFINE alloc == Take(nodes)
           offered == applyCapacityScaling(alloc, rule)
<1>1. alloc \in Nat BY TakeType
<1> HIDE DEF alloc
<1>2. offered \in Int /\ offered <= alloc
  BY <1>1 DEF applyCapacityScaling, Rules
<1> HIDE DEF offered
<1>3. CASE offered < 0
  BY <1>1, <1>3 DEF Size, Deployment, offered, alloc
<1>4. CASE ~(offered < 0)
  <2>1. offered \in Nat BY <1>2, <1>4
  <2>2. /\ offered \div ChunkSize \in Nat
        /\ (offered \div ChunkSize) * ChunkSize <= offered
    BY <2>1, ChunksFit DEF Deployment
  <2>3. Size(offered) = offered \div ChunkSize BY <1>4 DEF Size
  <2>4. Size(offered) \in Nat /\ Size(offered) * ChunkSize <= alloc
    BY <1>1, <1>2, <2>1, <2>2, <2>3 DEF Deployment
  <2> QED BY <2>4 DEF offered, alloc
<1> QED BY <1>3, <1>4

(* The eco client's answer, and the cache it leaves.                       *)
LEMMA CarbonType ==
    ASSUME Deployment, carbonCache \in [forecast: Nat, current: Nat],
           NEW up \in [forecast: BOOLEAN, current: BOOLEAN]
    PROVE  LET cache == loadCarbon(up) IN
           /\ cache \in [forecast: Nat, current: Nat]
           /\ up.forecast => cache.forecast < CarbonTTL
<1>1. \A age \in Nat, b \in BOOLEAN :
          /\ FetchCarbon(age, b) \in Nat
          /\ b => FetchCarbon(age, b) < CarbonTTL
  BY DEF FetchCarbon, Deployment
<1>2. CarbonTTL < NoCarbon /\ CarbonTTL \in Nat /\ NoCarbon \in Nat
  BY DEF NoCarbon, Old, Deployment
<1> QED BY <1>1, <1>2 DEF loadCarbon

-----------------------------------------------------------------------------
(* The publisher's steps.  Within a cycle the clock of the ticker and the  *)
(* age of the cycle make one interval.                                     *)
LEMMA PublisherStep ==
    ASSUME Deployment, PublisherInv, Start \/ Snapshot \/ SnapshotFails \/ Publish
    PROVE  PublisherInv'
<1> USE DEF PublisherInv
<1> Requeue \in Nat /\ Never \in Nat BY RequeueType, NeverType
<1>1. CASE Start
  <2>1. /\ publisher' \in [next: 0 .. Interval,
                           pc: {"idle", "begun", "taken"},
                           offer: Offers, age: 0 .. MaxCycle, missed: 0 .. 2]
        /\ publisher'.next = Interval /\ publisher'.pc = "begun"
        /\ publisher'.age = 0 /\ publisher'.missed = publisher.missed
    <3>1. Interval \in 0 .. Interval /\ 0 \in 0 .. MaxCycle
      BY DEF Deployment
    <3>2. publisher' = [publisher EXCEPT !.next = Interval, !.pc = "begun",
                                         !.age = 0]
      BY <1>1 DEF Start
    <3> QED BY <3>1, <3>2 DEF OfferShape
  <2>2. OfferShape' BY <1>1, <2>1 DEF Start, OfferShape
  <2>3. ByTicker'
    BY <1>1, <2>1 DEF Start, ByTicker, OfferShape, Deployment
  <2>4. ByCheck' BY <1>1 DEF Start, ByCheck
  <2> QED BY <2>2, <2>3, <2>4
<1>2. CASE Snapshot
  <2>1. PICK nodes \in NodeStates, rule \in Rules :
            publisher' = [publisher EXCEPT
              !.pc = "taken",
              !.offer = [chunks |-> Size(applyCapacityScaling(Take(nodes),
                                                              rule)),
                         allocatable |-> Take(nodes)]]
    BY <1>2 DEF Snapshot
  <2> DEFINE o == [chunks |-> Size(applyCapacityScaling(Take(nodes), rule)),
                   allocatable |-> Take(nodes)]
  <2>2. o \in Offers BY OfferFits, TakeType DEF Offers
  <2> HIDE DEF o
  <2>3. /\ publisher' \in [next: 0 .. Interval,
                           pc: {"idle", "begun", "taken"},
                           offer: Offers, age: 0 .. MaxCycle, missed: 0 .. 2]
        /\ publisher'.next = publisher.next /\ publisher'.pc = "taken"
        /\ publisher'.age = publisher.age
        /\ publisher'.missed = publisher.missed
    BY <2>1, <2>2 DEF OfferShape, o
  <2>4. OfferShape' BY <1>2, <2>3 DEF Snapshot, OfferShape
  <2>5. ByTicker' BY <1>2, <2>3 DEF Snapshot, ByTicker
  <2>6. ByCheck' BY <1>2 DEF Snapshot, ByCheck
  <2> QED BY <2>4, <2>5, <2>6
<1>3. ASSUME NEW m \in {0, OneMore}, Over(m), publisher.pc # "idle"
      PROVE  /\ publisher' \in [next: 0 .. Interval,
                           pc: {"idle", "begun", "taken"},
                           offer: Offers, age: 0 .. MaxCycle, missed: 0 .. 2]
             /\ publisher'.next = publisher.next /\ publisher'.pc = "idle"
             /\ publisher'.missed = m
             /\ publisher.age + publisher.next = Interval
  <2>1. m \in 0 .. 2 BY DEF OneMore, OfferShape
  <2>2. Nothing \in Offers BY DEF Nothing, Offers
  <2> QED BY <1>3, <2>1, <2>2 DEF Over, OfferShape, ByTicker
<1>4. CASE SnapshotFails
  <2>1. Over(OneMore) /\ publisher.pc = "begun" BY <1>4 DEF SnapshotFails
  <2>2. OfferShape' BY <1>3, <1>4, <2>1 DEF SnapshotFails, OfferShape
  <2>3. ByTicker'
    BY <1>3, <1>4, <2>1 DEF SnapshotFails, ByTicker, OfferShape, OneMore,
                            Deployment
  <2>4. ByCheck' BY <1>4 DEF SnapshotFails, ByCheck
  <2> QED BY <2>2, <2>3, <2>4
<1>5. CASE Publish
  <2>1. PICK located \in BOOLEAN, up \in [forecast: BOOLEAN, current: BOOLEAN],
             post \in {"ok", "replyLost", "failed"} :
         LET cache == IF located THEN loadCarbon(up) ELSE carbonCache
         IN  /\ carbonCache' = cache
             /\ advertisement' = IF post = "failed" THEN advertisement ELSE
                  [seen |-> 0, available |-> TRUE,
                   carbon |-> IF ~located THEN NoCarbon
                              ELSE IF cache.forecast # NoCarbon
                              THEN cache.forecast ELSE cache.current,
                   excused |-> ~(up.forecast /\ up.current)]
             /\ Over(IF post = "ok" THEN 0 ELSE OneMore)
    BY <1>5 DEF Publish
  <2>2. carbonCache' \in [forecast: Nat, current: Nat]
    BY <2>1, CarbonType DEF OfferShape
  <2>3. /\ advertisement' \in [seen: 0 .. Never, available: BOOLEAN,
                               carbon: Nat, excused: BOOLEAN]
        /\ \/ post = "failed" /\ advertisement' = advertisement
           \/ advertisement'.seen = 0 /\ advertisement'.available
    BY <2>1, <2>2, NeverType DEF OfferShape
  <2>4. PICK m \in {0, OneMore} : Over(m) /\ (post = "failed" => m = OneMore)
    BY <2>1
  <2>5. publisher.pc = "taken" /\ checkIn' = checkIn BY <1>5 DEF Publish
  <2>6. OfferShape' BY <1>3, <2>2, <2>3, <2>4, <2>5 DEF OfferShape
  <2>7. ByTicker'
    BY <1>3, <2>3, <2>4, <2>5 DEF ByTicker, OfferShape, OneMore, Deployment
  <2>8. ByCheck' BY <2>3, <2>5 DEF ByCheck, OfferShape, Deployment
  <2> QED BY <2>6, <2>7, <2>8
<1> QED BY <1>1, <1>2, <1>4, <1>5

(* The Broker's check: what is flagged has missed two cycles.              *)
LEMMA CheckStep == ASSUME Deployment, PublisherInv, Check PROVE PublisherInv'
<1> USE DEF PublisherInv
<1> Requeue \in Nat /\ Never \in Nat /\ StaleAfter < Never
  BY RequeueType, NeverType
<1>1. /\ advertisement' \in [seen: 0 .. Never, available: BOOLEAN,
                             carbon: Nat, excused: BOOLEAN]
      /\ advertisement'.seen = advertisement.seen
      /\ advertisement'.available = ~(advertisement.seen > StaleAfter)
  BY DEF Check, OfferShape, isAdvertisementStale
<1>2. OfferShape' BY <1>1 DEF Check, OfferShape
<1>3. advertisement.seen # Never /\ publisher.missed <= 1 =>
          advertisement.seen <= StaleAfter
  BY DEF ByTicker, OfferShape, Deployment
<1>4. ByTicker' BY <1>1, <1>3 DEF Check, ByTicker, OfferShape, Deployment
<1>5. ByCheck' BY <1>1 DEF Check, ByCheck, OfferShape, Deployment
<1> QED BY <1>2, <1>4, <1>5

(* A unit of time passes on both clocks.                                   *)
LEMMA TickStep == ASSUME Deployment, PublisherInv, Tick PROVE PublisherInv'
<1> USE DEF PublisherInv
<1> /\ Requeue \in Nat /\ Never \in Nat /\ StaleAfter < Never
    /\ Old \in Nat /\ NoCarbon \in Nat
  BY RequeueType, NeverType
<1>1. /\ publisher' \in [next: 0 .. Interval,
                         pc: {"idle", "begun", "taken"},
                         offer: Offers, age: 0 .. MaxCycle, missed: 0 .. 2]
      /\ publisher'.next = publisher.next - 1 /\ publisher'.pc = publisher.pc
      /\ publisher.pc # "idle" => publisher'.age = publisher.age + 1
      /\ publisher'.missed = publisher.missed
  <2> DEFINE n == publisher.next - 1
             a == IF publisher.pc = "idle" THEN 0 ELSE publisher.age + 1
  <2>1. publisher' = [publisher EXCEPT !.next = n, !.age = a]
    BY DEF Tick, OfferShape
  <2>2. n \in 0 .. Interval BY DEF Tick, OfferShape, Deployment
  <2>3. a \in 0 .. MaxCycle BY DEF Tick, OfferShape, Deployment
  <2>4. publisher.pc # "idle" => a = publisher.age + 1 OBVIOUS
  <2> HIDE DEF n, a
  <2>5. /\ publisher' \in [next: 0 .. Interval,
                           pc: {"idle", "begun", "taken"},
                           offer: Offers, age: 0 .. MaxCycle, missed: 0 .. 2]
        /\ publisher'.next = n /\ publisher'.pc = publisher.pc
        /\ publisher'.age = a /\ publisher'.missed = publisher.missed
    BY <2>1, <2>2, <2>3 DEF OfferShape
  <2> QED BY <2>4, <2>5 DEF n
<1>2. \A n \in Nat : Older(n, Old) \in Nat BY OlderType
<1>3. carbonCache' \in [forecast: Nat, current: Nat]
  BY <1>2 DEF Tick, OfferShape
<1>4. /\ advertisement' \in [seen: 0 .. Never, available: BOOLEAN,
                             carbon: Nat, excused: BOOLEAN]
      /\ advertisement'.available = advertisement.available
      /\ advertisement.seen < Never =>
             advertisement'.seen = advertisement.seen + 1
      /\ advertisement.seen = Never => advertisement'.seen = Never
  BY OlderType DEF Tick, OfferShape
<1>5. checkIn > 0 /\ checkIn' = checkIn - 1 BY DEF Tick
<1>6. OfferShape' BY <1>1, <1>3, <1>4, <1>5 DEF OfferShape
<1>7. ByTicker' BY <1>1, <1>4 DEF ByTicker, OfferShape, Deployment
<1>8. ByCheck' BY <1>4, <1>5 DEF ByCheck, OfferShape, Deployment
<1> QED BY <1>6, <1>7, <1>8

(* The invariant holds of every behaviour.                                 *)
LEMMA PublisherInvariant == ASSUME Deployment PROVE PublisherSpec => []PublisherInv
<1>1. PublisherInit => PublisherInv
  <2> SUFFICES ASSUME PublisherInit PROVE PublisherInv OBVIOUS
  <2> Requeue \in Nat /\ Never \in Nat /\ NoCarbon \in Nat
    BY RequeueType, NeverType
  <2>1. Nothing \in Offers BY DEF Nothing, Offers
  <2>2. OfferShape
    BY <2>1 DEF PublisherInit, OfferShape, Quiet, NotAdvertised, Deployment
  <2>3. ByTicker /\ ByCheck
    BY DEF PublisherInit, ByTicker, ByCheck, Quiet, NotAdvertised
  <2> QED BY <2>2, <2>3 DEF PublisherInv
<1>2. PublisherInv /\ [PublisherNext]_PublisherVars => PublisherInv'
  <2> SUFFICES ASSUME PublisherInv, [PublisherNext]_PublisherVars
               PROVE  PublisherInv'
    OBVIOUS
  <2>1. CASE UNCHANGED PublisherVars
    BY <2>1 DEF PublisherVars, PublisherInv, OfferShape, ByTicker, ByCheck
  <2> QED BY <2>1, PublisherStep, CheckStep, TickStep DEF PublisherNext
<1> QED BY <1>1, <1>2, PTL DEF PublisherSpec

-----------------------------------------------------------------------------
(* A silent provider is flagged within StaleAfter and one requeue, and one *)
(* that missed a single report is not, for every deployment whose          *)
(* threshold holds two intervals and a cycle (isAdvertisementStale,        *)
(* publishOnce).                                                           *)
THEOREM SilenceIsFlagged ==
    ASSUME Deployment PROVE PublisherSpec => []AvailabilityFollowsReports
<1>1. PublisherInv => AvailabilityFollowsReports
  <2> SUFFICES ASSUME PublisherInv PROVE AvailabilityFollowsReports OBVIOUS
  <2>1. Requeue \in Nat /\ Never \in Nat BY RequeueType, NeverType
  <2>2. advertisement.available =>
            advertisement.seen <= StaleAfter + Requeue
    BY <2>1 DEF PublisherInv, ByCheck, OfferShape, Deployment
  <2> QED BY <2>2 DEF PublisherInv, ByTicker, AvailabilityFollowsReports
<1> QED BY <1>1, PublisherInvariant, PTL

(* The chunks on offer fit in what the ready nodes give under every cap,   *)
(* and a carbon value is within its TTL unless its service failed in the   *)
(* very cycle that sent it (applyCapacityScaling, Size, loadCarbon).       *)
THEOREM OffersAreBacked ==
    ASSUME Deployment PROVE PublisherSpec => []OfferIsBacked
<1> Requeue \in Nat /\ Never \in Nat /\ NoCarbon \in Nat
  BY RequeueType, NeverType
<1>1. PublisherInit => OfferIsBacked
  BY DEF PublisherInit, Quiet, NotAdvertised, Nothing, OfferIsBacked, Deployment
<1>2. PublisherInv /\ OfferIsBacked /\ [PublisherNext]_PublisherVars => OfferIsBacked'
  <2> SUFFICES ASSUME PublisherInv, OfferIsBacked, [PublisherNext]_PublisherVars
               PROVE  OfferIsBacked'
    OBVIOUS
  <2> USE DEF PublisherInv
  <2>1. CASE Start
    <3>1. publisher'.offer = publisher.offer BY <2>1 DEF Start, OfferShape
    <3> QED BY <2>1, <3>1 DEF Start, OfferIsBacked
  <2>2. CASE Snapshot
    <3>1. PICK nodes \in NodeStates, rule \in Rules :
            publisher' = [publisher EXCEPT
              !.pc = "taken",
              !.offer = [chunks |-> Size(applyCapacityScaling(Take(nodes),
                                                              rule)),
                         allocatable |-> Take(nodes)]]
      BY <2>2 DEF Snapshot
    <3> DEFINE o == [chunks |-> Size(applyCapacityScaling(Take(nodes), rule)),
                     allocatable |-> Take(nodes)]
    <3>2. o.chunks * ChunkSize <= o.allocatable BY OfferFits
    <3>3. publisher'.offer = o BY <3>1 DEF OfferShape
    <3> HIDE DEF o
    <3> QED BY <2>2, <3>2, <3>3 DEF Snapshot, OfferIsBacked
  <2>3. ASSUME NEW m, Over(m)
        PROVE  publisher'.offer.chunks * ChunkSize
                   <= publisher'.offer.allocatable
    <3>1. publisher'.offer = Nothing BY <2>3 DEF Over, OfferShape
    <3> QED BY <3>1 DEF Nothing, Deployment
  <2>4. CASE SnapshotFails
    BY <2>3, <2>4 DEF SnapshotFails, OfferIsBacked
  <2>5. CASE Publish
    <3>1. PICK located \in BOOLEAN,
               up \in [forecast: BOOLEAN, current: BOOLEAN],
               post \in {"ok", "replyLost", "failed"} :
         LET cache == IF located THEN loadCarbon(up) ELSE carbonCache
         IN  /\ carbonCache' = cache
             /\ advertisement' = IF post = "failed" THEN advertisement ELSE
                  [seen |-> 0, available |-> TRUE,
                   carbon |-> IF ~located THEN NoCarbon
                              ELSE IF cache.forecast # NoCarbon
                              THEN cache.forecast ELSE cache.current,
                   excused |-> ~(up.forecast /\ up.current)]
             /\ Over(IF post = "ok" THEN 0 ELSE OneMore)
      BY <2>5 DEF Publish
    <3>2. up.forecast => loadCarbon(up).forecast < CarbonTTL
      BY CarbonType DEF OfferShape
    <3>3. CarbonTTL \in Nat /\ NoCarbon \in Nat /\ CarbonTTL < NoCarbon
      BY DEF NoCarbon, Old, Deployment
    <3>4. /\ advertisement'.carbon # NoCarbon /\ ~advertisement'.excused
             => advertisement'.carbon < CarbonTTL
      <4>1. CASE post = "failed"
        <5>1. advertisement' = advertisement BY <3>1, <4>1
        <5> QED BY <5>1 DEF OfferIsBacked
      <4>2. CASE post # "failed" /\ ~located
        <5>1. advertisement'.carbon = NoCarbon BY <3>1, <4>2
        <5> QED BY <5>1
      <4>3. CASE post # "failed" /\ located
        <5> DEFINE cache == loadCarbon(up)
        <5>1. advertisement' =
                [seen |-> 0, available |-> TRUE,
                 carbon |-> IF cache.forecast # NoCarbon
                            THEN cache.forecast ELSE cache.current,
                 excused |-> ~(up.forecast /\ up.current)]
          BY <3>1, <4>3
        <5>2. up.forecast => cache.forecast < CarbonTTL BY <3>2
        <5>3. cache.forecast \in Nat BY CarbonType DEF OfferShape
        <5> HIDE DEF cache
        <5>4. /\ advertisement'.excused = ~(up.forecast /\ up.current)
              /\ cache.forecast # NoCarbon =>
                    advertisement'.carbon = cache.forecast
          BY <5>1
        <5>5. up.forecast => cache.forecast # NoCarbon
          BY <3>3, <5>2, <5>3
        <5> QED BY <5>2, <5>4, <5>5
      <4> QED BY <4>1, <4>2, <4>3
    <3>5. publisher'.offer.chunks * ChunkSize
              <= publisher'.offer.allocatable
      BY <2>3, <3>1
    <3> QED BY <3>4, <3>5 DEF OfferIsBacked
  <2>6. CASE Check
    <3>1. /\ advertisement'.carbon = advertisement.carbon
          /\ advertisement'.excused = advertisement.excused
      BY <2>6 DEF Check, OfferShape
    <3> QED BY <2>6, <3>1 DEF Check, OfferIsBacked
  <2>7. CASE Tick
    <3>1. /\ advertisement'.carbon = advertisement.carbon
          /\ advertisement'.excused = advertisement.excused
          /\ publisher'.offer = publisher.offer
      BY <2>7 DEF Tick, OfferShape
    <3> QED BY <3>1 DEF OfferIsBacked
  <2>8. CASE UNCHANGED PublisherVars BY <2>8 DEF PublisherVars, OfferIsBacked
  <2> QED BY <2>1, <2>2, <2>4, <2>5, <2>6, <2>7, <2>8 DEF PublisherNext
<1> QED BY <1>1, <1>2, PublisherInvariant, PTL DEF PublisherSpec
=============================================================================
