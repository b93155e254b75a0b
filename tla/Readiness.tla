----------------------------- MODULE Readiness ------------------------------
(***************************************************************************)
(* An agent's poll loop and its readiness gate.  The loop fetches a batch  *)
(* of instructions and runs their handlers one after the other on its own  *)
(* goroutine; the heartbeat or the publisher contacts the Broker on        *)
(* another.  Both tell the health probe, whose three atomics /readyz       *)
(* loads one by one, on a third.                                           *)
(*                                                                         *)
(* Time is what the comparisons make of it: a contact is recent or older   *)
(* than PollStaleAfter, a handler is within MaxHandlerInFlight or over it. *)
(***************************************************************************)
EXTENDS Federation

CONSTANT MaxBatch   \* bound on the instructions of one poll

VARIABLES
    loop,           \* the poll goroutine: where it is and what is left
    lastPollOK,     \* Probe.lastPollOK
    inFlight,       \* Probe.inFlight
    handlerSince,   \* Probe.handlerSince
    ready           \* /readyz: where Ready is, what it loaded, its verdict

GateVars == <<loop, lastPollOK, inFlight, handlerSince, ready>>

(* A dispatch: notifyHandlerActive(true) is two atomics, false is three.   *)
LoopPCs == {"tick", "next", "counted", "running", "returned", "refreshed",
            "cleared"}

Asleep == [pc |-> "idle", stale |-> FALSE, since |-> "zero", working |-> FALSE,
           returned |-> FALSE, verdict |-> "none"]

GateInit ==
    /\ loop = [pc |-> "tick", left |-> 0]
    /\ lastPollOK = "never"
    /\ inFlight = 0
    /\ handlerSince = "zero"
    /\ ready = Asleep

At(pc) == loop' = [loop EXCEPT !.pc = pc]

(* What Ready has seen while it runs: that a handler returned.             *)
Returned == ready' = [ready EXCEPT !.returned = @ \/ ready.pc # "idle"]

----------------------------------------------------------------------------
(* The poll loop *)

(* tick: GetInstructions answers with a batch, and the contact is          *)
(* recorded before any handler runs.                                       *)
Fetch ==
    /\ loop.pc = "tick"
    /\ \E n \in 0 .. MaxBatch :
           loop' = [pc |-> IF n = 0 THEN "tick" ELSE "next", left |-> n]
    /\ lastPollOK' = "recent"
    /\ UNCHANGED <<inFlight, handlerSince, ready>>

FetchFails ==
    /\ loop.pc = "tick"
    /\ UNCHANGED GateVars

(* notifyHandlerActive(true), first half: inFlight.Add(1).                 *)
Count ==
    /\ loop.pc = "next"
    /\ inFlight' = inFlight + 1
    /\ At("counted")
    /\ UNCHANGED <<lastPollOK, handlerSince, ready>>

(* Second half: the stretch starts when the count went from 0 to 1.        *)
Stamp ==
    /\ loop.pc = "counted"
    /\ handlerSince' = IF inFlight = 1 THEN "recent" ELSE handlerSince
    /\ At("running")
    /\ UNCHANGED <<lastPollOK, inFlight, ready>>

(* The handler returns, panics or does not exist: dispatch posts a result  *)
(* each time, and a post that fails is left to the Broker's redelivery.    *)
Handled ==
    /\ loop.pc = "running"
    /\ At("returned")
    /\ UNCHANGED <<lastPollOK, inFlight, handlerSince, ready>>

(* Mutant: a handler that returned does not count as a contact. *)
RefreshDropped ==
    /\ loop.pc = "returned"
    /\ Returned
    /\ At("refreshed")
    /\ UNCHANGED <<lastPollOK, inFlight, handlerSince>>

(* notifyHandlerActive(false), first: a handler that returned is proof     *)
(* that the loop is alive.                                                 *)
Refresh ==
    /\ loop.pc = "returned"
    /\ lastPollOK' = "recent"
    /\ Returned
    /\ At("refreshed")
    /\ UNCHANGED <<inFlight, handlerSince>>

(* Then the count.                                                         *)
Uncount ==
    /\ loop.pc = "refreshed"
    /\ inFlight' = IF inFlight > 0 THEN inFlight - 1 ELSE 0
    /\ At("cleared")
    /\ UNCHANGED <<lastPollOK, handlerSince, ready>>

(* Then the stretch, and on to the next instruction of the batch.          *)
Clear ==
    /\ loop.pc = "cleared"
    /\ handlerSince' = IF inFlight = 0 THEN "zero" ELSE handlerSince
    /\ loop' = [pc |-> IF loop.left = 1 THEN "tick" ELSE "next",
                left |-> loop.left - 1]
    /\ UNCHANGED <<lastPollOK, inFlight, ready>>

(* The role's own contact: a heartbeat or an advertisement got through.    *)
RecordPoll ==
    /\ lastPollOK' = "recent"
    /\ UNCHANGED <<loop, inFlight, handlerSince, ready>>

----------------------------------------------------------------------------
(* Time *)

(* PollStaleAfter has passed since the last contact: while the loop waits, *)
(* or while a handler runs or its result is posted, not within the few     *)
(* instructions that bracket it.                                           *)
ContactAges ==
    /\ lastPollOK = "recent"
    /\ loop.pc \in {"tick", "running", "returned"}
    /\ lastPollOK' = "stale"
    /\ UNCHANGED <<loop, inFlight, handlerSince, ready>>

(* MaxHandlerInFlight has passed since the stretch began.                  *)
HandlerAges ==
    /\ handlerSince = "recent"
    /\ loop.pc = "running"
    /\ handlerSince' = "over"
    /\ UNCHANGED <<loop, lastPollOK, inFlight, ready>>

----------------------------------------------------------------------------
(* /readyz *)

(* The loop runs a handler that is not over its time.                      *)
Working == loop.pc \in LoopPCs \ {"tick", "next"} /\ handlerSince # "over"

Verdict(v) == ready' = [ready EXCEPT !.pc = "idle", !.verdict = v]

(* Ready, first load.                                                      *)
LoadLast ==
    /\ ready.pc = "idle"
    /\ ready' = [pc |-> IF lastPollOK = "stale" THEN "since" ELSE "idle",
                 stale |-> lastPollOK = "stale", since |-> "zero",
                 working |-> Working, returned |-> FALSE,
                 verdict |-> IF lastPollOK = "never" THEN "red"
                             ELSE IF lastPollOK = "recent" THEN "green"
                             ELSE "none"]
    /\ UNCHANGED <<loop, lastPollOK, inFlight, handlerSince>>

(* Second load, of a contact that was stale.                               *)
LoadSince ==
    /\ ready.pc = "since"
    /\ ready' = [ready EXCEPT !.pc = "inFlight", !.since = handlerSince]
    /\ UNCHANGED <<loop, lastPollOK, inFlight, handlerSince>>

(* Mutant: a running handler keeps the gate green for good. *)
LoadInFlightUnbounded ==
    /\ ready.pc = "inFlight"
    /\ Verdict(IF inFlight > 0 /\ ready.since # "zero" THEN "green" ELSE "red")
    /\ UNCHANGED <<loop, lastPollOK, inFlight, handlerSince>>

(* Third load: a handler within its time keeps the gate green.             *)
LoadInFlight ==
    /\ ready.pc = "inFlight"
    /\ Verdict(IF inFlight > 0 /\ ready.since = "recent" THEN "green"
               ELSE "red")
    /\ UNCHANGED <<loop, lastPollOK, inFlight, handlerSince>>

Ready == LoadLast \/ LoadSince \/ LoadInFlight

Loop == Fetch \/ Count \/ Stamp \/ Refresh \/ Uncount \/ Clear

GateNext ==
    \/ Loop \/ FetchFails \/ Handled \/ RecordPoll \/ ContactAges
    \/ HandlerAges \/ Ready

GateSpec == GateInit /\ [][GateNext]_GateVars

(* The kubelet keeps asking.  Nothing is assumed of the handlers.          *)
GateFairness == WF_GateVars(Ready)

GateFairSpec == GateSpec /\ GateFairness

----------------------------------------------------------------------------
GateTypeOK ==
    /\ loop \in [pc: LoopPCs, left: 0 .. MaxBatch]
    /\ lastPollOK \in {"never", "recent", "stale"}
    /\ inFlight \in 0 .. 1
    /\ handlerSince \in {"zero", "recent", "over"}
    /\ ready \in [pc: {"idle", "since", "inFlight"}, stale: BOOLEAN,
                  since: {"zero", "recent", "over"}, working: BOOLEAN,
                  returned: BOOLEAN, verdict: {"none", "green", "red"}]

(* A reading that began while a handler was at work within its time is     *)
(* green, unless that handler returned, or went over its time, under it:   *)
(* neither a long peer nor the gap between two handlers of a batch turns   *)
(* the gate red.                                                           *)
BusyIsReady ==
    ready.verdict = "red" /\ ready.stale /\ ready.working
        => ready.returned \/ ready.since = "over"

(* A handler stuck over its time is seen: when nothing but it happens, no  *)
(* contact with the Broker included, /readyz keeps answering red.          *)
WedgedIsSeen ==
    <>[](loop.pc = "running" /\ handlerSince = "over" /\ lastPollOK = "stale")
        => []<>(ready.verdict = "red")
=============================================================================
