------------------------------ MODULE Serving -------------------------------
(***************************************************************************)
(* The network servers of the three binaries and how they stop.  Each is   *)
(* two goroutines and a channel between them: one serves, the other waits  *)
(* for the process's context to end and then drains the server.            *)
(*                                                                         *)
(*   "start"  the Broker's API and dashboard runnables: the caller drains, *)
(*            the goroutine serves and sends how serving ended             *)
(*   "run"    the agent's loopback API, console and health probe: the      *)
(*            caller serves, the goroutine drains and sends the outcome    *)
(*   "grpc"   the external cloud provider server: like "start", but the    *)
(*            outcome of serving is awaited after a forced stop too        *)
(*                                                                         *)
(* A request may hang for good, a listener may fail at any time, and the   *)
(* context may end before the server even listens.                         *)
(***************************************************************************)
EXTENDS Federation

VARIABLES
    kind,           \* which of the servers it is
    cancelled,      \* the context has ended
    server,         \* the listener
    request,        \* whether a request is in flight
    serving,        \* the goroutine in Serve or ListenAndServe
    draining,       \* the goroutine that waits for the context
    channel         \* what was sent and not yet received

vars == <<kind, cancelled, server, request, serving, draining, channel>>

Kinds == {"start", "run", "grpc"}

Init ==
    /\ kind \in Kinds
    /\ cancelled = FALSE
    /\ server = "new"
    /\ request = FALSE
    /\ serving = "begin"
    /\ draining = "select"
    /\ channel = <<>>

----------------------------------------------------------------------------
(* The channel *)

(* Mutant: the channel has no buffer. *)
SendUnbuffered(v) ==
    /\ IF kind = "run" THEN serving = "wait"
       ELSE draining \in {"select", "drained"}
    /\ channel = <<>>
    /\ channel' = <<v>>

(* A channel with room for one value: the send does not wait.              *)
Send(v) ==
    /\ channel = <<>>
    /\ channel' = <<v>>

Receive ==
    /\ channel # <<>>
    /\ channel' = <<>>

----------------------------------------------------------------------------
(* Serving *)

(* Serve starts to listen; a server that was stopped before returns at     *)
(* once.                                                                   *)
Listen ==
    /\ serving = "begin"
    /\ IF server = "new"
       THEN server' = "listening" /\ serving' = "accept"
       ELSE serving' = "closed" /\ UNCHANGED server
    /\ UNCHANGED <<kind, cancelled, request, draining, channel>>

(* The listener is closed by the other goroutine.                          *)
Closed ==
    /\ serving = "accept" /\ server = "stopped"
    /\ serving' = "closed"
    /\ UNCHANGED <<kind, cancelled, server, request, draining, channel>>

(* The address is taken, or the listener fails.                            *)
ListenerFails ==
    /\ serving \in {"begin", "accept"} /\ server # "stopped"
    /\ serving' = "failed"
    /\ UNCHANGED <<kind, cancelled, server, request, draining, channel>>

(* What follows Serve: the outcome is sent, or ("run") the outcome of the  *)
(* drain is awaited unless serving failed.                                 *)
Served ==
    /\ serving \in {"closed", "failed"}
    /\ IF kind = "run"
       THEN /\ serving' = IF serving = "closed" THEN "wait" ELSE "done"
            /\ UNCHANGED channel
       ELSE /\ Send(serving)
            /\ serving' = "done"
    /\ UNCHANGED <<kind, cancelled, server, request, draining>>

DrainReceived ==
    /\ serving = "wait" /\ Receive
    /\ serving' = "done"
    /\ UNCHANGED <<kind, cancelled, server, request, draining>>

----------------------------------------------------------------------------
(* Draining *)

(* The context has ended: the listener is closed and requests in flight    *)
(* are given time.                                                         *)
Shutdown ==
    /\ draining = "select" /\ cancelled
    /\ server' = "stopped"
    /\ draining' = "drain"
    /\ UNCHANGED <<kind, cancelled, request, serving, channel>>

(* The caller's select takes the outcome of serving instead.               *)
ServeReceived ==
    /\ kind # "run" /\ draining = "select" /\ Receive
    /\ draining' = "done"
    /\ UNCHANGED <<kind, cancelled, server, request, serving>>

Drained ==
    /\ draining = "drain" /\ ~request
    /\ draining' = "drained"
    /\ UNCHANGED <<kind, cancelled, server, request, serving, channel>>

(* The shutdown timeout passes first.  The Broker's runnables and the gRPC *)
(* server cut the connections, the agent's servers leave them to the end   *)
(* of the process.                                                         *)
Deadline ==
    /\ draining = "drain" /\ request
    /\ draining' = IF kind = "start" THEN "done" ELSE "drained"
    /\ request' = (kind = "run")
    /\ UNCHANGED <<kind, cancelled, server, serving, channel>>

(* What follows the drain.                                                 *)
AfterDrain ==
    /\ draining = "drained"
    /\ IF kind = "run" THEN Send("drained") ELSE Receive
    /\ draining' = "done"
    /\ UNCHANGED <<kind, cancelled, server, request, serving>>

----------------------------------------------------------------------------
(* The context, and the clients *)

Cancel ==
    /\ ~cancelled
    /\ cancelled' = TRUE
    /\ UNCHANGED <<kind, server, request, serving, draining, channel>>

RequestArrives ==
    /\ server = "listening" /\ serving = "accept" /\ ~request
    /\ request' = TRUE
    /\ UNCHANGED <<kind, cancelled, server, serving, draining, channel>>

RequestEnds ==
    /\ request
    /\ request' = FALSE
    /\ UNCHANGED <<kind, cancelled, server, serving, draining, channel>>

ServingSteps == Listen \/ Closed \/ Served \/ DrainReceived
DrainingSteps ==
    Shutdown \/ ServeReceived \/ Drained \/ Deadline \/ AfterDrain

Next ==
    \/ ServingSteps \/ DrainingSteps \/ ListenerFails
    \/ Cancel \/ RequestArrives \/ RequestEnds

Spec == Init /\ [][Next]_vars

(* Goroutines run and timers fire; nothing is assumed of the requests.     *)
Fairness == WF_vars(ServingSteps) /\ WF_vars(DrainingSteps)

FairSpec == Spec /\ Fairness

----------------------------------------------------------------------------
TypeOK ==
    /\ kind \in Kinds /\ cancelled \in BOOLEAN /\ request \in BOOLEAN
    /\ server \in {"new", "listening", "stopped"}
    /\ serving \in {"begin", "accept", "closed", "failed", "wait", "done"}
    /\ draining \in {"select", "drain", "drained", "done"}
    /\ channel \in {<<>>} \cup
                   {<<v>> : v \in {"closed", "failed", "drained"}}

(* A server told to stop stops: Start, Run and Serve return once the       *)
(* context has ended, whatever the requests in flight do and wherever the  *)
(* server was, and leave no goroutine behind that waits on the channel.    *)
StopsWhenTold ==
    []<>(cancelled => serving = "done" /\ draining = "done")
=============================================================================
