----------------------------- MODULE MCServices -----------------------------
(***************************************************************************)
(* Model checking of the services around the reservations and of the       *)
(* processes they run in: the external cloud provider, the projection of   *)
(* virtual nodes, the ranking of providers, the latency prober, the link   *)
(* to the Broker, readiness, the publisher, the console, the servers'      *)
(* life-cycle, the processes and the test bed.  Their specifications share *)
(* no variable, so that nothing is learnt from interleaving their steps:   *)
(* `part` says which of them a behaviour is one of, and the others stay as *)
(* they start.                                                             *)
(***************************************************************************)
EXTENDS AgentLink, Readiness, Publisher, Console, CloudProvider, Prober,
        Sequences

CONSTANTS
    LatencyShortlistSize, MaxOwn, deployMaxAttempts, MaxBedFaults

(* What a provider may have on offer: nothing; a plain site; one short of  *)
(* memory for a second chunk; one short of cpu for the first; a GPU site   *)
(* without a location; two sites that make a chunk only together.          *)
Site(c, m, g, price, f, i, green, d, r) ==
    [cpu |-> c, memory |-> m, gpu |-> g,
     prices |-> [cpu |-> price, memory |-> 1], forecast |-> f,
     intensity |-> i, renewable |-> green, distance |-> d, rtt |-> r]
OfferSets ==
    {[sites |-> <<>>, others |-> 0],
     [sites |-> <<Site(2000, 8192, 0, 1, <<5>>, 9, FALSE, 0, 1)>>,
      others |-> 0],
     [sites |-> <<Site(4000, 8191, 0, 2, <<9, 1>>, -1, TRUE, 1, -1)>>,
      others |-> 1],
     [sites |-> <<Site(1999, 9000, 0, 1, <<>>, 5, TRUE, 2, -1)>>,
      others |-> 1],
     [sites |-> <<Site(4000, 8192, 1, 1, <<>>, -1, FALSE, -1, 2)>>,
      others |-> 0],
     [sites |-> <<Site(1999, 4096, 0, 1, <<>>, -1, FALSE, 1, -1),
                  Site(2001, 4096, 0, 2, <<>>, -1, FALSE, -1, -1)>>,
      others |-> 0]}

(* The configuration files: an empty one, one that is valid and one that   *)
(* is not.                                                                 *)
Config(nc, np, regions, mode, duration, timer) ==
    [consumers |-> nc, providers |-> np, regions |-> regions,
     mode |-> mode, duration |-> duration, timer |-> timer,
     delays |-> {}, tcDelays |-> IF nc = 0 THEN {} ELSE {1}]
Configs ==
    {Config(0, 0, 0, "", "", 0), Config(2, 2, 2, "reserve", "time", 1),
     Config(1, 2, 2, "reserve", "time", 0)}

VARIABLES
    part,                   \* the specification a behaviour is one of
    vnode, nodeSeen, state, stateSeen, queue, projector, vnFaults,
    offers, bookings,
    kind, cancelled, server, request, serving, draining, channel,
    deployed, life, line, up, lead, caught, told, procFaults,
    config, keep, bed, specs, alive, stuck, signalled, bedFaults

VN == INSTANCE VirtualNodes
PL == INSTANCE Placement
SV == INSTANCE Serving
PS == INSTANCE Processes
TB == INSTANCE TestBed

vVN == <<vnode, nodeSeen, state, stateSeen, queue, projector, vnFaults>>
vPL == <<offers, bookings>>
vSV == <<kind, cancelled, server, request, serving, draining, channel>>
vPS == <<deployed, life, line, up, lead, caught, told, procFaults>>
vTB == <<config, keep, bed, specs, alive, stuck, signalled, bedFaults>>
vars == <<part, CloudVars, vVN, vPL, ProberVars, LinkVars, GateVars,
          PublisherVars, ConsoleVars, vSV, vPS, vTB>>

Parts == {"CP", "VN", "PL", "PR", "AL", "RD", "PU", "CO", "SV", "PS", "TB"}

(* What is looked at is a choice only in the behaviours about it.          *)
Init ==
    /\ part \in Parts
    /\ CloudInit /\ VN!Init /\ PL!Init /\ ProberInit /\ LinkInit
    /\ GateInit /\ PublisherInit /\ ConsoleInit /\ SV!Init /\ PS!Init
    /\ TB!Init
    /\ part # "SV" => kind = "start"
    /\ part # "CO" => name = "prices"
    /\ part # "PS" => deployed = CHOOSE d \in PS!Flags : TRUE
    /\ part # "TB" => config = Config(0, 0, 0, "", "", 0) /\ keep

NextCP ==
    /\ part = "CP" /\ CloudNext
    /\ UNCHANGED <<part, vVN, vPL, ProberVars, LinkVars, GateVars,
                   PublisherVars, ConsoleVars, vSV, vPS, vTB>>

NextVN ==
    /\ part = "VN" /\ VN!Next
    /\ UNCHANGED <<part, CloudVars, vPL, ProberVars, LinkVars, GateVars,
                   PublisherVars, ConsoleVars, vSV, vPS, vTB>>

NextPL ==
    /\ part = "PL" /\ PL!Next
    /\ UNCHANGED <<part, CloudVars, vVN, ProberVars, LinkVars, GateVars,
                   PublisherVars, ConsoleVars, vSV, vPS, vTB>>

NextPR ==
    /\ part = "PR" /\ ProberNext
    /\ UNCHANGED <<part, CloudVars, vVN, vPL, LinkVars, GateVars,
                   PublisherVars, ConsoleVars, vSV, vPS, vTB>>

NextAL ==
    /\ part = "AL" /\ LinkNext
    /\ UNCHANGED <<part, CloudVars, vVN, vPL, ProberVars, GateVars,
                   PublisherVars, ConsoleVars, vSV, vPS, vTB>>

NextRD ==
    /\ part = "RD" /\ GateNext
    /\ UNCHANGED <<part, CloudVars, vVN, vPL, ProberVars, LinkVars,
                   PublisherVars, ConsoleVars, vSV, vPS, vTB>>

NextPU ==
    /\ part = "PU" /\ PublisherNext
    /\ UNCHANGED <<part, CloudVars, vVN, vPL, ProberVars, LinkVars,
                   GateVars, ConsoleVars, vSV, vPS, vTB>>

NextCO ==
    /\ part = "CO" /\ ConsoleNext
    /\ UNCHANGED <<part, CloudVars, vVN, vPL, ProberVars, LinkVars,
                   GateVars, PublisherVars, vSV, vPS, vTB>>

NextSV ==
    /\ part = "SV" /\ SV!Next
    /\ UNCHANGED <<part, CloudVars, vVN, vPL, ProberVars, LinkVars,
                   GateVars, PublisherVars, ConsoleVars, vPS, vTB>>

NextPS ==
    /\ part = "PS" /\ PS!Next
    /\ UNCHANGED <<part, CloudVars, vVN, vPL, ProberVars, LinkVars,
                   GateVars, PublisherVars, ConsoleVars, vSV, vTB>>

NextTB ==
    /\ part = "TB" /\ TB!Next
    /\ UNCHANGED <<part, CloudVars, vVN, vPL, ProberVars, LinkVars,
                   GateVars, PublisherVars, ConsoleVars, vSV, vPS>>

Next ==
    \/ NextCP \/ NextVN \/ NextPL \/ NextPR \/ NextAL
    \/ NextRD \/ NextPU \/ NextCO \/ NextSV \/ NextPS
    \/ NextTB

(* The fairness the specifications state.                                  *)
Fairness ==
    /\ WF_CloudVars(part = "CP" /\ CALoop)
    /\ \A i \in Resv : WF_CloudVars(part = "CP" /\ Peering(i))
    /\ \A i \in Resv : WF_CloudVars(part = "CP" /\ Liqo(i))
    /\ \A i \in Resv : WF_CloudVars(part = "CP" /\ VnsProjected(i))
    /\ WF_vVN(part = "VN" /\ VN!NodeEvent)
    /\ WF_vVN(part = "VN" /\ VN!StateEvent)
    /\ WF_vVN(part = "VN" /\ VN!RequeueTimer)
    /\ WF_vVN(part = "VN" /\ VN!Reconcile)
    /\ WF_vVN(part = "VN" /\ VN!UpdateStatus)
    /\ WF_LinkVars(part = "AL" /\ beatOnce)
    /\ \A c \in Senders : WF_LinkVars(part = "AL" /\ Caller(c))
    /\ WF_GateVars(part = "RD" /\ Ready)
    /\ WF_vSV(part = "SV" /\ SV!ServingSteps)
    /\ WF_vSV(part = "SV" /\ SV!DrainingSteps)
    /\ WF_vPS(part = "PS" /\ PS!BootLine)
    /\ WF_vPS(part = "PS" /\ PS!Elected)
    /\ WF_vPS(part = "PS" /\ PS!MainReturns)
    /\ WF_vPS(part = "PS" /\ \E s \in up : PS!Return(s))
    /\ WF_vPS(part = "PS" /\ PS!RestartPolicy)
    /\ WF_vPS(part = "PS" /\ PS!LivenessProbe)
    /\ WF_vTB(part = "TB" /\ TB!run)

Spec == Init /\ [][Next]_vars
FairSpec == Spec /\ Fairness

-----------------------------------------------------------------------------
(* Every component keeps to its types.                                     *)
TypeOK ==
    /\ part \in Parts
    /\ part = "CP" => CloudTypeOK
    /\ part = "VN" => VN!TypeOK
    /\ part = "PL" => PL!TypeOK
    /\ part = "PR" => ProberTypeOK
    /\ part = "AL" => LinkTypeOK
    /\ part = "RD" => GateTypeOK
    /\ part = "PU" => PublisherTypeOK
    /\ part = "CO" => ConsoleTypeOK
    /\ part = "SV" => SV!TypeOK
    /\ part = "PS" => PS!TypeOK
    /\ part = "TB" => TB!TypeOK

(* A node that has settled shows in the status the gRPC server reads, even *)
(* when the watch event of its last change was dropped or a write lost a   *)
(* conflict (requestsForNode on a failed List, RequeueAfter).              *)
ProjectionCatchesUp == VN!ProjectionCatchesUp

(* Every policy grows providers in its order and within the latency bound: *)
(* the three above, whatever is booked, full or still peering.             *)
PreferredGrows == part = "PL" => PL!PreferredGrows

(* The brain leaves the same providers growable as the Broker, for         *)
(* single-site providers, whatever other consumers hold: "every policy     *)
(* behaves exactly as it does on the Broker".  Standard is left out: it    *)
(* ranks by the free share, and only the Broker counts the chunks of other *)
(* consumers in it.                                                        *)
BrainAgrees == part = "PL" => PL!BrainAgrees

(* A policy that stays reaches the Broker and stays there, through         *)
(* restarts of the Broker and through old heartbeats that arrive late.     *)
PolicyReachesBroker == part = "AL" => PolicyArrives

(* A server told to stop stops: Start, Run and Serve return once the       *)
(* context has ended, whatever the requests in flight do and wherever the  *)
(* server was, and leave no goroutine behind that waits on the channel.    *)
StopsWhenTold == SV!StopsWhenTold

(* However a start-up, a listener or a lease fails, once the failures are  *)
(* over a process with valid flags runs everything it is there for, or, if *)
(* its pod is being deleted, has ended (os.Exit in the three mains, the    *)
(* errors of Run and mgr.Start).                                           *)
ServesOrEnds == part = "PS" => PS!ServesOrEnds

(* A run ends, and leaves no cluster behind that it was not told to keep   *)
(* and that could be deleted, wherever the set-up or the experiment failed *)
(* or was interrupted, half-created clusters included (run, Teardown).     *)
EndsClean == part = "TB" => TB!EndsClean
=============================================================================
