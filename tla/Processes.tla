----------------------------- MODULE Processes ------------------------------
(***************************************************************************)
(* The life of one process of the federation: the start-up of the agent in *)
(* either role, of the Broker and of the gRPC server, line by line; what   *)
(* happens to the process when one of its servers fails; the signal that   *)
(* stops it; and the kubelet that restarts it and probes it.  How a single *)
(* server drains is in Serving.                                            *)
(***************************************************************************)
EXTENDS Federation, Sequences

VARIABLES
    deployed,     \* the flags: one of Flags
    life,         \* "boot", "run" or "exited"
    line,         \* the next line of the start-up
    up,           \* the goroutines and runnables that run
    lead,         \* the manager holds the lease
    caught,       \* SetupSignalHandler has been called
    told,         \* the pod is being deleted
    procFaults    \* failed start-ups, servers and lost leases so far

vars == <<deployed, life, line, up, lead, caught, told, procFaults>>

Binaries == {"consumer", "provider", "broker", "grpc"}

(* complete: the mandatory flags are set, the certificates' among them;    *)
(* optional: the agent's console or the Broker's dashboard has an address. *)
Flags == [binary: Binaries, complete: BOOLEAN, optional: BOOLEAN,
          brain: {"central", "local"}]

ProcFault ==
    /\ procFaults < MaxFaults
    /\ procFaults' = procFaults + 1

-----------------------------------------------------------------------------
(* The start-up, as a sequence of lines: Check stops the process on wrong  *)
(* flags, Make builds something that needs files, a certificate or the     *)
(* Kubernetes API, Go starts a goroutine, Catch installs the handler of    *)
(* SIGTERM.                                                                *)

Check(ok) == <<[do |-> "check", what |-> ok]>>
Make(part) == <<[do |-> "make", what |-> part]>>
Go(part) == <<[do |-> "go", what |-> part]>>
Catch == <<[do |-> "catch", what |-> "signals"]>>

(* fedmanager.New *)
New == Make("manager")

(* The paths are mandatory; the key pair and the CA bundle are read once.  *)
BuildServerTLSConfig(d) == Check(d.complete) \o Make("server TLS")

(* brokerapi.NewRunnable and mgr.Add *)
NewRunnable(d) == BuildServerTLSConfig(d) \o Make("api")

NewDashboardRunnableFromServer(d) ==
    IF d.optional THEN Make("dashboard") ELSE <<>>

(* main of cmd/broker: the manager, its four reconcilers, the API, the     *)
(* dashboard if it has an address, mgr.Start.                              *)
brokerMain(d) ==
    New \o Make("reconcilers") \o NewRunnable(d)
        \o NewDashboardRunnableFromServer(d) \o Catch \o Go("manager")

(* grpcserver.New *)
NewGrpcServer(d) == Check(d.complete) \o Make("grpc TLS")

(* main of cmd/grpc-server.  The gRPC server runs beside the manager, on   *)
(* every replica, elected or not.                                          *)
grpcMain(d) ==
    New \o Make("agent client") \o Make("reconcilers") \o NewGrpcServer(d)
        \o Catch \o Go("grpc") \o Go("manager")

(* agentclient.New reads the client's key pair and the Broker's CA.        *)
BuildClientTLSConfig == Make("broker client")

(* The role, the ids, the URL and the three paths are mandatory.           *)
validateFlags(d) == d.complete

(* consumer.validate: everything main passes is set, but there is no       *)
(* catalog for a local brain yet.                                          *)
validate(d) == d.brain # "local"

Console(d) == IF d.optional THEN Go("console") ELSE <<>>

(* consumer.Run: the handlers are registered, the heartbeat starts, then   *)
(* the loopback API, which asks the heartbeat for the location.            *)
consumerRun(d) ==
    Check(validate(d)) \o Go("heartbeat") \o Go("localapi") \o Console(d)

(* provider.Run *)
providerRun(d) == Go("publisher") \o Console(d)

(* main of cmd/agent.  The poll loop is last: it runs in main itself.      *)
agentMain(d) ==
    Check(validateFlags(d)) \o Make("local client") \o BuildClientTLSConfig
        \o Catch \o Go("health")
        \o (IF d.binary = "consumer" THEN consumerRun(d) ELSE providerRun(d))
        \o Go("poller")

Lines(d) ==
    CASE d.binary = "broker" -> brokerMain(d)
      [] d.binary = "grpc" -> grpcMain(d)
      [] OTHER -> agentMain(d)

Blank ==
    /\ line' = 1 /\ up' = {} /\ lead' = FALSE /\ caught' = FALSE

Exits ==
    /\ life' = "exited"
    /\ Blank

Init ==
    /\ deployed \in Flags
    /\ life = "boot" /\ line = 1
    /\ up = {}
    /\ lead = FALSE /\ caught = FALSE /\ told = FALSE
    /\ procFaults = 0

(* One line of main.  Whatever fails ends in os.Exit(1).                   *)
BootLine ==
    LET now == Lines(deployed)[line]
        goesOn ==
            /\ line' = line + 1
            /\ life' = IF line = Len(Lines(deployed)) THEN "run" ELSE "boot"
            /\ up' = IF now.do = "go" THEN up \cup {now.what} ELSE up
            /\ caught' = (caught \/ now.do = "catch")
            /\ UNCHANGED lead
    IN
    /\ life = "boot"
    /\ \/ now.do = "check" /\ now.what /\ goesOn /\ UNCHANGED procFaults
       \/ now.do = "check" /\ ~ now.what /\ Exits /\ UNCHANGED procFaults
       \/ now.do # "check" /\ goesOn /\ UNCHANGED procFaults
       \/ now.do = "make" /\ Exits /\ ProcFault
    /\ UNCHANGED <<deployed, told>>

-----------------------------------------------------------------------------
(* The process runs.                                                       *)

(* NeedLeaderElection: the API and the dashboard wait for the lease.       *)
NeedLeaderElection(d) ==
    IF d.binary # "broker" THEN {}
    ELSE {"api"} \cup (IF d.optional THEN {"dashboard"} ELSE {})

(* The manager wins its lease and starts what has waited for it.           *)
Elected ==
    /\ "manager" \in up /\ ~ lead /\ ~ told
    /\ lead' = TRUE
    /\ up' = up \cup NeedLeaderElection(deployed)
    /\ UNCHANGED <<deployed, life, line, caught, told, procFaults>>

(* A manager that loses its lease returns an error from Start.             *)
LeaseLost ==
    /\ lead /\ ~ told /\ ProcFault
    /\ Exits
    /\ UNCHANGED <<deployed, told>>

Logged == {"health", "localapi", "console"}

(* Mutant: a failed gRPC server is logged. *)
ServerFailsLogged(s) ==
    /\ s \in up /\ ~ told /\ ProcFault
    /\ IF s \in Logged \cup {"grpc"}
       THEN up' = up \ {s} /\ UNCHANGED <<life, line, lead, caught>>
       ELSE Exits
    /\ UNCHANGED <<deployed, told>>

(* A listener fails.  The agent logs it and goes on without the server; a  *)
(* failed runnable ends the Broker's manager; the gRPC server's goroutine  *)
(* calls os.Exit(1).                                                       *)
ServerFails(s) ==
    /\ s \in up /\ ~ told /\ ProcFault
    /\ IF s \in Logged
       THEN up' = up \ {s} /\ UNCHANGED <<life, line, lead, caught>>
       ELSE Exits
    /\ UNCHANGED <<deployed, told>>

(* SIGTERM.  Before SetupSignalHandler it ends the process at once; after  *)
(* it, it ends the context everything runs under.                          *)
Terminate ==
    /\ ~ told
    /\ told' = TRUE
    /\ IF life = "exited" \/ ~ caught THEN Exits
       ELSE UNCHANGED <<life, line, up, lead, caught>>
    /\ UNCHANGED <<deployed, procFaults>>

(* The context is done: a goroutine returns; the manager only after its    *)
(* runnables have.                                                         *)
Return(s) ==
    /\ told /\ s \in up
    /\ s = "manager" => up \cap {"api", "dashboard"} = {}
    /\ up' = up \ {s}
    /\ UNCHANGED <<deployed, life, line, lead, caught, told, procFaults>>

(* main returns with its last call, whatever still runs beside it: the     *)
(* agent with the poll loop, the others with mgr.Start.                    *)
MainReturns ==
    /\ life = "run" /\ told
    /\ up \cap {"poller", "manager"} = {}
    /\ Exits
    /\ UNCHANGED <<deployed, told, procFaults>>

-----------------------------------------------------------------------------
(* The kubelet.                                                            *)

RestartPolicy ==
    /\ life = "exited" /\ ~ told
    /\ life' = "boot"
    /\ Blank
    /\ UNCHANGED <<deployed, told, procFaults>>

(* The liveness probe finds nobody on the agent's health port.             *)
LivenessProbe ==
    /\ life = "run" /\ ~ told
    /\ deployed.binary \in {"consumer", "provider"} /\ "health" \notin up
    /\ Exits
    /\ UNCHANGED <<deployed, told, procFaults>>

Servers == {"api", "dashboard", "grpc"} \cup Logged

Next ==
    \/ BootLine \/ Elected \/ LeaseLost \/ Terminate \/ MainReturns
    \/ \E s \in Servers : ServerFails(s)
    \/ \E s \in up : Return(s)
    \/ RestartPolicy \/ LivenessProbe

Spec == Init /\ [][Next]_vars

(* main goes on, a free lease is won, goroutines see the end of their      *)
(* context, and the kubelet restarts and probes.  Nothing forces a fault   *)
(* or the end of the pod.                                                  *)
Fairness ==
    /\ WF_vars(BootLine) /\ WF_vars(Elected) /\ WF_vars(MainReturns)
    /\ WF_vars(\E s \in up : Return(s))
    /\ WF_vars(RestartPolicy) /\ WF_vars(LivenessProbe)

FairSpec == Spec /\ Fairness

-----------------------------------------------------------------------------
TypeOK ==
    /\ deployed \in Flags
    /\ life \in {"boot", "run", "exited"}
    /\ line \in 1 .. Len(Lines(deployed)) + 1
    /\ up \subseteq
           Servers \cup {"manager", "heartbeat", "publisher", "poller"}
    /\ lead \in BOOLEAN /\ caught \in BOOLEAN /\ told \in BOOLEAN
    /\ procFaults \in 0 .. MaxFaults

(* What a deployed process is there for; the agent's loopback API and its  *)
(* console are not among it, their loss is only logged.                    *)
Vital(d) ==
    CASE d.binary = "broker" -> {"manager"} \cup NeedLeaderElection(d)
      [] d.binary = "grpc" -> {"manager", "grpc"}
      [] d.binary = "consumer" -> {"poller", "heartbeat", "health"}
      [] d.binary = "provider" -> {"poller", "publisher", "health"}

(* However a start-up, a listener or a lease fails, once the failures are  *)
(* over a process with valid flags runs everything it is there for, or, if *)
(* its pod is being deleted, has ended (os.Exit in the three mains, the    *)
(* errors of Run and mgr.Start).                                           *)
ServesOrEnds ==
    LET valid == /\ validateFlags(deployed)
                 /\ deployed.binary = "consumer" => validate(deployed)
    IN
    valid =>
        <>[](IF told THEN life = "exited" ELSE Vital(deployed) \subseteq up)
=============================================================================
