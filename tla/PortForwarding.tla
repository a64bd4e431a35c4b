--------------------------- MODULE PortForwarding ---------------------------
(***************************************************************************)
(* Published ports of `pelagos run`, end to end: the CLI that registers a  *)
(* port and starts a container (Commands::Run, pelagos-mac/src/main.rs),   *)
(* the daemon's port table (PortBook) and the subscription watcher that is *)
(* to free the ports of a container that has exited, fed by the guest's    *)
(* event stream (GuestEvents).                                             *)
(*                                                                         *)
(* The table is not told which container a port belongs to: the watcher    *)
(* guesses it from the container's published ports.                        *)
(***************************************************************************)
EXTENDS GuestEvents

CONSTANTS
    HostPorts, ContainerPorts, None,
    Host(_),     \* container name -> the host port of its -p flag
    CliReliable  \* assume no CLI is killed half-way and no Run is refused

ASSUME PublishAssumption ==
    /\ \A n \in Names : Host(n) \in HostPorts
    /\ None \notin ContainerPorts
    /\ CliReliable \in BOOLEAN

VARIABLES
    active, projects,   \* the daemon's PortState (see PortBook)
    cli                 \* name -> progress of the `pelagos run` that starts it

allVars == <<streamVars, active, projects, cli>>
portVars == <<active, projects>>

Book == INSTANCE PortBook WITH Projects <- {}

-----------------------------------------------------------------------------
PortInit ==
    /\ StreamInit
    /\ containers = [n \in Names |-> "absent"]
    /\ active = [h \in HostPorts |-> None]
    /\ projects = [p \in {} |-> {}]
    /\ cli = [n \in Names |-> "idle"]

(* `pelagos run [-d] -p host:c`.  RegisterPort: a free port or the same    *)
(* mapping is Ok; any other mapping is refused and the CLI exits.  Whether *)
(* the name is taken is only found out by the guest, later.                *)
CliRegisters(n, c, mode) ==
    /\ cli[n] = "idle"
    /\ \/ /\ Book!Register(Host(n), c) \/ Book!RegisterSame(Host(n), c)
          /\ cli' = [cli EXCEPT ![n] = mode]
       \/ Book!RegisterConflict(Host(n), c) /\ UNCHANGED cli
    /\ UNCHANGED streamVars

Registered(n) == cli[n] \in {"foreground", "detached"}

(* The runtime publishes a port for one container at a time.               *)
CanPublish(n) ==
    \A m \in Names \ {n} : containers[m] = "running" => Host(m) # Host(n)

(* GuestCommand::Run: the container starts; a detached CLI then exits and  *)
(* leaves the port to the watcher, a foreground one stays.                 *)
CliRuns(n) ==
    /\ Registered(n)
    /\ containers[n] = "absent"
    /\ CanPublish(n)
    /\ ContainerStarts(n)
    /\ cli' = [cli EXCEPT ![n] = IF @ = "detached" THEN "idle" ELSE "attached"]
    /\ UNCHANGED portVars

(* The guest refuses the Run, as it does when the name is taken: the CLI   *)
(* exits, and only a foreground one takes its port back.                   *)
CliRunRefused(n) ==
    /\ ~CliReliable \/ containers[n] # "absent"
    /\ Registered(n)
    /\ IF cli[n] = "detached" THEN UNCHANGED portVars ELSE Book!Unregister(Host(n))
    /\ cli' = [cli EXCEPT ![n] = "idle"]
    /\ UNCHANGED streamVars

(* The foreground container has exited: the CLI unregisters and exits.     *)
CliUnregisters(n) ==
    /\ cli[n] = "attached"
    /\ containers[n] # "running"
    /\ Book!Unregister(Host(n))
    /\ cli' = [cli EXCEPT ![n] = "idle"]
    /\ UNCHANGED streamVars

(* The CLI ends with its port registered: a signal, wherever it is, or     *)
(* exit(1) because a later -p of the same command was refused, which takes *)
(* none of the earlier ones back.                                          *)
CliKilled(n) ==
    /\ ~CliReliable
    /\ cli[n] # "idle"
    /\ cli' = [cli EXCEPT ![n] = "idle"]
    /\ UNCHANGED <<streamVars, active, projects>>

(* A container's end, whoever brings it about.                             *)
ContainerEnds(n) ==
    /\ ContainerExits(n) \/ ContainerRemoved(n)
    /\ UNCHANGED <<active, projects, cli>>

(* `pelagos start` and `restart` of an exited container: the guest starts  *)
(* it again, and nobody registers its port.                                *)
ContainerRestarts(n) ==
    /\ containers[n] = "exited"
    /\ CanPublish(n)
    /\ ContainerStarts(n)
    /\ UNCHANGED <<active, projects, cli>>

(* Broken variant: the watcher forgets the container and keeps its ports.  *)
WatcherKeeps == Receive /\ UNCHANGED <<active, projects, cli>>

(* subscription_watcher_loop: on ContainerExited the ports of a container  *)
(* it knows leave the table.                                               *)
WatcherReceives ==
    /\ Receive
    /\ LET e == Head(conn[client].wire)
       IN  IF e.type = "exited" /\ view[e.name] # "absent"
           THEN Book!ReleasePorts({Host(e.name)})
           ELSE UNCHANGED portVars
    /\ UNCHANGED cli

(* The rest of the guest and of the connection.                            *)
GuestStep ==
    /\ \/ PollRead \/ PollBroadcast \/ ConnectionLost
       \/ \E k \in ConnIds : Subscribe(k) \/ Handler(k)
    /\ UNCHANGED <<active, projects, cli>>

PortNext ==
    \/ \E n \in Names :
          \/ \E c \in ContainerPorts, mode \in {"foreground", "detached"} :
                CliRegisters(n, c, mode)
          \/ CliRuns(n) \/ CliRunRefused(n) \/ CliUnregisters(n) \/ CliKilled(n)
          \/ ContainerEnds(n) \/ ContainerRestarts(n)
    \/ WatcherReceives
    \/ GuestStep

PortSpec == PortInit /\ [][PortNext]_allVars

(* The poller's timer and both ends of a connection keep running, the      *)
(* watcher reconnects, and a CLI that has been told to exit does.          *)
(* Containers, connections and other commands owe nothing.                 *)
PortFairSpec ==
    /\ PortSpec
    /\ WF_allVars(WatcherReceives)
    /\ WF_allVars(PollRead /\ UNCHANGED <<active, projects, cli>>)
    /\ WF_allVars(PollBroadcast /\ UNCHANGED <<active, projects, cli>>)
    /\ \A k \in ConnIds :
          WF_allVars((Subscribe(k) \/ Handler(k)) /\ UNCHANGED <<active, projects, cli>>)
    /\ \A n \in Names : WF_allVars(CliUnregisters(n))

-----------------------------------------------------------------------------
(* PROPERTIES *)

InUse(h) ==
    \E n \in Names : Host(n) = h /\ (cli[n] # "idle" \/ containers[n] = "running")

(* The watcher has read the snapshot of its connection.                    *)
InStep(k) ==
    /\ client = k /\ conn[k].st = "streaming"
    /\ \A i \in DOMAIN conn[k].wire : conn[k].wire[i].type # "snapshot"

(* A container the watcher has seen running gives its port back: once it   *)
(* has stopped, and nobody else uses the port, the port leaves the table,  *)
(* unless the connection goes or drops a batch (subscription_watcher_loop).*)
TrackedExitFreesPort ==
    \A n \in Names, k \in ConnIds :
        (InStep(k) /\ view[n] = "running" /\ containers[n] # "running")
            ~> \/ active[Host(n)] = None \/ InUse(Host(n))
               \/ client # k \/ conn[k].lossy

(* Claimed by start_subscription_watcher ("automatically removes port      *)
(* forwards from PortState when a container exits") and by Commands::Run   *)
(* ("deregistration will be handled by the subscription watcher"): a port  *)
(* nobody uses any more does not stay in the table.  Fails for a container *)
(* that exits while the watcher is not connected.                          *)
UnusedPortIsFreed ==
    \A h \in HostPorts :
        (active[h] # None /\ ~InUse(h)) ~> (active[h] = None \/ InUse(h))

(* Claimed by subscription_watcher_loop ("look up which ports belong to    *)
(* that container"): the exit of one container never takes the port of     *)
(* another one that runs.  Fails when the port was registered again before *)
(* the exit was noticed.                                                   *)
ExitFreesOwnPortOnly ==
    [][ \A n \in Names :
          /\ cli[n] = "idle" /\ containers[n] = "running" /\ active[Host(n)] # None
          /\ WatcherReceives
          => active'[Host(n)] # None \/ Head(conn[client].wire).name = n ]_allVars
=============================================================================
