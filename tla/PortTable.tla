----------------------------- MODULE PortTable ------------------------------
(***************************************************************************)
(* The daemon's port-forward state and the threads behind it               *)
(* (pelagos-mac/src/daemon.rs: PortState, PortProxy, port_proxy_loop,      *)
(* handle_daemon_cmd).                                                     *)
(*                                                                         *)
(* A forward is served by a thread of its own that binds the host port     *)
(* only once it is scheduled, and that learns of its shutdown only when    *)
(* accept() next returns.  The table is changed under a mutex; the threads *)
(* are not.  Registering takes two steps because the new thread runs as    *)
(* soon as it is spawned, before its handle replaces the old one.          *)
(***************************************************************************)
EXTENDS Naturals, Sequences

CONSTANTS
    HostPorts, ContainerPorts, Projects, None,
    MaxProxies,   \* bound: PortProxy threads spawned in one daemon lifetime
    MaxBacklog    \* bound: client connections waiting in one listen queue

ASSUME NoneAssumption == None \notin HostPorts \cup ContainerPorts
ASSUME BoundsAssumption == MaxProxies \in Nat /\ MaxBacklog \in Nat

VARIABLES
    active,     \* PortState.active: host port -> container port, or None
    projects,   \* PortState.compose_projects
    proxies,    \* PortState.proxies: host port -> thread id, 0 for no entry
    pending,    \* the RegisterPort that holds the mutex with its thread already
                \* spawned and not yet in the table, or [port |-> None]
    thread      \* thread id -> what port_proxy_loop is doing

vars == <<active, projects, proxies, pending, thread>>

ProxyIds == 1..MaxProxies

Idle == [port |-> None, target |-> None, id |-> 0]

PendingType ==
    {Idle} \cup [port : HostPorts, target : ContainerPorts, id : ProxyIds]

(* "spawned": not yet bound; "failed": bind returned an error and the loop *)
(* returned; "stopped": the loop ended and closed the listener.            *)
ThreadStates == {"unborn", "spawned", "listening", "failed", "stopped"}

ThreadType ==
    [st : ThreadStates, port : HostPorts \cup {None},
     target : ContainerPorts \cup {None}, shutdown : BOOLEAN,
     queue : Seq({"wake", "client"})]

Unborn == [st |-> "unborn", port |-> None, target |-> None,
           shutdown |-> FALSE, queue |-> <<>>]

(* PortProxy::start: a thread that has not run yet.                        *)
Start(h, c) == [st |-> "spawned", port |-> h, target |-> c,
                shutdown |-> FALSE, queue |-> <<>>]

TypeOK ==
    /\ active \in [HostPorts -> ContainerPorts \cup {None}]
    /\ projects \in [Projects -> SUBSET HostPorts]
    /\ proxies \in [HostPorts -> 0..MaxProxies]
    /\ pending \in PendingType
    /\ thread \in [ProxyIds -> ThreadType]

Unlocked == pending.port = None

IsListening(t) == thread[t].st = "listening"

Listener(h) == {t \in ProxyIds : IsListening(t) /\ thread[t].port = h}

Without(f, S) == [h \in DOMAIN f |-> IF h \in S THEN None ELSE f[h]]

(* Broken variants of DropProxy: the flag is not set, or nobody is woken.  *)
DropWithoutFlag(h) ==
    [t \in ProxyIds |->
        [thread[t] EXCEPT
            !.queue = IF proxies[h] # 0 /\ t \in Listener(h) THEN Append(@, "wake") ELSE @]]

DropWithoutWake(h) ==
    [t \in ProxyIds |-> [thread[t] EXCEPT !.shutdown = @ \/ proxies[h] = t]]

(* Drop of the PortProxy in proxies[h]: its flag is set, then a connection *)
(* to the host port wakes whichever thread is accepting there.             *)
DropProxy(h) ==
    [t \in ProxyIds |->
        [thread[t] EXCEPT
            !.shutdown = @ \/ proxies[h] = t,
            !.queue = IF proxies[h] # 0 /\ t \in Listener(h) THEN Append(@, "wake") ELSE @]]

-----------------------------------------------------------------------------
(* `vm start -p`: one thread per forward is spawned and entered in the     *)
(* table before the accept loop starts.                                    *)
Init ==
    /\ active \in [HostPorts -> ContainerPorts \cup {None}]
    /\ projects = [p \in Projects |-> {}]
    /\ proxies \in [HostPorts -> 0..MaxProxies]
    /\ \A h \in HostPorts : proxies[h] = 0 <=> active[h] = None
    /\ \A h, k \in HostPorts : proxies[h] = proxies[k] /\ proxies[h] # 0 => h = k
    /\ pending = Idle
    /\ thread \in [ProxyIds -> {Unborn} \cup
                               {Start(h, c) : h \in HostPorts, c \in ContainerPorts}]
    /\ \A t \in ProxyIds :
          \/ \E h \in HostPorts : proxies[h] = t /\ thread[t] = Start(h, active[h])
          \/ (\A h \in HostPorts : proxies[h] # t) /\ thread[t] = Unborn

(* Broken variant: the conflict check is left out.                         *)
RegisterSpawnUnchecked(h, c) ==
    /\ Unlocked
    /\ \E t \in ProxyIds :
          /\ thread[t] = Unborn
          /\ \A u \in ProxyIds : u < t => thread[u] # Unborn
          /\ thread' = [thread EXCEPT ![t] = Start(h, c)]
          /\ pending' = [port |-> h, target |-> c, id |-> t]
    /\ UNCHANGED <<active, projects, proxies>>

(* DaemonCmd::RegisterPort on a host port that is not active: the proxy    *)
(* thread is spawned ...                                                   *)
RegisterSpawn(h, c) ==
    /\ Unlocked
    /\ active[h] = None
    /\ \E t \in ProxyIds :
          /\ thread[t] = Unborn
          /\ \A u \in ProxyIds : u < t => thread[u] # Unborn
          /\ thread' = [thread EXCEPT ![t] = Start(h, c)]
          /\ pending' = [port |-> h, target |-> c, id |-> t]
    /\ UNCHANGED <<active, projects, proxies>>

(* Broken variant: the old handle is forgotten (mem::forget, or kept in a  *)
(* list) instead of dropped by the insert.                                 *)
RegisterInsertLeaks ==
    /\ ~Unlocked
    /\ proxies' = [proxies EXCEPT ![pending.port] = pending.id]
    /\ active' = [active EXCEPT ![pending.port] = pending.target]
    /\ pending' = Idle
    /\ UNCHANGED <<projects, thread>>

(* ... and entered in the table; a handle left there is dropped by insert. *)
RegisterInsert ==
    /\ ~Unlocked
    /\ thread' = DropProxy(pending.port)
    /\ proxies' = [proxies EXCEPT ![pending.port] = pending.id]
    /\ active' = [active EXCEPT ![pending.port] = pending.target]
    /\ pending' = Idle
    /\ UNCHANGED projects

(* DaemonCmd::RegisterPort on an active host port: Ok for the same mapping *)
(* and Err for another one; neither changes the state.                     *)
RegisterAgain(h, c) ==
    /\ Unlocked
    /\ active[h] # None
    /\ UNCHANGED vars

UnregisterPort(h) ==
    /\ Unlocked
    /\ active[h] # None
    /\ active' = [active EXCEPT ![h] = None]
    /\ thread' = DropProxy(h)
    /\ proxies' = [proxies EXCEPT ![h] = 0]
    /\ UNCHANGED <<projects, pending>>

TrackComposeProject(p, ports) ==
    /\ Unlocked
    /\ projects' = [projects EXCEPT ![p] = ports]
    /\ UNCHANGED <<active, proxies, pending, thread>>

(* The ports leave `active`; PortRouter::remove is empty, so the proxy     *)
(* handles stay in the table and their threads keep listening.             *)
UnregisterComposePorts(p) ==
    /\ Unlocked
    /\ projects' = [projects EXCEPT ![p] = {}]
    /\ active' = Without(active, projects[p])
    /\ UNCHANGED <<proxies, pending, thread>>

(* WatchEvent::ContainerExited: the same, for the ports of one container.  *)
ContainerExited(ports) ==
    /\ Unlocked
    /\ active' = Without(active, ports)
    /\ UNCHANGED <<projects, proxies, pending, thread>>

(* port_proxy_loop: bind(2) fails while another socket listens on the      *)
(* port, and the thread then returns for good.                             *)
ProxyBind(t) ==
    /\ thread[t].st = "spawned"
    /\ thread' = [thread EXCEPT ![t].st =
                     IF Listener(thread[t].port) = {} THEN "listening" ELSE "failed"]
    /\ UNCHANGED <<active, projects, proxies, pending>>

(* accept(2) returns one connection.  The flag is read first: set, the     *)
(* loop ends and the listener closes with its queue; clear, the connection *)
(* is handed to relay_tcp for the container port of this thread.           *)
ProxyAccept(t) ==
    /\ IsListening(t)
    /\ thread[t].queue # <<>>
    /\ thread' = [thread EXCEPT ![t] =
                     IF thread[t].shutdown
                     THEN [thread[t] EXCEPT !.st = "stopped", !.queue = <<>>]
                     ELSE [thread[t] EXCEPT !.queue = Tail(thread[t].queue)]]
    /\ UNCHANGED <<active, projects, proxies, pending>>

(* A client on the Mac or on the network connects to the host port.        *)
ClientConnect(t) ==
    /\ IsListening(t)
    /\ Len(thread[t].queue) < MaxBacklog
    /\ thread' = [thread EXCEPT ![t].queue = Append(@, "client")]
    /\ UNCHANGED <<active, projects, proxies, pending>>

-----------------------------------------------------------------------------
Commands ==
    \/ \E h \in HostPorts, c \in ContainerPorts : RegisterSpawn(h, c) \/ RegisterAgain(h, c)
    \/ \E h \in HostPorts : UnregisterPort(h)
    \/ \E p \in Projects, ports \in SUBSET HostPorts : TrackComposeProject(p, ports)
    \/ \E p \in Projects : UnregisterComposePorts(p)
    \/ \E ports \in SUBSET HostPorts : ContainerExited(ports)

Next ==
    \/ Commands
    \/ RegisterInsert
    \/ \E t \in ProxyIds : ProxyBind(t) \/ ProxyAccept(t) \/ ClientConnect(t)

Spec == Init /\ [][Next]_vars

(* The kernel schedules every thread that can run: the handler that holds  *)
(* the mutex, a spawned thread, and a thread with a connection to accept.  *)
(* Commands and clients come from outside and owe nothing.                 *)
FairSpec ==
    /\ Spec
    /\ WF_vars(RegisterInsert)
    /\ \A t \in ProxyIds : WF_vars(ProxyBind(t)) /\ WF_vars(ProxyAccept(t))

-----------------------------------------------------------------------------
(* PROPERTIES *)

(* The inductive strengthening of the safety properties: a request that    *)
(* holds the mutex found its port free and owns a thread nobody else has;  *)
(* the table's handles point at live threads of their own port; and every  *)
(* running thread outside the table has been told to stop.                 *)
Owned(t) == proxies[thread[t].port] = t \/ pending.id = t

PendingIsFresh ==
    ~Unlocked =>
        /\ active[pending.port] = None
        /\ thread[pending.id].st # "unborn"
        /\ thread[pending.id].port = pending.port
        /\ thread[pending.id].target = pending.target
        /\ \A h \in HostPorts : proxies[h] # pending.id

TableIsSound ==
    \A h \in HostPorts :
        /\ active[h] # None => proxies[h] # 0
        /\ proxies[h] # 0 =>
              /\ thread[proxies[h]].st # "unborn"
              /\ thread[proxies[h]].port = h
              /\ active[h] # None => thread[proxies[h]].target = active[h]

ThreadsAreOwned ==
    \A t \in ProxyIds :
        /\ thread[t].st = "unborn" => thread[t] = Unborn
        /\ thread[t].st # "unborn" => thread[t].port \in HostPorts
        /\ thread[t].st # "unborn" /\ ~thread[t].shutdown => Owned(t)

IInv == TypeOK /\ PendingIsFresh /\ TableIsSound /\ ThreadsAreOwned

(* Traffic goes where the table says: a thread that still relays what it   *)
(* accepts on a host port forwards to the container port registered for    *)
(* it, whatever registrations, removals and container exits came before    *)
(* (port_proxy_loop, handle_daemon_cmd and the subscription watcher).      *)
TrafficMatchesTable ==
    \A t \in ProxyIds :
        IsListening(t) /\ ~thread[t].shutdown =>
            active[thread[t].port] \in {None, thread[t].target}

(* The threads are invisible in the table: every step of the daemon is a   *)
(* step of the abstract port book, although a registration takes two steps *)
(* and threads run in between (RegisterPort never moves an active port).   *)
Book == INSTANCE PortBook
BookSpec == Book!Spec

(* A forward whose thread has the host port to itself comes up, unless it  *)
(* is dropped first (PortProxy::start, port_proxy_loop).                   *)
Contended(t) ==
    \E u \in ProxyIds \ {t} :
        thread[u].port = thread[t].port /\ thread[u].st \in {"spawned", "listening"}

FreshForwardComesUp ==
    \A t \in ProxyIds :
        (thread[t].st = "spawned" /\ ~Contended(t))
            ~> (IsListening(t) \/ thread[t].shutdown)

(* A listener that was up when its handle was dropped always lets go of    *)
(* the host port: the wake-up of PortProxy::drop reaches it.               *)
DroppedListenerStops ==
    \A t \in ProxyIds :
        []((IsListening(t) /\ ~thread[t].shutdown)
              => [](thread[t].shutdown => <>(thread[t].st = "stopped")))

(* Claimed by the comment on PortState.proxies ("Dropping a handle stops   *)
(* the proxy listener"): fails for a handle dropped before its thread has  *)
(* bound the port, since the wake-up then finds nobody listening.          *)
DropStopsListener ==
    \A t \in ProxyIds :
        thread[t].shutdown ~> thread[t].st \in {"stopped", "failed"}

(* Claimed by PortRouter::remove ("Removal is handled by dropping the      *)
(* PortProxy from PortState"): a port that is no longer active has no      *)
(* proxy left.  UnregisterComposePorts and the watcher keep it.            *)
RemovedPortHasNoProxy ==
    \A h \in HostPorts : active[h] = None => proxies[h] = 0

(* Claimed by DaemonCmd::RegisterPort ("Start listening on host_port and   *)
(* relay connections to container_port"): a port answered Ok is never left *)
(* with a thread that gave up.                                             *)
RegisteredPortIsServed ==
    \A h \in HostPorts : active[h] # None => thread[proxies[h]].st # "failed"
=============================================================================
