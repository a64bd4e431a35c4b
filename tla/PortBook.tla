------------------------------ MODULE PortBook ------------------------------
(***************************************************************************)
(* What the daemon promises about port forwards, without the threads that  *)
(* serve them: a table from host port to container port, and the host      *)
(* ports each compose project has claimed (PortState.active and            *)
(* PortState.compose_projects, pelagos-mac/src/daemon.rs).  Every command  *)
(* runs under the PortState mutex, so each one is a single step here.      *)
(***************************************************************************)
CONSTANTS
    HostPorts,       \* host TCP ports a client may ask for
    ContainerPorts,  \* ports inside the VM
    Projects,        \* compose project names
    None             \* absence of a map entry

VARIABLES
    active,    \* host port -> container port, or None
    projects   \* compose project -> host ports it claimed ({}: not tracked)

vars == <<active, projects>>

TypeOK ==
    /\ active \in [HostPorts -> ContainerPorts \cup {None}]
    /\ projects \in [Projects -> SUBSET HostPorts]

Without(f, S) == [h \in DOMAIN f |-> IF h \in S THEN None ELSE f[h]]

-----------------------------------------------------------------------------
(* The forwards of `vm start -p ...` are registered before the daemon      *)
(* serves its first connection.                                            *)
Init ==
    /\ active \in [HostPorts -> ContainerPorts \cup {None}]
    /\ projects = [p \in Projects |-> {}]

(* RegisterPort on a free host port.                                       *)
Register(h, c) ==
    /\ active[h] = None
    /\ active' = [active EXCEPT ![h] = c]
    /\ UNCHANGED projects

(* The two answers that leave the table alone: the same mapping is asked   *)
(* for again (Ok), or the host port is mapped elsewhere (Err).             *)
RegisterSame(h, c) == active[h] = c /\ UNCHANGED vars

RegisterConflict(h, c) == active[h] \notin {c, None} /\ UNCHANGED vars

Unregister(h) ==
    /\ active' = Without(active, {h})
    /\ UNCHANGED projects

TrackProject(p, ports) ==
    /\ projects' = [projects EXCEPT ![p] = ports]
    /\ UNCHANGED active

ReleaseProject(p) ==
    /\ active' = Without(active, projects[p])
    /\ projects' = [projects EXCEPT ![p] = {}]

(* The subscription watcher has seen a container exit and gives up the     *)
(* host ports it knows that container by.                                  *)
ReleasePorts(ports) ==
    /\ active' = Without(active, ports)
    /\ UNCHANGED projects

Next ==
    \/ \E h \in HostPorts, c \in ContainerPorts :
          Register(h, c) \/ RegisterSame(h, c) \/ RegisterConflict(h, c)
    \/ \E h \in HostPorts : Unregister(h)
    \/ \E p \in Projects :
          ReleaseProject(p) \/ \E ports \in SUBSET HostPorts : TrackProject(p, ports)
    \/ \E ports \in SUBSET HostPorts : ReleasePorts(ports)

Spec == Init /\ [][Next]_vars
=============================================================================
