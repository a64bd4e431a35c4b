---------------------------- MODULE ComposePorts ----------------------------
(***************************************************************************)
(* `pelagos compose` and the ports it publishes (Commands::Compose,        *)
(* pelagos-mac/src/main.rs; handle_compose, pelagos-guest/src/main.rs).    *)
(* Every subcommand takes the same path: it registers the ports of its -p  *)
(* flags one by one and takes them back when one is refused, tells the     *)
(* daemon that they belong to the project, has the guest do the work, and  *)
(* at its end asks the daemon to forget the project's ports.               *)
(*                                                                         *)
(* Not every end comes there: the CLI may be killed, or exit(1) when it    *)
(* cannot connect for the guest's command; and a request to the daemon     *)
(* that cannot connect is ignored.  `left` records the ports such a        *)
(* command has registered and will not, or could not, give back.           *)
(***************************************************************************)
EXTENDS Naturals, FiniteSets

CONSTANTS
    HostPorts, ContainerPorts, Projects, None,
    Clis,           \* CLI processes, each runs one command
    Subcommands,    \* the subcommands they may run
    OwnProjects     \* assume no two of them work on the same project at a time


VARIABLES
    active, projects,   \* the daemon's PortState (see PortBook)
    stack,              \* the projects whose services run in the VM
    cli                 \* process -> its progress

composeVars == <<active, projects, stack, cli>>

Book == INSTANCE PortBook

Kinds == {"up", "up --foreground", "down", "ps"}   \* logs is like ps

ASSUME ComposeAssumption == OwnProjects \in BOOLEAN /\ Subcommands \subseteq Kinds

(* The -p flags of one command: host port -> container port, or None.      *)
Flags == [HostPorts -> ContainerPorts \cup {None}]

Running == {"register", "rollback", "send", "guest", "forget"}
Ended == {"done", "refused", "exited", "killed"}

CliType == [pc : {"idle"} \cup Running \cup Ended,
            kind : Kinds, project : Projects, want : Flags,
            todo : SUBSET HostPorts,   \* flags not yet registered
            mine : SUBSET HostPorts,   \* registered_ports
            left : SUBSET HostPorts]

ComposeTypeOK ==
    /\ Book!TypeOK
    /\ stack \subseteq Projects
    /\ cli \in [Clis -> CliType]

InProgress(c) == cli[c].pc \in Running

Goto(c, pc) == cli' = [cli EXCEPT ![c].pc = pc]

(* The CLI goes on, or ends, with its ports out of its reach.              *)
GotoLeaving(c, pc) ==
    cli' = [cli EXCEPT ![c].pc = pc, ![c].todo = {}, ![c].mine = {},
                       ![c].left = cli[c].left \cup cli[c].mine]

NotReached == UNCHANGED <<active, projects>>

-----------------------------------------------------------------------------
ComposeInit ==
    /\ Book!Init /\ active = [h \in HostPorts |-> None]
    /\ stack = {}
    /\ cli \in [Clis -> {[pc |-> "idle", kind |-> k, project |-> p, want |-> w,
                          todo |-> {h \in HostPorts : w[h] # None},
                          mine |-> {}, left |-> {}]
                         : k \in Subcommands, p \in Projects, w \in Flags}]

CommandBegins(c) ==
    /\ cli[c].pc = "idle"
    /\ OwnProjects => \A b \in Clis : InProgress(b) => cli[b].project # cli[c].project
    /\ Goto(c, "register")
    /\ UNCHANGED <<active, projects, stack>>

(* Broken variant: a refused port ends the command at once.                *)
RegisterNoRollback(c, h) ==
    /\ cli[c].pc = "register" /\ h \in cli[c].todo
    /\ \/ /\ Book!Register(h, cli[c].want[h]) \/ Book!RegisterSame(h, cli[c].want[h])
          /\ cli' = [cli EXCEPT ![c].todo = @ \ {h}, ![c].mine = @ \cup {h}]
       \/ (Book!RegisterConflict(h, cli[c].want[h]) \/ NotReached) /\ Goto(c, "refused")
    /\ UNCHANGED stack

(* Broken variant: a refused port is asked for again until it is free.     *)
RegisterRetries(c, h) ==
    /\ cli[c].pc = "register" /\ h \in cli[c].todo
    /\ \/ /\ Book!Register(h, cli[c].want[h]) \/ Book!RegisterSame(h, cli[c].want[h])
          /\ cli' = [cli EXCEPT ![c].todo = @ \ {h}, ![c].mine = @ \cup {h}]
       \/ (Book!RegisterConflict(h, cli[c].want[h]) \/ NotReached) /\ UNCHANGED cli
    /\ UNCHANGED stack

(* One RegisterPort: an Ok counts the port as this command's, also when it *)
(* was registered before; a refusal or a failed connection rolls back.     *)
Register(c, h) ==
    /\ cli[c].pc = "register" /\ h \in cli[c].todo
    /\ \/ /\ Book!Register(h, cli[c].want[h]) \/ Book!RegisterSame(h, cli[c].want[h])
          /\ cli' = [cli EXCEPT ![c].todo = @ \ {h}, ![c].mine = @ \cup {h}]
       \/ (Book!RegisterConflict(h, cli[c].want[h]) \/ NotReached) /\ Goto(c, "rollback")
    /\ UNCHANGED stack

Rollback(c) ==
    /\ cli[c].pc = "rollback"
    /\ \/ \E h \in cli[c].mine :
             \/ /\ Book!Unregister(h)
                /\ cli' = [cli EXCEPT ![c].mine = @ \ {h}]
             \/ /\ NotReached
                /\ cli' = [cli EXCEPT ![c].mine = @ \ {h}, ![c].left = @ \cup {h}]
       \/ cli[c].mine = {} /\ Goto(c, "refused") /\ UNCHANGED <<active, projects>>
    /\ UNCHANGED stack

(* TrackComposeProject, for a command that has ports.                      *)
Track(c) ==
    /\ cli[c].pc = "register" /\ cli[c].todo = {}
    /\ \/ /\ IF cli[c].mine # {}
             THEN Book!TrackProject(cli[c].project, cli[c].mine)
             ELSE UNCHANGED <<active, projects>>
          /\ Goto(c, "send")
       \/ NotReached /\ GotoLeaving(c, "send")
    /\ UNCHANGED stack

(* connect_or_exit: the tracked ports stay with the daemon.                *)
ConnectExits(c) ==
    /\ cli[c].pc = "send"
    /\ GotoLeaving(c, "exited")
    /\ UNCHANGED <<active, projects, stack>>

(* A signal, such as Ctrl-C on a foreground `up`.                          *)
Killed(c) ==
    /\ InProgress(c)
    /\ GotoLeaving(c, "killed")
    /\ UNCHANGED <<active, projects, stack>>

(* The guest runs the subcommand.                                          *)
Guest(c) ==
    /\ cli[c].pc = "send"
    /\ stack' = CASE cli[c].kind \in {"up", "up --foreground"} -> stack \cup {cli[c].project}
                  [] cli[c].kind = "down" -> stack \ {cli[c].project}
                  [] OTHER -> stack
    /\ Goto(c, "guest")
    /\ UNCHANGED <<active, projects>>

(* The stream ends: at once, since the supervisor daemonises, or with the  *)
(* stack for a foreground `up`.                                            *)
StreamEnds(c) ==
    /\ cli[c].pc = "guest"
    /\ cli[c].kind = "up --foreground" => cli[c].project \notin stack
    /\ Goto(c, "forget")
    /\ UNCHANGED <<active, projects, stack>>

StackEnds(p) ==
    /\ p \in stack
    /\ stack' = stack \ {p}
    /\ UNCHANGED <<active, projects, cli>>

(* UnregisterComposePorts, after success and failure of the stream.        *)
Forget(c) ==
    /\ cli[c].pc = "forget"
    /\ \/ Book!ReleaseProject(cli[c].project) /\ Goto(c, "done")
       \/ NotReached /\ GotoLeaving(c, "done")
    /\ UNCHANGED stack

ComposeNext ==
    \/ \E c \in Clis :
          \/ CommandBegins(c) \/ Rollback(c) \/ Track(c) \/ Guest(c) \/ StreamEnds(c) \/ Forget(c)
          \/ ConnectExits(c) \/ Killed(c)
          \/ \E h \in HostPorts : Register(c, h)
    \/ \E p \in Projects : StackEnds(p)

ComposeSpec == ComposeInit /\ [][ComposeNext]_composeVars

ComposeFairSpec ==
    /\ ComposeSpec
    /\ \A c \in Clis :
          WF_composeVars(Rollback(c) \/ Track(c) \/ Guest(c) \/ StreamEnds(c) \/ Forget(c)
                    \/ \E h \in HostPorts : Register(c, h))

-----------------------------------------------------------------------------
(* PROPERTIES *)

(* Nothing outlives its command but what it could not give back: a         *)
(* registered port belongs to a command that asked for exactly this        *)
(* mapping and is still to release it, or that was killed, exited early or *)
(* did not reach the daemon, and a tracked port to such a one of its       *)
(* project, however two commands that share ports register, are refused    *)
(* half-way and finish around each other (the rollback of Commands::Compose*)
(* and its UnregisterComposePorts).                                        *)
Owes(c, h) == (InProgress(c) /\ h \in cli[c].mine) \/ h \in cli[c].left

ActivePortHasOwner ==
    /\ \A h \in HostPorts : active[h] # None =>
          \E c \in Clis : Owes(c, h) /\ cli[c].want[h] = active[h]
    /\ \A p \in Projects : \A h \in projects[p] :
          \E c \in Clis : Owes(c, h) /\ cli[c].project = p

(* Every command comes to its end once its stack is down.                  *)
CommandsEnd ==
    \A c \in Clis :
        InProgress(c) ~> (~InProgress(c) \/ (cli[c].pc = "guest" /\ cli[c].project \in stack))

(* Claimed by DaemonCmd::TrackComposeProject ("so they can be              *)
(* bulk-deregistered when the project stops"): while the project of an     *)
(* `up` runs, its ports stay registered.  Fails: a daemonised `up`         *)
(* releases them as soon as it returns, and so does every other            *)
(* subcommand.                                                             *)
RunningProjectKeepsPorts ==
    \A p \in Projects : p \in stack =>
        \A c \in Clis :
            cli[c].kind = "up" /\ cli[c].project = p /\ cli[c].pc = "done"
            => \A h \in cli[c].mine : active[h] # None

(* Claimed by Commands::Compose ("Deregister ports on any exit (success or *)
(* failure)"): a command that has exited leaves none of its ports, where   *)
(* no other command asks for them.  Fails for the exit in connect_or_exit, *)
(* which comes after the ports are registered and tracked.                 *)
ExitReleasesPorts ==
    \A c \in Clis : cli[c].pc = "exited" =>
        \A h \in cli[c].left : active[h] # cli[c].want[h]

(* Claimed by Commands::Compose ("Roll back any ports we already           *)
(* registered"): a command that is refused takes back only what it has     *)
(* registered itself.  Fails when an earlier command had registered the    *)
(* same mapping, which counts as Ok for both.                              *)
RollbackTakesOwnOnly ==
    [][\A c \in Clis, h \in HostPorts :
          cli[c].pc = "rollback" /\ active[h] # None /\ active'[h] = None
          => \A b \in Clis \ {c} : InProgress(b) => h \notin cli[b].mine]_composeVars
=============================================================================
