-------------------------- MODULE DaemonLifecycle ---------------------------
(***************************************************************************)
(* Starting and stopping the VM daemon of one profile: ensure_running, run *)
(* and its shutdown path (pelagos-mac/src/daemon.rs), vm_stop and vm_init  *)
(* (pelagos-mac/src/main.rs) and the state directory they share            *)
(* (pelagos-mac/src/state.rs).                                             *)
(*                                                                         *)
(* Nothing locks the state directory.  A daemon announces itself in five   *)
(* files, one after the other, and every command decides from what it      *)
(* finds there; clear() removes the files one after the other as well.     *)
(***************************************************************************)
EXTENDS Volumes, FiniteSets

CONSTANTS
    Commands,    \* CLI processes that may run at the same time
    MaxDaemons,  \* bound: daemons spawned in one behaviour
    VolumeArgs,  \* lists of -v arguments a command may be given
    Disks,       \* extra-disk lists a command may ask for
    NoDisks,     \* the empty disk list
    Patience,    \* when the user acts, see UserMayAct
    Deadlines,   \* whether a step may take longer than a command waits for it
    WriteFaults  \* the files of the state directory that may fail to be written

ASSUME LifecycleAssumption ==
    /\ MaxDaemons \in Nat /\ Patience \in 0..3 /\ Deadlines \in BOOLEAN
    /\ <<>> \in VolumeArgs /\ NoDisks \in Disks
    /\ \A v \in VolumeArgs : v \in Seq(VolumeArgType)
    /\ WriteFaults \subseteq {"pid", "mounts", "extra"}

VARIABLES
    files,   \* state directory: file -> the daemon that wrote or bound it, or 0
    daemon,  \* daemon -> its process
    cmd      \* command -> its process

vars == <<files, daemon, cmd>>

Daemons == 1..MaxDaemons

(* StateDir::clear() removes them in this order.  vm.ports is never written.*)
FileOrder == <<"pid", "sock", "console", "mounts", "extra">>
FileNames == {FileOrder[i] : i \in DOMAIN FileOrder}

Booting == {"guard", "clear", "boot", "bind_sock", "bind_console", "write_pid",
            "write_mounts", "write_extra", "handler"}
Ending == {"stop_vm", "final_clear", "stuck_clear"}
Returned == {"ok", "err", "no_vm", "stopped", "timed_out", "copied", "kept"}
Busy == {"check", "read_mounts", "read_extra", "clear", "spawn", "poll",
         "find_pid", "await_exit",
         "init_guard", "init_force", "init_await", "init_fresh", "init_over", "init_late"}

(* The arguments of the daemon that a command with these arguments starts. *)
DaemonArgs(vols) == daemon_subprocess_args(daemon_args_from_cli(vols))

NotBorn == [pc |-> "unborn", vols |-> <<>>, disks |-> NoDisks,
            step |-> 1, term |-> FALSE, vm |-> FALSE]

TypeOK ==
    /\ files \in [FileNames -> 0..MaxDaemons]
    /\ daemon \in [Daemons -> [pc : Booting \cup Ending \cup {"unborn", "serving", "gone"},
                               vols : {<<>>} \cup {DaemonArgs(v) : v \in VolumeArgs}, disks : Disks,
                               step : DOMAIN FileOrder, term : BOOLEAN, vm : BOOLEAN]]
    /\ cmd \in [Commands -> [pc : {"idle"} \cup Returned \cup Busy,
                             vols : VolumeArgs, disks : Disks,
                             step : DOMAIN FileOrder, target : 0..MaxDaemons]]

Alive(d) == daemon[d].pc \notin {"unborn", "gone"}

(* StateDir::running_pid: the PID file names a process that exists.        *)
RunningPid == IF files["pid"] # 0 /\ Alive(files["pid"]) THEN files["pid"] ELSE 0

is_daemon_alive == RunningPid # 0

Connectable == files["sock"] # 0 /\ Alive(files["sock"])

-----------------------------------------------------------------------------
Init ==
    /\ files = [f \in FileNames |-> 0]
    /\ daemon = [d \in Daemons |-> NotBorn]
    /\ cmd = [c \in Commands |-> [pc |-> "idle", vols |-> <<>>, disks |-> NoDisks,
                                  step |-> 1, target |-> 0]]

(* How careful the user is: 0 acts at any time, 1 does one thing at a      *)
(* time, 2 also lets a daemon finish booting, 3 also lets it finish        *)
(* shutting down.                                                          *)
UserMayAct ==
    /\ Patience >= 1 => \A b \in Commands : cmd[b].pc \notin Busy
    /\ Patience >= 2 => \A d \in Daemons : daemon[d].pc \notin Booting
    /\ Patience >= 3 => \A d \in Daemons : daemon[d].pc \notin Ending /\ ~daemon[d].term

Begin(c, pc, v, x) ==
    /\ UserMayAct
    /\ cmd[c].pc \in {"idle"} \cup Returned
    /\ cmd' = [cmd EXCEPT ![c] = [pc |-> pc, vols |-> v, disks |-> x, step |-> 1, target |-> 0]]
    /\ UNCHANGED <<files, daemon>>

Goto(c, pc) == cmd' = [cmd EXCEPT ![c].pc = pc]

(* The command has to do with daemon d from here on.                       *)
GotoWith(c, pc, d) == cmd' = [cmd EXCEPT ![c] = [cmd[c] EXCEPT !.pc = pc, !.target = d]]

-----------------------------------------------------------------------------
(* ensure_running *)

EnsureBegin(c, v, x) == Begin(c, "check", v, x)

(* Broken variant: the running daemon is not looked for.                   *)
EnsureCheckBlind(c) ==
    /\ cmd[c].pc = "check"
    /\ Goto(c, "clear")
    /\ UNCHANGED <<files, daemon>>

EnsureCheck(c) ==
    /\ cmd[c].pc = "check"
    /\ GotoWith(c, IF is_daemon_alive THEN "read_mounts" ELSE "clear", RunningPid)
    /\ UNCHANGED <<files, daemon>>

(* Broken variant: a running daemon's shares are taken as they are.        *)
EnsureReadMountsTrusting(c) ==
    /\ cmd[c].pc = "read_mounts"
    /\ Goto(c, "read_extra")
    /\ UNCHANGED <<files, daemon>>

(* read_mounts: a missing file reads as the empty list.                    *)
EnsureReadMounts(c) ==
    /\ cmd[c].pc = "read_mounts"
    /\ LET running == IF files["mounts"] = 0 THEN <<>>
                      ELSE daemon_args_from_cli(daemon[files["mounts"]].vols)
       IN  Goto(c, IF running = daemon_args_from_cli(cmd[c].vols) THEN "read_extra" ELSE "err")
    /\ UNCHANGED <<files, daemon>>

EnsureReadExtra(c) ==
    /\ cmd[c].pc = "read_extra"
    /\ LET running == IF files["extra"] = 0 THEN NoDisks ELSE daemon[files["extra"]].disks
       IN  Goto(c, IF running = cmd[c].disks THEN "ok" ELSE "err")
    /\ UNCHANGED <<files, daemon>>

(* Broken variant: a stale vm.sock survives.                               *)
EnsureClearKeepsSock(c) ==
    /\ cmd[c].pc = "clear"
    /\ files' = [f \in FileNames |-> IF f = "sock" THEN files[f] ELSE 0]
    /\ Goto(c, "spawn")
    /\ UNCHANGED daemon

(* StateDir::clear(), one unlink at a time.                                *)
EnsureClear(c) ==
    /\ cmd[c].pc = "clear"
    /\ files' = [files EXCEPT ![FileOrder[cmd[c].step]] = 0]
    /\ cmd' = [cmd EXCEPT ![c] = IF cmd[c].step < Len(FileOrder)
                                 THEN [cmd[c] EXCEPT !.step = cmd[c].step + 1]
                                 ELSE [cmd[c] EXCEPT !.pc = "spawn", !.step = 1]]
    /\ UNCHANGED daemon

EnsureSpawn(c) ==
    /\ cmd[c].pc = "spawn"
    /\ \E d \in Daemons :
          /\ daemon[d].pc = "unborn"
          /\ \A e \in Daemons : e < d => daemon[e].pc # "unborn"
          /\ daemon' = [daemon EXCEPT ![d] = [NotBorn EXCEPT !.pc = "guard",
                                                 !.vols = DaemonArgs(cmd[c].vols), !.disks = cmd[c].disks]]
          /\ GotoWith(c, "poll", d)
    /\ UNCHANGED files

(* The command polls until vm.sock exists.                                 *)
EnsurePoll(c) ==
    /\ cmd[c].pc = "poll"
    /\ files["sock"] # 0
    /\ Goto(c, "ok")
    /\ UNCHANGED <<files, daemon>>

(* The 60 s deadline.                                                      *)
EnsureTimeout(c) ==
    /\ Deadlines
    /\ cmd[c].pc = "poll"
    /\ files["sock"] = 0
    /\ Goto(c, "err")
    /\ UNCHANGED <<files, daemon>>

-----------------------------------------------------------------------------
(* vm_stop *)

StopBegin(c) == Begin(c, "find_pid", <<>>, NoDisks)

(* SIGTERM: the flag once the handler is installed, the end before.  A     *)
(* daemon that ends takes its VM with it.                                  *)
Ended(d) == [daemon[d] EXCEPT !.pc = "gone", !.vm = FALSE, !.term = FALSE]

Terminate(c, next) ==
    /\ RunningPid # 0
    /\ GotoWith(c, next, RunningPid)
    /\ daemon' = [daemon EXCEPT ![RunningPid] =
                     IF daemon[RunningPid].pc \in Booting THEN Ended(RunningPid)
                     ELSE [daemon[RunningPid] EXCEPT !.term = TRUE]]

StopSignal(c) ==
    /\ cmd[c].pc = "find_pid"
    /\ \/ Terminate(c, "await_exit")
       \/ RunningPid = 0 /\ Goto(c, "no_vm") /\ UNCHANGED daemon
    /\ UNCHANGED files

StopAwait(c) ==
    /\ cmd[c].pc = "await_exit"
    /\ ~is_daemon_alive
    /\ Goto(c, "stopped")
    /\ UNCHANGED <<files, daemon>>

(* The 45 s deadline.                                                      *)
StopTimeout(c) ==
    /\ Deadlines
    /\ cmd[c].pc = "await_exit"
    /\ is_daemon_alive
    /\ Goto(c, "timed_out")
    /\ UNCHANGED <<files, daemon>>

-----------------------------------------------------------------------------
(* vm_init.  It may end for other reasons than a running VM before it      *)
(* copies (artifacts not found, vm.conf there): "err".                     *)

InitBegin(c, force) == Begin(c, IF force THEN "init_force" ELSE "init_guard", <<>>, NoDisks)

(* Broken variant: the running-VM guard is missing.                        *)
InitGuardMissing(c) ==
    /\ cmd[c].pc = "init_guard"
    /\ Goto(c, "init_fresh") \/ Goto(c, "err")
    /\ UNCHANGED <<files, daemon>>

InitGuard(c) ==
    /\ cmd[c].pc = "init_guard"
    /\ (RunningPid = 0 /\ Goto(c, "init_fresh")) \/ Goto(c, "err")
    /\ UNCHANGED <<files, daemon>>

(* --force: the daemon is told to stop and is waited for, for 45 s.        *)
InitForce(c) ==
    /\ cmd[c].pc = "init_force"
    /\ \/ Terminate(c, "init_await")
       \/ RunningPid = 0 /\ Goto(c, "init_over") /\ UNCHANGED daemon
       \/ Goto(c, "err") /\ UNCHANGED daemon
    /\ UNCHANGED files

InitAwait(c) ==
    /\ cmd[c].pc = "init_await"
    /\ ~is_daemon_alive
    /\ Goto(c, "init_over")
    /\ UNCHANGED <<files, daemon>>

(* At the deadline it warns and goes on.                                   *)
InitTimeout(c) ==
    /\ Deadlines
    /\ cmd[c].pc = "init_await"
    /\ is_daemon_alive
    /\ Goto(c, "init_late")
    /\ UNCHANGED <<files, daemon>>

(* root.img is copied over, without --force only when it is not there.     *)
InitCopy(c) ==
    /\ \/ cmd[c].pc \in {"init_fresh", "init_over", "init_late"} /\ Goto(c, "copied")
       \/ cmd[c].pc = "init_fresh" /\ Goto(c, "kept")
    /\ UNCHANGED <<files, daemon>>

-----------------------------------------------------------------------------
(* daemon::run *)

Advance(d, pc) == daemon' = [daemon EXCEPT ![d].pc = pc]
Exit(d) == daemon' = [daemon EXCEPT ![d] = Ended(d)]

DaemonGuard(d) ==
    /\ daemon[d].pc = "guard"
    /\ IF is_daemon_alive THEN Exit(d) ELSE Advance(d, "clear")
    /\ UNCHANGED <<files, cmd>>

ClearStep(d, pc, next) ==
    /\ daemon[d].pc = pc
    /\ files' = [files EXCEPT ![FileOrder[daemon[d].step]] = 0]
    /\ daemon' = [daemon EXCEPT ![d] =
                     IF daemon[d].step < Len(FileOrder)
                     THEN [daemon[d] EXCEPT !.step = daemon[d].step + 1] ELSE next]
    /\ UNCHANGED cmd

DaemonClear(d) == ClearStep(d, "clear", [daemon[d] EXCEPT !.pc = "boot", !.step = 1])

(* Vm::start succeeds, or the daemon exits.                                *)
DaemonBoot(d) ==
    /\ daemon[d].pc = "boot"
    /\ \/ daemon' = [daemon EXCEPT ![d].pc = "bind_sock", ![d].vm = TRUE]
       \/ Exit(d)
    /\ UNCHANGED <<files, cmd>>

(* UnixListener::bind fails when the path exists, and may fail otherwise.  *)
Bind(d, pc, f, next) ==
    /\ daemon[d].pc = pc
    /\ \/ files[f] = 0 /\ files' = [files EXCEPT ![f] = d] /\ Advance(d, next)
       \/ Exit(d) /\ UNCHANGED files
    /\ UNCHANGED cmd

DaemonBindSock(d)    == Bind(d, "bind_sock", "sock", "bind_console")
DaemonBindConsole(d) == Bind(d, "bind_console", "console", "write_pid")

(* write_pid, write_mounts, write_extra_disks: rename over what is there.  *)
(* A failure is logged, and the daemon goes on without the file.           *)
Write(d, pc, f, next) ==
    /\ daemon[d].pc = pc
    /\ \/ files' = [files EXCEPT ![f] = d]
       \/ f \in WriteFaults /\ UNCHANGED files
    /\ Advance(d, next)
    /\ UNCHANGED cmd

DaemonWritePid(d)    == Write(d, "write_pid", "pid", "write_mounts")
DaemonWriteMounts(d) == Write(d, "write_mounts", "mounts", "write_extra")
DaemonWriteExtra(d)  == Write(d, "write_extra", "extra", "handler")

(* Ports and watcher are set up (PortTable, GuestEvents), then the SIGTERM *)
(* handler, and the accept loop starts.                                    *)
DaemonHandler(d) ==
    /\ daemon[d].pc = "handler"
    /\ Advance(d, "serving")
    /\ UNCHANGED <<files, cmd>>

(* Broken variant: the state files go first.                               *)
DaemonShutdownClearsFirst(d) ==
    /\ daemon[d].pc = "serving" /\ daemon[d].term
    /\ Advance(d, "final_clear")
    /\ UNCHANGED <<files, cmd>>

DaemonShutdown(d) ==
    /\ daemon[d].pc = "serving" /\ daemon[d].term
    /\ Advance(d, "stop_vm")
    /\ UNCHANGED <<files, cmd>>

(* vm.stop() returns once the VM has stopped, or with an error that is     *)
(* ignored: the VM runs on until the process ends.                         *)
DaemonStopVm(d) ==
    /\ daemon[d].pc = "stop_vm"
    /\ \/ daemon' = [daemon EXCEPT ![d].pc = "final_clear", ![d].vm = FALSE]
       \/ Advance(d, "stuck_clear")
    /\ UNCHANGED <<files, cmd>>

DaemonFinalClear(d) ==
    ClearStep(d, "final_clear", Ended(d)) \/ ClearStep(d, "stuck_clear", Ended(d))

(* The user uninstalls or upgrades, and the accept loop, which looks every *)
(* 30 s, finds its own binary gone.  It is an act of the user: a patient   *)
(* one lets it take effect before the next command.                        *)
BinaryRemoved(d) ==
    /\ UserMayAct
    /\ daemon[d].pc = "serving" /\ ~daemon[d].term
    /\ daemon' = [daemon EXCEPT ![d].term = TRUE]
    /\ UNCHANGED <<files, cmd>>

(* The process dies, at any moment, and leaves its files behind.           *)
DaemonCrash(d) ==
    /\ Alive(d)
    /\ Exit(d)
    /\ UNCHANGED <<files, cmd>>

-----------------------------------------------------------------------------
Ensure(c) ==
    \/ EnsureCheck(c) \/ EnsureReadMounts(c) \/ EnsureReadExtra(c) \/ EnsureClear(c)
    \/ EnsureSpawn(c) \/ EnsurePoll(c) \/ EnsureTimeout(c)

Stop(c) == StopSignal(c) \/ StopAwait(c) \/ StopTimeout(c)

VmInit(c) ==
    InitGuard(c) \/ InitForce(c) \/ InitAwait(c) \/ InitTimeout(c) \/ InitCopy(c)

DaemonRun(d) ==
    \/ DaemonGuard(d) \/ DaemonClear(d) \/ DaemonBoot(d)
    \/ DaemonBindSock(d) \/ DaemonBindConsole(d)
    \/ DaemonWritePid(d) \/ DaemonWriteMounts(d) \/ DaemonWriteExtra(d) \/ DaemonHandler(d)
    \/ DaemonShutdown(d) \/ DaemonStopVm(d) \/ DaemonFinalClear(d)

Next ==
    \/ \E c \in Commands :
          \/ \E v \in VolumeArgs, x \in Disks : EnsureBegin(c, v, x)
          \/ \E force \in BOOLEAN : InitBegin(c, force)
          \/ StopBegin(c) \/ Ensure(c) \/ Stop(c) \/ VmInit(c)
    \/ \E d \in Daemons : DaemonRun(d) \/ BinaryRemoved(d) \/ DaemonCrash(d)

Spec == Init /\ [][Next]_vars

-----------------------------------------------------------------------------
(* PROPERTIES *)

Returns(c, results) == cmd[c].pc \notin results /\ cmd'[c].pc \in results

(* Two VMs of one profile never run at the same time (they would share a   *)
(* disk).  The guard of daemon::run and the check of ensure_running are to *)
(* see to it ("Guard against two daemons racing").                         *)
OneVm == Cardinality({d \in Daemons : daemon[d].vm}) =< 1

(* ensure_running "returns Ok(()) once vm.sock is connectable": whatever a *)
(* crashed or timed-out predecessor left in the state directory, at an Ok  *)
(* vm.sock is the one of the daemon that the command has found running or  *)
(* has started; unless that daemon has died on the way, which the command  *)
(* cannot see.                                                             *)
OkMeansConnectable ==
    [][\A c \in Commands :
          Returns(c, {"ok"})
          => files'["sock"] = cmd[c].target \/ daemon[cmd[c].target].pc = "gone"]_vars

(* The share lists of a command and of the daemon behind vm.sock.          *)
Asked(c) == daemon_args_from_cli(cmd[c].vols)
Booted == daemon_args_from_cli(daemon[files["sock"]].vols)

(* ensure_running compares what the command asked for with what the daemon *)
(* behind vm.sock was booted with; an Ok is never given for another set of *)
(* shares or disks.  A daemon that the command has started itself is not   *)
(* compared: its list went through the --volume arguments and back.  A     *)
(* list of disks that could not be written is taken for an empty one.      *)
OkMeansSameConfig ==
    [][\A c \in Commands :
          Returns(c, {"ok"}) /\ Connectable'
          => /\ Asked(c) = Booted'
             /\ \/ daemon'[files'["sock"]].disks = cmd[c].disks
                \/ files["extra"] = 0 /\ cmd[c].pc = "read_extra"]_vars

(* After an Ok, `run` binds the directory of the host that each -v names,  *)
(* whichever command booted the VM and whatever tag the directory got      *)
(* there; and `docker inspect` translates it back to that directory.       *)
MountsReachHost ==
    [][\A c \in Commands :
          Returns(c, {"ok"}) /\ Connectable'
          => \A i \in DOMAIN cmd[c].vols :
                LET mount == GuestMount(cmd[c].vols[i], Asked(c))
                IN  /\ HostPaths(mount, Booted') = {cmd[c].vols[i].host}
                    /\ translate_volume_spec(mount, Booted') = cmd[c].vols[i].host]_vars

(* build_virtiofs_shares: "every invocation - ps, volume ls, run -v        *)
(* ~/x:/y - produces the same virtiofs share set": of two commands that    *)
(* name only directories under $HOME neither is refused because the other  *)
(* has started the daemon.  (The daemon's arguments beside the volumes     *)
(* directory and $HOME are the ones its command has named.)                *)
HomeOnly(vols) == \A i \in DOMAIN vols : Under(vols[i].host, Home)

HomeMountsAreAccepted ==
    [][\A c \in Commands :
          cmd[c].pc = "read_mounts" /\ cmd'[c].pc = "err" /\ files["mounts"] # 0
          => ~HomeOnly(cmd[c].vols) \/ ~HomeOnly(Tail(daemon[files["mounts"]].vols))]_vars

(* No VM of the profile runs, but for one that Virtualization.framework    *)
(* has refused to stop and that ends with its daemon, a moment later.      *)
VmsAreOff == \A d \in Daemons : daemon[d].vm => daemon[d].pc = "stuck_clear"

(* vm_init: "Refuse to overwrite root.img while the VM is running", and    *)
(* with --force only after it has stopped, or could not be stopped.        *)
DiskIsNotOverwritten ==
    [][\A c \in Commands :
          Returns(c, {"copied"}) /\ cmd[c].pc # "init_late" => VmsAreOff]_vars

(* Claimed by vm_init ("or pass --force to stop it automatically").  Fails *)
(* with Deadlines: after 45 s it warns and copies.                         *)
DiskIsNeverOverwritten ==
    [][\A c \in Commands : Returns(c, {"copied"}) => \A d \in Daemons : ~daemon[d].vm]_vars

(* vm_stop tells the truth: when it returns without a warning no VM of the *)
(* profile is left running, so its disk can be touched; unless vm.stop()   *)
(* has failed, which the daemon ignores.                                   *)
StopMeansVmOff ==
    [][\A c \in Commands : Returns(c, {"stopped", "no_vm"}) => VmsAreOff']_vars

(* Claimed by vm_stop ("Wait for the daemon to fully exit before           *)
(* returning").  Fails: the PID file is the first one clear() removes.     *)
StopMeansExited ==
    [][\A c \in Commands :
          Returns(c, {"stopped"}) => ~(daemon[cmd[c].target].pc \in Ending)]_vars
=============================================================================
