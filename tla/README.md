# A TLA+ model of pelagos-mac

pelagos-mac runs Linux containers on macOS inside one lightweight VM per
profile. This directory holds TLA+ modules translated from its Rust source, TLC
configurations that check them on small instances, and TLAPS proofs of the
results that matter most. `PROJECT.json` lists components, runs, mutants, the
map from definitions to source lines, findings, hazards and theorems.

## 1. The system and its parts

| Part | Source | State it keeps | Operations | What is hard about it |
|---|---|---|---|---|
| CLI | `pelagos-mac/src/main.rs` | none of its own; one process per command | run, start, exec, compose, vm start/stop/init | many processes at once; may be killed half-way |
| State directory | `pelagos-mac/src/state.rs` | PID file, sockets, mount and disk lists, `vm.conf` | write, clear, `running_pid`, `ensure_vm_ip` | no lock; files appear and vanish one by one |
| VM daemon | `pelagos-mac/src/daemon.rs` | VM handle, port table, proxy threads, console ring | boot, accept, `DaemonCmd`s, shutdown | a thread per connection, per port, watcher, console |
| Subscription watcher | same file | last snapshot of containers | subscribe, apply events, free ports, reconnect | lost and late events |
| Guest daemon | `pelagos-guest/src/main.rs` | sampled container states, subscribers | Subscribe, Run, Exec, Compose, ... | poller, subscribers and handlers interleave |
| VM and network relay | `pelagos-vz/src/vm.rs`, `tun_relay.rs` | socketpair, utun, learned MAC and address | start, stop, forward frames, answer ARP/NDP | failures between steps; cleanup in `Drop` |
| Privileged helper | `pelagos-pfctl/src/main.rs` | active utuns, redirects, IPv6 aliases, in memory | create, setup, teardown, assign | shared by all profiles; restarted by launchd |
| Docker shim | `pelagos-docker/src` | a file that caches container details and PIDs of port proxies, probe containers, resolved Dockerfiles | translates Docker CLI calls | load, change and save without a lock; several steps per command; leftovers of killed processes |

They meet at the state directory (CLI and daemon), at `vm.sock` (a line of JSON
that is either a command for the daemon or the start of a stream to the guest),
at vsock (daemon and guest), at the helper's socket (every daemon) and at the
container state files in the VM (runtime and guest daemon).

What makes each part correct:

* **Port table**: traffic on a host port goes to the container port that the
  table has; a dropped forward gives its port back; ports are freed when their
  container or project ends, and not before.
* **Daemon start and stop**: one VM per profile; an Ok means a usable daemon
  with the asked-for configuration; a completed stop means the VM is off.
* **Event stream**: a subscriber's view converges to what the guest has.
* **Network**: VMs do not disturb each other; the host stays out of the guest's
  duplicate address detection.
* **Interactive commands**: nothing lost in either direction, no deadlock over
  full buffers, a return when the child exits.
* **Plain commands, build, cp**: code 0 means that the archive is whole, the exit
  code comes after all output, the command returns and its connection ends.
* **Console**: the guest is never held up by an unread console, and what was
  kept is replayed in order.
* **Subnets**: no two profiles get one subnet.
* **Volumes**: a `-v` of a command is that directory of the host in the
  container, whichever command has started the VM.
* **Docker shim**: containers are found until `docker rm`, whatever pelagos has
  forgotten; no proxy outlives `stop` and `rm`; starts are reported; a build has
  its base images and its own arguments.

The hazards are in `PROJECT.json`, each at its source line, with the property
that would catch it. Where the code gives no guarantee, section 4 has the
property and what happens.

## 2. Modules

| Module | Models | Composes / extends |
|---|---|---|
| `PortBook` | what the port table promises: host port -> container port, and the ports of compose projects | |
| `PortTable` | the table with proxy threads, the two-step registration, listen queues, drop and wake-up | implements `PortBook` (`BookSpec`) |
| `PortTableProofs` | theorems about `PortTable` | `PortTable` |
| `GuestEvents` | state files, poller, difference, broadcast into bounded channels, Subscribe handlers, the subscriber | |
| `PortForwarding` | `run -p`, container exits and restarts, the watcher freeing ports | extends `GuestEvents`, uses `PortBook` |
| `MCPortForwarding` | gives `PortForwarding` its container-to-port assignment | `PortForwarding` |
| `ComposePorts` | `compose` commands: register, roll back, track, run, release | uses `PortBook` |
| `Volumes` | `-v` arguments, shares, tags, bind mounts and the way back, as operators on paths | |
| `DaemonLifecycle` | `ensure_running`, `daemon::run`, `vm_stop`, `vm_init` and the state files, file by file | extends `Volumes` |
| `MCDaemonLifecycle` | gives it paths and lists of `-v` arguments | `DaemonLifecycle` |
| `DaemonProofs` | theorems about `DaemonLifecycle` and the volumes | `DaemonLifecycle`, `Induction` |
| `SubnetAlloc` | `ensure_vm_ip` and everything else that writes `vm.conf` | |
| `ConsoleRing` | `ConsoleRingBuffer` as operators | |
| `ConsoleRelay` | `console_relay_loop` and `proxy_console` | extends `ConsoleRing` |
| `StreamProofs` | theorems about ring and relay, the event stream and the published ports | `ConsoleRelay`, `PortForwarding`, `Induction` |
| `VmNetwork` | utun relays of all profiles, the helper and its restarts, the kernel state it sets, SLAAC/DAD | |
| `NetworkProofs` | theorems about the network, the subnets and the compose ports | `VmNetwork`, `SubnetAlloc`, `ComposePorts` |
| `Proxy` | one connection through the daemon: the two copying threads and their descriptors | |
| `ExecSession` | one exec/shell/`run -i`: CLI threads, the guest's threads, the child | extends `Proxy` |
| `ExecProofs` | theorems about `ExecSession` | `ExecSession` |
| `GuestCommand` | one plain command, login, ping, build or cp: CLI, `connect_vsock`, `handle_connection` and the handlers of the guest, tar, the process | extends `Proxy` |
| `CommandProofs` | theorems about `GuestCommand` | `GuestCommand` |
| `DockerCache` | the shim's run, start, stop, rm, inspect, port and events around its cache file | |
| `BaseImages` | the FROM lines of a Dockerfile as the shim and as the guest read them, as operators | |
| `DockerImages` | the shim's pull and build with probe containers and resolved copies | extends `BaseImages` |
| `MCDockerShim` | both on small instances, one subject per behaviour | `DockerCache`, `DockerImages` |
| `DockerProofs` | theorems about both | `DockerCache`, `DockerImages` |
| `Induction` | induction over numbers and lists, stated with sets; lemmas only | |

### How state and actions correspond to the code

**PortTable.** `active` and `proxies` are the maps of `PortState`, `projects` is
`compose_projects`. `thread` has one record per `PortProxy` thread: spawned
(before `bind`), listening, failed (bind refused), stopped; its `shutdown` field
is the shared flag and its queue the kernel's listen queue. The mutex is the
variable `pending`: a registration spawns the thread (`RegisterSpawn`) and then
enters it into the table (`RegisterInsert`); the thread may run in between, any
other request may not. `DropProxy` is `Drop for PortProxy`: set the flag, then
one connection, which reaches whoever listens on the port at that moment.

**GuestEvents.** `containers` is what the runtime has written, `current` and
`prev` are the poller's samples. `conn` has a record per Subscribe connection:
its channel (256 events in the code, `ChanCap` here; the rest of a batch is
dropped when it is full), what is on the wire, and whether the snapshot has been
sent. `view` is the map the watcher keeps. A failed write or heartbeat ends a
handler; the connection may be lost at any time and the watcher subscribes anew
while the old handler still runs.

**PortForwarding** adds `cli` (where each `run` command is) and the table.
`CliReliable = FALSE` lets CLIs be killed and runs be refused at any point; a CLI
of which a second `-p` is refused exits with the first one registered, which is
a CLI killed at that point.

**DaemonLifecycle.** `files` says which daemon wrote each of the five files, in
the order of `clear()`. Every read, write, bind and removal of a file is one
step. `Patience` says how careful the user is: 0, commands at any time; 1, none
while another command runs; 2, also none while a daemon boots; 3, also none
while one shuts down. `Deadlines` lets `ensure_running` and `vm_stop` give up.
A daemon may crash at any moment, a command being under way or not; boots and
binds may fail, and so may the writes of the files in `WriteFaults`, which the
daemon only logs. `vm.stop()` may fail: the daemon then clears its files while
its VM still runs, until the process ends ("stuck_clear"). A daemon that finds
its own binary gone shuts down as after SIGTERM. Removing the binary is an act of
the user, so `Patience` holds for it too (`BinaryRemoved`): from 1 on it does not
fall into another command, and with 3 the user waits with the next command until
the daemon has looked (every 30 s) and has gone. A command carries its `-v`
arguments and a daemon the `--volume` arguments it was started with; both
compute their shares with `daemon_args_from_cli`. `vm_init` looks at the PID
file (`InitGuard`), or with `--force` signals the daemon and waits, and copies
the disk (`InitCopy`).

**Volumes.** A path is a sequence of components, so that "below `$HOME`" is a
prefix. A tag is "share" followed by the digits of its number, as the shim
compares tags as strings.

**SubnetAlloc.** `conf` is the `vm_ip` line of each `vm.conf` (0: none). The scan
reads the other profiles' files one by one. `vm init --force` and
`build-build-image.sh` rewrite files.

**ComposePorts.** Each CLI process carries the mapping it wants, what it has
registered, and its place in `Commands::Compose`. It may be killed at any point,
exit where it connects for the guest (`ConnectExits`), and each of its requests
may miss the daemon (`NotReached`); `left` has the ports that such a command
leaves registered. `stack` is the set of projects whose supervisor runs in the
VM.

**ConsoleRelay.** `sock` is the console socketpair, `drained` everything ever
pushed into the ring, `toClient`/`got` what a client is about to read and has
read. With `push_slice` and `replay_to_fd` as operators on a ring of any
capacity. `input` is the other direction: what the client has typed, what the
relay holds while it is in its blocking write to the guest, what waits in the
guest's end. One thread does both, so nothing else happens while it holds input.

**VmNetwork.** `relay[i]` is the relay on interface *i* and how far its VM is;
`utuns` and `aliases` are the helper's memory, which a restart empties; `nat`,
`fwd`, `route4`, `route6` are kernel state, which it does not. A setup that
fails leaves what the commands before the failing one did. Errors of the
teardown's commands, and of `route delete` in a setup, are ignored by the code,
so each may have had its effect or not: a route that could not be deleted goes on
pointing to the interface of an earlier VM of the profile. utun interfaces
outlive their relay and numbers are not reused.

**Proxy.** Messages go through `cliUp` and `vmUp`, answers through `vmDown` and
`cliDown`, each bounded by `Capacity`. `relay` has the two threads of `proxy`;
each holds a descriptor of both sockets, so the host's end of a connection is
closed when both have ended (`HostOpen`).

**ExecSession.** Frames pass the proxy, the stdin pipe, the child and its output
pipes. A child may leave a descendant that has its streams (`heir`); the output
threads read on until it is gone too. Where the pseudo-TTY cannot be duplicated
no thread is started and the code is 1 (`ExecDupFails`). The guest's end is
closed when the connection's descriptor is, unless a
thread sits in a `read()` on it (`GuestOpen`). `VmStops` and `DaemonExits` are
the daemon's shutdown in the middle of a command: the guest goes first, then
`exit(0)` takes the copying threads.

**GuestCommand.** `cli.at` follows `passthrough_command`, `build_command`,
`cp_to_command` or `cp_from_command`, `main` the guest's `handle_connection` and
the handler it called: "idle" is its `read_line`, to which it returns after a
plain command only. An archive is `BodyLen` chunks after the line that announces
it. The copy to tar is through at its last byte or at the end of the stream
(`Copied`), and tar's status is looked at after that (`TarSucceeds`). `tar.owes`
is a tar that must print a message before it reads on; `reader`
and `chan` are the two threads and the channel of `spawn_and_stream`. A line that
is not UTF-8 ends its thread (`child.cut`). `dial` counts the attempts of
`connect_vsock` that failed, those whose completion handler may still be called,
and the descriptors such calls have left. `login` writes a password into the
process's stdin before it reads any output ("feeding").

**DockerCache.** A docker process (`cli`) goes through the steps of its command:
the pelagos commands it runs, and the load, truncation and write of the cache
file. `box` is what pelagos has: a container that exits may stay or be
forgotten. `owed` remembers the names whose run has returned 0, until their rm.
A write of the cache may fail, which no command notices (`CacheWriteFails`);
`file.lost` has the names whose entries that may have cost.
`proxies` are processes with a PID; the cache holds PIDs only. `pelagos
port-proxy` is taken as what the shim uses it for: the repository's CLI has no
such command.

**DockerImages.** A pull is `pelagos run` of a probe container of a fixed name,
stop and rm, of which the last two may fail unnoticed. `todo` has the images a
build has still to pull by the number of their FROM line; the lowest is next.
`temp` has the resolved copies: next to each Dockerfile and, when that cannot be
written, under `/tmp` (`Slots`; if that fails as well, the original is used). A
build that reaches the guest leaves its copy there. `HostFile` is the file that
the shim reads, `GuestFile` the one that the guest finds under the base name it
gets from `build_command`: `AtRoot` says which file of that name is in the root
of the context. `BaseImages` resolves references and aliases twice, as the shim
and as the guest do.

## 3. Runs

Every property has a mutant (a plausible bug in a mapped definition) under which
TLC finds it violated. Each state machine has a `TypeOK` that holds on the
instances too; the runs list it only as part of the inductive invariants `IInv`.
Those of the proof modules have been checked with TLC on the runs' instances
before they were proved.

| Run | Instance | Shows |
|---|---|---|
| `port_table` | 1 host port, 2 container ports, 1 project, 3 threads | `IInv`, `TrafficMatchesTable`; refinement of `PortBook`; `FreshForwardComesUp`, `DroppedListenerStops`. Three threads are needed for a forward, its successor and a third that meets the leftovers of both. |
| `port_forwarding` | 1 container, 2 container ports, 2 subscriptions, channel of 2 | `StreamLeadsToSample`, `TrackedExitFreesPort`. A channel of 2 overflows; two subscriptions give one reconnection with the old handler alive. |
| `daemon_lifecycle` | 2 daemons, lists of `-v` arguments below and outside `$HOME`, 2 disk lists, `Patience` 3, deadlines on, lists that cannot be written | `OneVm`, `OkMeansConnectable`, `OkMeansSameConfig`, `StopMeansVmOff`, `MountsReachHost`, `HomeMountsAreAccepted`, `DiskIsNotOverwritten` through crashes at any moment, failed boots and binds, a VM that cannot be stopped, and timeouts. Two daemons are a dead one with the files it left and its successor; the proofs have any number. |
| `subnet_alloc` | 3 named profiles, 2 subnets for them | `AllocationIsFree`, `DistinctSubnets`; subnets run out |
| `compose_ports` | 2 commands (`up --foreground`, `down`), 2 projects, 2 host and 2 container ports | `ActivePortHasOwner`, `CommandsEnd`, with commands killed, exits before the guest is reached and requests that miss the daemon |
| `console_relay` | ring of 3, 7 bytes, 2 clients, sockets of 2 both ways | ring invariant, `ReplayIsTail`, `SliceKeepsTail` (slices up to twice the ring; the relay's own buffer is shorter than the ring), `FirstClientSeesAll`, `GuestIsNeverHeldUp` |
| `vm_network` | 2 profiles, 3 interfaces | `KnownVmHasNetwork`, `DadIsUndisturbed` |
| `exec_session` | 3 chunks of input, every buffer 1 chunk, tty or not, one exit code of the child besides 0 and 1 | `OutputIsComplete`, `EofMeansAllInput`, `CliReturns`, `InputIsAnswered`, with descendants that outlive the child |
| `guest_command` | archives of 5 chunks, 2 lines, sockets and pipes of 2, 2 messages of tar, 2 attempts | `ZeroMeansWhole`, `OutputIsComplete`, `BuildHasWholeContext`, `CommandReturns` with failed and late attempts to reach the guest, refusals, kills and shutdowns at every step. Five chunks fill both sockets while one is still with the CLI. |
| `docker_shim` | 2 docker processes, 2 names, 1 proxy, `docker events`; 3 Dockerfiles with stages, a variable, a flag, a stage named after its image and one below the root of the context; 2 sets of build arguments; 1 name under `/tmp` | `CacheIsAccurate`, `InspectIsRight`, `NoProxyLeft`, `FirstStartIsReported`, `BuildUsesOwnArgs`, `BuildHasBases`, with processes killed in rm, in pulls and in builds, and writes, stops and removals that fail |
| `daemon_two_vms` | 2 daemons, one command at a time | **violated**: two VMs of one profile |
| `compose_up` | 1 command | **violated**: a daemonised `up` gives its ports back while the project runs |

The containers, the events and the images of the Docker shim have no state in
common, so each behaviour of its run is about one of them (`Subjects`). The
constraint `Instance` cuts what is only a copy of something else: failed writes
are those of one name, a process that has got its answer from inspect goes no
further, a build gets arguments only if its file uses them. It also keeps
`docker pull` to one image (builds pull both). None of this touches the
behaviours with `docker events`, so it hides nothing from `FirstStartIsReported`.

Deadlock checking is off where the system may come to rest: all bounded
resources used up (threads, daemons, connections, bytes), or a session or
command that has ended. `subnet_alloc` and `vm_network` check it.

### Bounds

`MaxProxies`, `MaxBacklog`, `MaxConns`, `WireCap`, `MaxDaemons`, `MaxOut`,
`MaxClients`, `MaxUtuns`, `MaxIn`, `MaxPids` and `MaxLines` cut off behaviours that could go on for
ever; each is in a guard and named where it is declared. `MaxErr` is what tar
prints while it unpacks; section 4 says what happens when it is more than a pipe
holds. `ChanCap`, `Capacity`,
`SockCap`, `ClientCap`, `LastSubnet`, `MaxTries` and `Base` (of the numbers in tags) are sizes the code has too, made small
so that the limit is reached. What is proved (section 5) holds for every
value of them; only `MountsReach` has a limit in it, `Base`.

### Fairness

Weak fairness, of steps that an operating system thread or process takes
when it can: proxy threads (`ProxyBind`, `ProxyAccept`), the second half of a
registration, the poller (an endless loop with a sleep), Subscribe handlers, the
watcher's reads, the steps of a CLI that is not killed, the console relay's
loop, the copying threads of a connection, the guest's
handlers, the polls of `docker events`. Never assumed: that a user types, a
container exits, a connection survives or a VM is started. `RelayToClient` alone
has strong fairness: each round of `proxy_console` looks at both directions, so
input cannot keep it from output for ever. Some assumptions go
beyond scheduling: `ConsoleRelay` assumes that an attached client reads (a
client that does not does hold up the guest), its `GuestIsNeverHeldUp` that the
guest takes input again and again (one that does not leaves the relay in its
write), and `ExecSession` that the child
goes on reading and writing, without which `InputIsAnswered` would be about the
child; `CliReturns` is about a child without descendants that keep its streams.
`GuestCommand` assumes that the process a command runs ends at some time
(`logs -f` does not, and its CLI does not return either).

### Assumptions on the environment

* `vm start -p` is given distinct host ports.
* `EveryStatusSeen` (GuestEvents): a container's status lasts until the poller
  has read it, so that a restart is not missed between two samples.
* `OwnProjects` (ComposePorts): no two commands work on one project at a time.
* `Patience = 3` (DaemonLifecycle): the user waits for boots and shutdowns, also
  for the one after the binary was removed. `WriteFaults` has the two lists and
  not the PID file.
* The data directory is in `$HOME` (Volumes), as it is without `XDG_DATA_HOME`,
  and there are not more shares than one digit counts.
* `Overlap = FALSE` (DockerCache): no two docker commands are at the cache file
  at the same moment; they do run at the same time. `RmFirst = TRUE`: a name is
  used again only after `docker rm`. `OwnFile = TRUE` (DockerImages): no two
  builds use one Dockerfile, or one name under `/tmp`, at the same time. Commands that change a container
  are given one at a time.
* `VmNetwork` takes from `DaemonLifecycle` that a profile has one VM, and from
  `SubnetAlloc` that profiles have different subnets.

Section 4 says what happens without them.

## 4. Where the code and its comments disagree

Two disagreements have a run and a finding in `PROJECT.json`:

* `daemon_two_vms`: the guard against two daemons (`daemon.rs:371`) looks at a PID
  file that is written after the boot.
* `compose_up`: "bulk-deregistered when the project stops" (`daemon.rs:206`); the
  ports go when the command ends.

The others are stated in their modules and fail as well; to see the
counterexample put the property into the cfg named here, in place of its
properties.

| Property | Claim | Cfg to change | What happens |
|---|---|---|---|
| `PortTable!DropStopsListener` | "Dropping a handle stops the proxy listener" (`daemon.rs:230`) | `PortTable.cfg` | a handle dropped before its thread has bound misses the wake-up |
| `PortTable!RemovedPortHasNoProxy` | "Removal is handled by dropping the PortProxy" (`daemon.rs:143`) | `PortTable.cfg` | project release and container exit keep the handle |
| `PortTable!RegisteredPortIsServed` | "Start listening on host_port" (`daemon.rs:202`) | `PortTable.cfg` | the old listener of the port is still there, the new thread's bind fails after the Ok |
| `VmNetwork!StoppedVmIsTornDown` | "flush pf rules when the relay is stopped" (`tun_relay.rs:230`) | `VmNetwork.cfg` | the daemon exits while its watcher still holds the VM, so no `Drop` runs |
| `VmNetwork!ProbeGetsAlias` | "detects the DAD Neighbour Solicitation (source = ::) and asks pelagos-pfctl to add that GUA as an alias" (header of `tun_relay.rs`, 39-41; "after DAD NS observed", line 342) | `VmNetwork.cfg` | `maybe_assign_gua_alias` skips that packet on purpose, its own comment says why (593-599: an alias would answer the probe), and asks at the first packet from the address; `DadIsUndisturbed` checks what the function promises |
| `GuestEvents!NobodyIsStuck` | "rather than leaving it stuck in ContainerStarted" (guest `main.rs:2638`) | `PortForwarding.cfg`, `EveryStatusSeen = FALSE` | a status that falls on the snapshot only |
| `PortForwarding!UnusedPortIsFreed` | "automatically removes port forwards ... when a container exits" (`daemon.rs:778`) | `PortForwarding.cfg` | an exit while the watcher is not connected |
| `PortForwarding!ExitFreesOwnPortOnly` | "look up which ports belong to that container" (`daemon.rs:799`) | `PortForwarding.cfg`, `NumNames = 2` | a late exit frees the port of the next container |
| `DaemonLifecycle!StopMeansExited` | "Wait for the daemon to fully exit before returning" (`main.rs:1876`) | `DaemonLifecycle.cfg` | the PID file goes first |
| `DaemonLifecycle!OkMeansConnectable` | "Returns Ok(()) once vm.sock is connectable" (`daemon.rs:269`) | `DaemonLifecycle.cfg`, `Patience = 2` | a daemon shutting down still passes the PID check |
| `DaemonLifecycle!OkMeansSameConfig` | "Verify the running daemon was started with the same set" (`daemon.rs:299`) | `DaemonLifecycle.cfg`, `Patience = 1` | the PID file is written before the lists |
| `DaemonLifecycle!OkMeansSameConfig`, `MountsReachHost`, `HomeMountsAreAccepted` | "produces the same virtiofs share set" (`main.rs:1740`) | `DaemonLifecycle.cfg`, `DataDir <- XdgDataDir` | with a data directory outside `$HOME` the daemon counts the volumes directory among its `-v` arguments: tags move by one, and later commands are refused |
| `DaemonLifecycle!MountsReachHost` | the VM path is shown as the host path (`pelagos-docker main.rs:1002`) | `DaemonLifecycle.cfg`, `Base = 2` | `/mnt/share1` is a prefix of `/mnt/share10` |
| `DaemonLifecycle!DiskIsNeverOverwritten` | "Refuse to overwrite root.img while the VM is running" (`main.rs:2034`) | `DaemonLifecycle.cfg` | `--force` copies after 45 s whether the VM has stopped or not |
| `DaemonLifecycle!OneVm` | "Guard against two daemons racing" (`daemon.rs:371`) | `DaemonLifecycle.cfg`, `WriteFaults = {"pid"}` | a daemon that could not write its PID file serves on, and nobody finds it |
| `SubnetAlloc!AllocationIsFree` | "not in use by any existing profile's `vm.conf`" (`state.rs:265`) | `SubnetAlloc.cfg`, `Commands = {1, 2}`, `Overlap = TRUE` | two profiles started together get one subnet |
| `ComposePorts!RollbackTakesOwnOnly` | "Roll back any ports we already registered" (`main.rs:1507`) | `ComposePorts.cfg` | takes back a mapping another command shares |
| `ComposePorts!ActivePortHasOwner` | "Deregister ports on any exit" (`main.rs:1551`) | `ComposePorts.cfg`, `OwnProjects = FALSE` | tracking replaces the ports of an earlier command |
| `ComposePorts!ExitReleasesPorts` | "Deregister ports on any exit (success or failure)" (`main.rs:1551`) | `ComposePorts.cfg` | `connect_or_exit` (`main.rs:1538`) ends the process after the ports were registered and tracked, before that line |
| `ConsoleRelay!EveryClientSeesAll` | "replay everything they missed" (`daemon.rs:1107`) | `ConsoleRelay.cfg` | live output of one client is missing from the next one's replay |
| `ExecSession!ConnectionEnds` | "Returns when either side closes" (`daemon.rs:541`) | `ExecSession.cfg` | the guest's stdin thread keeps the connection open for ever |
| `GuestCommand!ConnectionEnds` | the same | `GuestCommand.cfg` | thread B has a descriptor of its own and no half is shut down, while the guest waits for the next command: every `ps`, `logs` or `run` leaves two threads and a connection behind; a connection the guest drops (a failed build, a login whose process has ended) leaves the CLI waiting |
| `GuestCommand!NoStrayConnection` | "dup() here so we own the fd" (`vm.rs:267`) | `GuestCommand.cfg` | the completion of an attempt that timed out duplicates a descriptor that nobody takes |
| `GuestCommand!CommandReturns` | "pipes them to `tar -xC <dst>`" (guest `main.rs:1813`) | `GuestCommand.cfg`, `MaxErr = 3` | `handle_cp_to` reads tar's messages only after it has copied all: more than a pipe holds stops both, and the CLI |
| `DockerCache!CacheIsAccurate`, `InspectIsRight` | "Docker, by contrast, retains exited containers" (`pelagos-docker main.rs:1366`) | `DockerShim.cfg`, `Overlap = TRUE`, or `Killable = {"write"}` for the first | two commands load, and the second write drops the first one's entry; a file that is being written counts as empty |
| `DockerCache!NoProxyLeft` | "killed on `docker stop` / `docker rm`" (`pelagos-docker main.rs:572`) | `DockerShim.cfg`, `RmFirst = FALSE`, `MaxPids = 2`, or `Killable = {"wait"}` | a second run of the name replaces the PID of the first one's proxy; a run that is killed never kills its own |
| `DockerCache!OnlyProxiesAreKilled` | "Kill the port-proxy process for `name`" (`pelagos-docker main.rs:923`) | `DockerShim.cfg` | the PID of a proxy that has ended, or was killed by stop, stays in the cache and is signalled again |
| `DockerCache!EveryStartIsReported` | "a JSON start event for each newly-seen container" (`pelagos-docker main.rs:796`) | `DockerShim.cfg` | names stay known: a container removed and created anew, or started again, is not reported |
| `DockerCache!UntypedInspectIsRight` | "expects to see the container in "exited" state" (`pelagos-docker main.rs:1368`) | `DockerShim.cfg`, without the constraint | without `--type` a forgotten container is answered as an image |
| `DockerImages!BuildUsesOwnArgs` | "substitute --build-arg values into FROM lines" (`pelagos-docker main.rs:1757`) | `DockerShim.cfg`, `OwnFile = FALSE` | two builds of one Dockerfile share the resolved copy |
| `DockerImages!OnlyBasesArePulled` | "references an earlier stage by alias" (guest `main.rs:1502`) | `DockerShim.cfg` (as an invariant), `AtRoot <- MCAllAtRoot` | after `--platform=` the guest takes the flag for the image and misses the alias |
| `DockerImages!NamedFileIsBuilt` | "just use its name/rel path" (`main.rs:2535`) | `DockerShim.cfg` (as an invariant) | it is the name: of `-f sub/Dockerfile` the guest builds the namesake in the root of the context |
| `DockerImages!EveryBaseIsPulled` | "names a registry image (must be pulled) or references an earlier stage by alias" (guest `main.rs:1501`) | `DockerShim.cfg` (as an invariant) | the alias of a line counts before its image is looked at: `x` of `FROM x AS x` is not pulled |

Properties that pass have exceptions where the code drops an error: an Ok for a
daemon whose list of disks could not be written (`OkMeansSameConfig`); a VM that
`vm.stop()` failed to stop (`StopMeansVmOff`, `DiskIsNotOverwritten`: "stuck_clear");
entries of the docker cache lost in a failed write (`file.lost`); builds for which
neither copy could be written, and Dockerfiles below the root of the context
(`BuildUsesOwnArgs`); an image that a stage is named after (`BuildHasBases`); the
output on a pseudo-TTY that could not be duplicated (`OutputIsComplete`); compose
ports of commands that were cut short (`ActivePortHasOwner`); a route of the
profile that could not be deleted (`KnownVmHasNetwork`). Each exception is in the
property and its comment.

Seen while modelling, and not stated as properties: probe containers that
`pelagos stop` or `rm` failed to clear away make later pulls fail; `docker start` does not
start the port proxy again; `run_pelagos_timeout` says that it kills the process
and does not; `:ro` is ignored for paths below `$HOME`; `read_vm_share_map`
knows neither profiles nor `XDG_DATA_HOME`; `connect_vsock` says 30 attempts and
makes 60.

## 5. Proofs

`tlapm` checks every theorem. They hold for all values of the constants that
satisfy the assumption named in the module that declares them
(`NoneAssumption`, `BoundsAssumption`, `ComposeAssumption`, `SubnetAssumption`,
`NetworkAssumption`, `GuestEventsAssumption`, `PublishAssumption`, `LifecycleAssumption`, `VolumesAssumption`,
`CapacityAssumption`, `ZeroAssumption`, `RelayAssumption`, `BytesAssumption`,
`ExecAssumption`, `CommandAssumption`, `ShimAssumption`, `ImagesAssumption`), all
of which TLC evaluates in the runs: mostly that a bound is a number and that the
values standing for "none" are not among the real ones. What a theorem assumes
of the users (section 3, Assumptions on the environment) is a hypothesis of the
theorem; the run has the same condition in its cfg, and section 4 says what goes
wrong without it.

| Theorem | States | Hypotheses |
|---|---|---|
| `PortTableProofs!InvariantHolds`, `TrafficIsRoutedByTable` | `IInv`, `TrafficMatchesTable` | |
| `PortTableProofs!ImplementsPortBook` | `PortTable` implements `PortBook` | |
| `NetworkProofs!PortsHaveOwners` | `ActivePortHasOwner` | `OwnProjects` |
| `NetworkProofs!ComposeImplementsBook` | `ComposePorts` implements `PortBook` | |
| `NetworkProofs!NetworkInvariant`, `VmsDoNotInterfere`, `HostStaysOutOfDad` | `IInv`, `KnownVmHasNetwork`, `DadIsUndisturbed` | |
| `NetworkProofs!AllocationsAreFree`, `SubnetsAreDistinct` | `AllocationIsFree`, `DistinctSubnets` | one command at a time (`~Overlap`) |
| `StreamProofs!IInvHolds`, `ReplayIsCorrect`, `FirstClientMissesNothing`, `SlicesKeepTail` | `IInv`, `ReplayIsTail`, `FirstClientSeesAll`, `SliceKeepsTail` | |
| `StreamProofs!StreamLeads` | `StreamLeadsToSample`, for `GuestEvents` alone | `EveryStatusSeen` |
| `StreamProofs!WatcherIsLedToSample` | `StreamLeadsToSample`, for `PortForwarding` | `EveryStatusSeen` |
| `StreamProofs!PortsKeepTheBook` | `PortForwarding` implements `PortBook` | |
| `DaemonProofs!OnlyOneVm`, `OkIsConnectable`, `StoppedIsOff`, `DiskIsKept` | `OneVm`, `OkMeansConnectable`, `StopMeansVmOff`, `DiskIsNotOverwritten` | `Patience = 3`, "pid" not in `WriteFaults` |
| `DaemonProofs!OkIsSameConfig` | `OkMeansSameConfig` | the same, and the data directory below `$HOME` |
| `DaemonProofs!MountsAreBound` | what `run` binds for a `-v` is the directory it names (`MountIsBound`) | the same |
| `DaemonProofs!MountsReach` | `MountsReachHost` | the same, and fewer than `Base` volumes outside `$HOME` |
| `DaemonProofs!HomeMountsAccepted` | `HomeMountsAreAccepted` | data directory below `$HOME` |
| `ExecProofs!AllOutputIsShown`, `AllInputArrives` | `OutputIsComplete`, `EofMeansAllInput` | |
| `CommandProofs!WholeContext`, `AllLinesShown`, `ZeroIsWhole` | `BuildHasWholeContext`, `OutputIsComplete`, `ZeroMeansWhole` | |
| `DockerProofs!CacheStaysAccurate` | `CacheIsAccurate` | `~Overlap`, no kill at the cache file |
| `DockerProofs!InspectStaysRight` | `InspectIsRight` | the same, and no kill of an inspect or port |
| `DockerProofs!ProxiesAreCleared` | `NoProxyLeft` | `~Overlap`, `RmFirst`, no kill of a run nor at the file |
| `DockerProofs!BuildsUseOwnArgs` | `BuildUsesOwnArgs` | `OwnFile` |
| `DockerProofs!BuildsHaveBases` | `BuildHasBases` | |

The inductive invariants, and why the properties need them:

* **PortTableProofs.** `TrafficMatchesTable` alone is not inductive: a step could
  let a forgotten thread listen on a port that is registered again. `IInv` adds
  who owns a thread: the table or the request in progress, or it has been told to
  stop (`ThreadsAreOwned`); that the table's handles are threads of their own
  port (`TableIsSound`); and that a request in progress has found its port free
  (`PendingIsFresh`). For the refinement the invariant is needed at
  `RegisterInsert`, which must find the port free although it was looked up one
  step earlier.
* **StreamProofs, console.** For every capacity the ring's contents, read from
  `head - len` modulo the capacity, are the last bytes drained. The induction is
  on steps; the modular arithmetic of one push is a lemma of its own for the two
  cases, full and not full. A slice is pushed byte by byte (`PushAll`), and an
  induction over the slice gives `SliceKeepsTail` at any length. For the first
  client, `StreamInv` adds that what is in the console socket is what comes next
  (`SockIsNext`), that until the first client comes everything goes to the ring
  (`NoneYet`), and that what this client has read and what is on its way to it
  are one unbroken piece from the oldest byte of the ring on (`FirstStream`).
* **StreamProofs, events.** `StreamLeadsToSample` is about a client whose
  snapshot is out. Nothing in it says what waits in the channel of a handler that
  has registered and has not yet sent one, although the poller broadcasts to it
  already. `EventInv` adds that these events keep a picture right that is right
  about a container (`SnapshotFits`), so that it does not matter on which side of
  the snapshot a sample falls; that nothing is on the wire before the snapshot
  (`SnapshotIsFirst`); that the client's connection is open, registered
  with the poller and served (`ClientIsServed`); and that the poller compares with its last sample when it
  wakes up. What a list of events does to a picture is decided name by name: the
  lemmas say what one event, one batch and two lists after each other do. For
  the refinement of `PortBook` only steps that change the table matter.
* **NetworkProofs.** `KnownVmHasNetwork` needs that live relays are of different
  profiles (else a setup takes over another VM's route) and that the helper knows
  only created relays (else a subnet without a profile is loaded);
  `DadIsUndisturbed` needs that a VM that has probed has been heard
  (`ProbedMeansHeard`). One lemma per group of actions, each resting on what a
  change of stage or a frame leaves alone. For the subnets `AllocInv` says that
  nobody else is at work (`OneAtATime`) and that a scan's record is exactly what
  the files it has read say still (`ScanIsExact`); that the lowest free number
  exists is the well-foundedness of the naturals. For compose, tracking replaces
  what the table has for a project, so `ComposeInv` adds that a project has one
  command at a time (`OneCommandEach`), that what a command has registered is
  tracked from then on (`MineIsTracked`), and that what is tracked belongs to a
  command of the same project that is past tracking or was cut short
  (`TrackedHasOwner`). The refinement needs types only.
* **DaemonProofs.** `IInv` says that one command is at work (`OneBusy`) and one
  daemon lives (`OneAlive`), which of the five files a daemon has written at each
  point of its boot and shutdown (`Shape`, `FilesOf`), and what a command in the
  middle of `ensure_running`, `vm_stop` or `vm_init` knows of the daemon it saw
  or spawned (`Fits`): among others that no other daemon is there, so that what
  is in the files is that daemon's also when it dies in between. Without the last,
  a command could return on what it read of a daemon that has gone since.
  For the volumes the lemma `RoundTrip` says that a daemon
  parses its `--volume` arguments back to the share list its command meant, for
  any list of arguments. It rests on what a filter keeps and in which order (the
  `OutsideHome` lemmas), and on the data directory being below `$HOME`; where
  `XDG_DATA_HOME` points elsewhere it fails (section 4). A `-v` then finds its
  share by the tag, and no two shares have the same tag because the digits of
  two numbers differ (`DigitsFacts`): `MountsAreBound` has no limit on the number
  of volumes. `MountsReach` has one, because `docker inspect` goes from guest
  paths back to host paths by prefix and takes `/mnt/share10` for a path of
  `/mnt/share1`. `HomeMountsAccepted` needs types only, and so holds however many
  commands run at a time.
* **ExecProofs.** The two sockets of a direction, with the chunk a copying thread
  may hold, are seen as one queue: the proxy's steps leave it alone. `OutInv`
  says that what is shown, queued and still in the child's pipes is everything
  written, and that the exit frame is last; `InInv` that what is queued
  continues, number by number, what has reached the child.
* **CommandProofs.** `Shape` ties the positions of CLI, guest and process
  together; `Answers` counts lines (shown, in the sockets, in the guest: together
  what was written) and says that nothing follows the last message; `Archive`
  says at which position of the answer each chunk of `cp` from a container is.
* **DockerProofs.** The cache file is loaded, truncated and written in steps of
  their own. `CacheInv` says that whoever is between load and write has the file's
  contents with its own change (`MapIsCurrent`), that the file can be read unless
  somebody is at the write (`FileIsWhole`), and that it has what is owed but for
  the entry an rm is taking out (`OwedIsCached`). `ProxyInv` adds, for proxies,
  that a run under way is the only one of its name (`RunIsAlone`), that its name
  is not in the cache (`RunIsNew`), that every other proxy's PID is there
  (`ProxiesAreKnown`) and that an rm has killed it (`RmHasKilled`). For builds,
  `ImagesInv` says that a Dockerfile and a name under `/tmp` have one build and the
  copy is that build's; `PullInv`, that images in the VM are images and that what is left to
  pull comes from a registry. `BuildHasBases` then holds because a line with a
  flag makes the guest pull the flag, and fail.

The library's induction theorems take an operator as a parameter, which the
installed provers cannot instantiate. `Induction` states what is needed with sets
instead: a set of numbers that has 0 and the successor of each member has all of
them (from the least counterexample), iterating a step gives a function, and a
set of lists that has the empty one and is closed under appending has every
list. Recursive definitions (`OutsideHome`, `Digits`, `PushAll`, `Joined`, `Seen`) are
shown to exist from these.

Only model-checked is liveness under fairness, which is out of the prover's
reach: `FreshForwardComesUp`, `DroppedListenerStops`, `TrackedExitFreesPort`,
`CommandsEnd`, `GuestIsNeverHeldUp`, `CliReturns`, `InputIsAnswered`,
`CommandReturns`, `FirstStartIsReported`.

## 6. Not modelled

* The bytes that `relay_tcp` and the frames of the network relay carry, packet
  formats and checksums.
* Redirect rules of the helper: no code path of the daemon adds one.
* `socket_vmnet.rs`: not used by the daemon.
* Argument lists; the programs that the Kubernetes commands start and end.
* `ssh`, `ping` over SSH, `console`'s terminal handling: they start an external
  program or copy bytes.
* Dockerfiles beyond FROM and ARG; image names beyond registry or not.
* Of the Docker shim: exec, logs, cp, ps, volume, network, version, info and
  context, which pass one command on and format its output.
* Names of build directories and archives: they are taken from the clock in
  microseconds and taken to be different. The resolved Dockerfiles under `/tmp`
  have one of 1000 names, from the milliseconds of the clock; they are modelled
  (`Slots`) and may meet only with `OwnFile = FALSE`.
* Where `vm init` finds its images; image scripts, `bless.rs`: sequential, no
  state shared while they run, besides `vm.conf`.
* PID reuse, reuse of descriptor numbers, wall-clock time.

## 7. Plan

1. Done: port table with its abstract book, event stream, published ports,
   daemon lifecycle with volumes and `vm init`, subnets, compose, console,
   network, interactive commands, plain commands, build and cp with the way to
   the guest, and the Docker shim.
2. To model: the guest's start-up.
3. Done: proofs of every safety property that a run checks, and of the three
   refinements of `PortBook`.
4. Left: the liveness properties, for which only TLC's instances speak; what
   holds at a `Patience` below 3 besides `HomeMountsAccepted`.
