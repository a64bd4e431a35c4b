---------------------------- MODULE DockerCache -----------------------------
(***************************************************************************)
(* The Docker CLI shim and its containers (pelagos-docker/src/main.rs):    *)
(* docker run, start, stop, rm, inspect, port and events.                  *)
(*                                                                         *)
(* pelagos forgets a container that has exited, Docker keeps it until rm.  *)
(* The shim bridges the gap with a file, shim-containers.json, that every  *)
(* command loads as a whole, changes and writes back, without a lock.  The *)
(* file also holds the PID of the port proxy of a detached container.      *)
(***************************************************************************)
EXTENDS Naturals, FiniteSets

CONSTANTS
    Clis,      \* docker processes that may run at the same time
    Names,     \* container names
    MaxPids,   \* bound: port proxies started in one behaviour
    Overlap,   \* whether two commands may be at the file at the same moment
    RmFirst,   \* whether a name is used again only after docker rm
    Killable   \* the steps in which a docker process may be killed

ASSUME ShimAssumption ==
    Names # {} /\ MaxPids \in Nat /\ Overlap \in BOOLEAN /\ RmFirst \in BOOLEAN

VARIABLES
    file,      \* shim-containers.json: ok (it parses), the entries in it, and the
               \* names whose entries a write that failed may have left wrong
    box,       \* containers as pelagos has them
    proxies,   \* port proxies that run: pid and the name they were started for
    lastPid,   \* the PID used last
    cli,       \* docker process -> where it is
    owed,      \* names that run has returned 0 for, until rm, and their ports
    events     \* docker events: on; known; listed by a poll; told since the start
               \* of the container, ever told

cacheVars == <<file, box, proxies, lastPid, cli, owed, events>>

Pids == 1..MaxPids
NoPid == 0
Entry == [ports : BOOLEAN, pid : 0..MaxPids]
Maps(range) == UNION {[ns -> range] : ns \in SUBSET Names}
NoEntries == [n \in {} |-> [ports |-> FALSE, pid |-> NoPid]]

Put(map, n, e) == [x \in DOMAIN map \cup {n} |-> IF x = n THEN e ELSE map[x]]
Remove(map, n) == [x \in DOMAIN map \ {n} |-> map[x]]

AtFile == {"truncate", "write"}
Steps == {"idle", "run", "wait", "load", "rm", "kill_stop",
          "ps", "look", "look_again", "port"} \cup AtFile

Idle == [op |-> "none", at |-> "idle", name |-> CHOOSE n \in Names : TRUE, flag |-> FALSE,
         ports |-> FALSE, pid |-> NoPid, map |-> NoEntries, hit |-> FALSE]

CacheTypeOK ==
    /\ file \in [ok : BOOLEAN, map : Maps(Entry), lost : SUBSET Names]
    /\ box \in [Names -> {"gone", "running", "exited"}]
    /\ proxies \subseteq [pid : Pids, name : Names]
    /\ lastPid \in 0..MaxPids
    /\ cli \in [Clis -> [op : {"none", "run", "rm", "stop", "inspect", "port",
                               "found"},
                         at : Steps, name : Names, flag : BOOLEAN, ports : BOOLEAN,
                         pid : 0..MaxPids, map : Maps(Entry), hit : BOOLEAN]]
    /\ owed \in Maps(BOOLEAN)
    /\ events \in [on : BOOLEAN, known : SUBSET Names, listed : SUBSET Names,
                   told : SUBSET Names, ever : SUBSET Names]

CacheInit ==
    /\ file = [ok |-> TRUE, map |-> NoEntries, lost |-> {}]
    /\ box = [n \in Names |-> "gone"]
    /\ proxies = {} /\ lastPid = 0
    /\ cli = [c \in Clis |-> Idle]
    /\ owed = [n \in {} |-> FALSE]
    /\ events = [on |-> FALSE, known |-> {}, listed |-> {}, told |-> {}, ever |-> {}]

-----------------------------------------------------------------------------
(* The cache file *)

(* A file that does not parse counts as an empty one.                      *)
load_shim_containers == IF file.ok THEN file.map ELSE NoEntries

MayLoad == Overlap \/ \A c \in Clis : cli[c].at \notin AtFile

Go(c, at) == cli' = [cli EXCEPT ![c].at = at]
Done(c) == cli' = [cli EXCEPT ![c] = Idle]

(* Broken variant: only the own entry is written back.                     *)
CacheLoadsNothing(c) ==
    /\ cli[c].at = "load" /\ MayLoad
    /\ LET n == cli[c].name IN
          \/ /\ cli[c].op = "run"
             /\ cli' = [cli EXCEPT ![c].at = "truncate",
                           ![c].map = Put(NoEntries, n, [ports |-> cli[c].ports, pid |-> cli[c].pid])]
          \/ /\ cli[c].op = "rm"
             /\ cli' = [cli EXCEPT ![c].at = "truncate", ![c].map = NoEntries]
    /\ UNCHANGED <<file, box, proxies, lastPid, owed, events>>

(* cache_container at the end of run, uncache_container at the end of rm.  *)
CacheLoad(c) ==
    /\ cli[c].at = "load" /\ MayLoad
    /\ LET n == cli[c].name  map == load_shim_containers IN
          \/ /\ cli[c].op = "run"
             /\ cli' = [cli EXCEPT ![c].at = "truncate",
                           ![c].map = Put(map, n, [ports |-> cli[c].ports, pid |-> cli[c].pid])]
          \/ /\ cli[c].op = "rm" /\ n \in DOMAIN map
             /\ cli' = [cli EXCEPT ![c].at = "truncate", ![c].map = Remove(map, n)]
          \/ /\ cli[c].op = "rm" /\ n \notin DOMAIN map
             /\ Done(c)
    /\ owed' = IF cli[c].op = "rm" THEN Remove(owed, cli[c].name) ELSE owed
    /\ UNCHANGED <<file, box, proxies, lastPid, events>>

(* save_shim_containers: fs::write empties the file, then fills it.        *)
CacheTruncate(c) ==
    /\ cli[c].at = "truncate"
    /\ file' = [ok |-> FALSE, map |-> file.map, lost |-> file.lost]
    /\ Go(c, "write")
    /\ UNCHANGED <<box, proxies, lastPid, owed, events>>

Returns(c) ==
    /\ owed' = IF cli[c].op = "run" THEN Put(owed, cli[c].name, cli[c].ports) ELSE owed
    /\ Done(c)

CacheWrite(c) ==
    /\ cli[c].at = "write"
    /\ file' = [ok |-> TRUE, map |-> cli[c].map, lost |-> file.lost]
    /\ Returns(c)
    /\ UNCHANGED <<box, proxies, lastPid, events>>

(* The error of fs::write is ignored, the command succeeds: a file that    *)
(* cannot be opened stays as it was, one that cannot be filled is empty.   *)
CacheWriteFails(c) ==
    /\ cli[c].at \in AtFile
    /\ file' = [ok |-> file.ok, map |-> file.map,
                lost |-> IF cli[c].at = "truncate" THEN file.lost \cup {cli[c].name} ELSE Names]
    /\ Returns(c)
    /\ UNCHANGED <<box, proxies, lastPid, events>>

-----------------------------------------------------------------------------
(* Commands.  No two of run, start, stop and rm are given for one name at  *)
(* a time, but for those given while a run without --detach waits.         *)

Active(c) == cli[c].at # "idle"
Changes(c, n) == Active(c) /\ cli[c].name = n /\ cli[c].op \notin {"inspect", "port"}
Unused(n) == \A c \in Clis : Changes(c, n) => cli[c].at = "wait"

At(op, at, n) == [Idle EXCEPT !.op = op, !.at = at, !.name = n]

(* docker run starts the port proxy, which may fail, before the container. *)
RunBegins(c, n, detach, ports) ==
    /\ ~Active(c) /\ \A x \in Clis : ~Changes(x, n)
    /\ RmFirst => n \notin DOMAIN owed
    /\ \/ /\ ports /\ lastPid < MaxPids
          /\ lastPid' = lastPid + 1
          /\ proxies' = proxies \cup {[pid |-> lastPid', name |-> n]}
          /\ cli' = [cli EXCEPT ![c] = [At("run", "run", n) EXCEPT
                                          !.flag = detach, !.ports = ports, !.pid = lastPid']]
       \/ /\ cli' = [cli EXCEPT ![c] = [At("run", "run", n) EXCEPT
                                          !.flag = detach, !.ports = ports]]
          /\ UNCHANGED <<lastPid, proxies>>
    /\ UNCHANGED <<file, box, owed, events>>

Kill(pid) == proxies' = {p \in proxies : p.pid # pid}

(* pelagos run (external): a new container, unless the name is in use or   *)
(* it cannot be started.                                                   *)
Started(n) ==
    /\ box' = [box EXCEPT ![n] = "running"]
    /\ events' = [events EXCEPT !.told = events.told \ {n}]

RunStarts(c) ==
    /\ cli[c].at = "run" /\ box[cli[c].name] = "gone"
    /\ Started(cli[c].name)
    /\ Go(c, IF cli[c].flag THEN "load" ELSE "wait")
    /\ UNCHANGED <<file, proxies, lastPid, owed>>

(* A nonzero code: the proxy is killed, nothing is cached.                 *)
RunFails(c) ==
    /\ \/ cli[c].at = "run"
       \/ cli[c].at = "wait" /\ (box[cli[c].name] # "running" \/ cli[c].hit)
    /\ Kill(cli[c].pid) /\ Done(c)
    /\ UNCHANGED <<file, box, lastPid, owed, events>>

(* A run without --detach ends with its container, code 0.                 *)
RunEnds(c) ==
    /\ cli[c].at = "wait" /\ box[cli[c].name] # "running" /\ ~cli[c].hit
    /\ Kill(cli[c].pid)
    /\ cli' = [cli EXCEPT ![c].at = "load", ![c].pid = NoPid]
    /\ UNCHANGED <<file, box, lastPid, owed, events>>

(* SIGTERM to the PID in the cache, whatever process has it now.           *)
kill_proxy_for_container(n) ==
    LET map == load_shim_containers
    IN  Kill(IF n \in DOMAIN map THEN map[n].pid ELSE NoPid)

(* docker stop: pelagos stop, then the proxy.                              *)
StopRuns(c, n) ==
    /\ ~Active(c) /\ Unused(n)
    /\ \/ /\ box[n] = "running"
          /\ \E left \in {"gone", "exited"} : box' = [box EXCEPT ![n] = left]
       \/ box[n] # "running" /\ UNCHANGED box
    /\ cli' = [cli EXCEPT ![c] = At("stop", "kill_stop", n)]
    /\ UNCHANGED <<file, proxies, lastPid, owed, events>>

(* Broken variant: docker stop leaves the proxy alone.                     *)
StopKeepsProxy(c) ==
    /\ cli[c].at = "kill_stop" /\ MayLoad
    /\ Done(c)
    /\ UNCHANGED <<file, box, proxies, lastPid, owed, events>>

StopKillsProxy(c) ==
    /\ cli[c].at = "kill_stop" /\ MayLoad
    /\ kill_proxy_for_container(cli[c].name) /\ Done(c)
    /\ UNCHANGED <<file, box, lastPid, owed, events>>

(* docker start.  The port proxy is not started again.                     *)
StartRuns(c, n) ==
    /\ ~Active(c) /\ Unused(n) /\ box[n] = "exited"
    /\ Started(n)
    /\ UNCHANGED <<file, proxies, lastPid, cli, owed>>

(* docker rm: the proxy, pelagos rm, the entry.                            *)
RmKillsProxy(c, n, force) ==
    /\ ~Active(c) /\ Unused(n) /\ MayLoad
    /\ kill_proxy_for_container(n)
    /\ cli' = [cli EXCEPT ![c] = [At("rm", "rm", n) EXCEPT !.flag = force]]
    /\ UNCHANGED <<file, box, lastPid, owed, events>>

(* pelagos rm (external) refuses a running container without --force.  A   *)
(* run that waits for the container gets the code of a process that was    *)
(* killed.  The entry goes in any case.                                    *)
RmRuns(c) ==
    /\ cli[c].at = "rm"
    /\ LET n == cli[c].name IN
          \/ /\ box[n] # "running" \/ cli[c].flag
             /\ box' = [box EXCEPT ![n] = "gone"]
             /\ cli' = [x \in Clis |->
                          IF x = c THEN [cli[x] EXCEPT !.at = "load"]
                          ELSE IF cli[x].at = "wait" /\ cli[x].name = n /\ box[n] = "running"
                               THEN [cli[x] EXCEPT !.hit = TRUE] ELSE cli[x]]
          \/ box[n] = "running" /\ ~cli[c].flag /\ Go(c, "load") /\ UNCHANGED box
    /\ UNCHANGED <<file, proxies, lastPid, owed, events>>

-----------------------------------------------------------------------------
(* docker inspect, docker port *)

Quiet == UNCHANGED <<file, box, proxies, lastPid, owed, events>>

PortBegins(c, n) ==
    /\ ~Active(c)
    /\ cli' = [cli EXCEPT ![c] = At("port", "port", n)]
    /\ Quiet

(* cmd_inspect without a type: a name that pelagos does not list is taken  *)
(* for an image, whatever the cache says.                                  *)
InspectDetects(c, n) ==
    /\ ~Active(c)
    /\ cli' = [cli EXCEPT ![c] = IF box[n] # "gone" THEN At("inspect", "ps", n)
                                 ELSE Idle]
    /\ Quiet

(* The answer: found, with the ports the cache has, or not (code 1).       *)
Answer(c, found, map) ==
    LET n == cli[c].name
    IN  cli' = [cli EXCEPT ![c] = IF ~found THEN Idle
                                 ELSE [Idle EXCEPT !.op = "found",
                                                   !.ports = n \in DOMAIN map /\ map[n].ports]]

(* cmd_inspect_container: `pelagos ps --all`, then the cache, for the      *)
(* ports.  A name that is not listed is looked up in the cache once more.  *)
InspectLists(c, n) ==
    /\ ~Active(c) \/ (cli[c].at = "ps" /\ cli[c].name = n)
    /\ cli' = [cli EXCEPT ![c] = [At("inspect", "look", n) EXCEPT !.hit = box[n] # "gone"]]
    /\ Quiet

(* Broken variant: a name that is not listed is not there.                 *)
InspectBelievesPs(c) ==
    /\ cli[c].at = "look" /\ MayLoad
    /\ Answer(c, cli[c].hit, load_shim_containers)
    /\ Quiet

InspectLoads(c) ==
    /\ cli[c].at = "look" /\ MayLoad
    /\ IF cli[c].hit THEN Answer(c, TRUE, load_shim_containers) ELSE Go(c, "look_again")
    /\ Quiet

(* cmd_port goes to the cache at once.                                     *)
InspectLoadsAgain(c) ==
    /\ cli[c].at \in {"look_again", "port"} /\ MayLoad
    /\ Answer(c, cli[c].name \in DOMAIN load_shim_containers, load_shim_containers)
    /\ Quiet

-----------------------------------------------------------------------------
(* docker events: polls every 500 ms, one event for each new name *)

(* Broken variant: what is there at the start counts as known.             *)
EventsBeginSeeded ==
    /\ ~events.on
    /\ events' = [events EXCEPT !.on = TRUE, !.known = {n \in Names : box[n] # "gone"}]
    /\ UNCHANGED <<file, box, proxies, lastPid, cli, owed>>

EventsBegin ==
    /\ ~events.on
    /\ events' = [events EXCEPT !.on = TRUE]
    /\ UNCHANGED <<file, box, proxies, lastPid, cli, owed>>

EventsPoll ==
    /\ events.on /\ events.listed = {}
    /\ events' = [events EXCEPT !.listed = {n \in Names : box[n] # "gone"}]
    /\ UNCHANGED <<file, box, proxies, lastPid, cli, owed>>

EventsEmit(n) ==
    /\ n \in events.listed
    /\ LET new == {n} \ events.known
       IN  events' = [events EXCEPT !.listed = events.listed \ {n},
                                    !.known = events.known \cup {n},
                                    !.told = events.told \cup new,
                                    !.ever = events.ever \cup new]
    /\ UNCHANGED <<file, box, proxies, lastPid, cli, owed>>

-----------------------------------------------------------------------------
(* The environment *)

(* A container exits; pelagos may or may not keep it.                      *)
BoxExits(n) ==
    /\ box[n] = "running"
    /\ \E left \in {"gone", "exited"} : box' = [box EXCEPT ![n] = left]
    /\ UNCHANGED <<file, proxies, lastPid, cli, owed, events>>

(* A proxy ends by itself.                                                 *)
ProxyEnds ==
    /\ \E p \in proxies : proxies' = proxies \ {p}
    /\ UNCHANGED <<file, box, lastPid, cli, owed, events>>

CliKilled(c) ==
    /\ cli[c].at \in Killable
    /\ Done(c) /\ Quiet

-----------------------------------------------------------------------------
Command(c) ==
    \/ \E n \in Names :
          \/ \E detach, ports \in BOOLEAN : RunBegins(c, n, detach, ports)
          \/ \E force \in BOOLEAN : RmKillsProxy(c, n, force)
          \/ StopRuns(c, n) \/ StartRuns(c, n) \/ PortBegins(c, n)
          \/ InspectDetects(c, n) \/ InspectLists(c, n)
    \/ CacheLoad(c) \/ CacheTruncate(c) \/ CacheWrite(c) \/ CacheWriteFails(c)
    \/ RunStarts(c) \/ RunFails(c) \/ RunEnds(c)
    \/ StopKillsProxy(c) \/ RmRuns(c)
    \/ InspectLoads(c) \/ InspectLoadsAgain(c) \/ CliKilled(c)

Events == EventsBegin \/ EventsPoll \/ \E n \in Names : EventsEmit(n)

Environment == ProxyEnds \/ \E n \in Names : BoxExits(n)

CacheNext == (\E c \in Clis : Command(c)) \/ Events \/ Environment

CacheSpec == CacheInit /\ [][CacheNext]_cacheVars

(* docker events goes on polling.                                          *)
CacheFairness ==
    WF_cacheVars(EventsPoll) /\ \A n \in Names : WF_cacheVars(EventsEmit(n))

-----------------------------------------------------------------------------
(* PROPERTIES *)

Ends(c, ops) == cli[c].op \in ops /\ cli'[c] = Idle

(* The reason for the cache: Docker "retains exited containers until       *)
(* explicitly docker rm'd", which pelagos does not.  A container whose run *)
(* has returned 0, and that nobody has removed since, is found by `docker  *)
(* inspect --type container` and `docker port`, with its ports, whether    *)
(* pelagos still has it or not, and whatever commands for other containers *)
(* do meanwhile (cmd_inspect_container, cmd_port), unless a write of the   *)
(* cache that failed unnoticed has lost its entry.                         *)
InspectIsRight ==
    [][\A c \in Clis, n \in Names \ file.lost :
          /\ cli[c].op \in {"inspect", "port"} /\ cli[c].name = n /\ cli'[c].at = "idle"
          /\ n \in DOMAIN owed
          => cli'[c].op = "found" /\ cli'[c].ports = owed[n]]_cacheVars

(* When no command is at work on a name, the cache has an entry for it     *)
(* exactly if a run of it has succeeded after the last rm: after rm "VS    *)
(* Code still expects the cache entry to be gone".  A write that fails     *)
(* leaves the other entries right, if it fails before the file is emptied. *)
CacheIsAccurate ==
    (\A c \in Clis : cli[c].at \notin AtFile)
    => \A n \in Names \ file.lost :
          (\A c \in Clis : ~Changes(c, n))
          => (n \in DOMAIN load_shim_containers <=> n \in DOMAIN owed)

(* "For detach runs the proxy keeps running; its PID is stored in the      *)
(* cache and killed on `docker stop` / `docker rm`": when one of these     *)
(* ends, no port proxy of the container is left, other than that of a run  *)
(* that still waits for its container and kills its own.  The PID is lost  *)
(* with the entry if the cache could not be written.                       *)
NoProxyLeft ==
    [][\A c \in Clis, n \in Names \ file.lost :
          Ends(c, {"stop", "rm"}) /\ cli[c].name = n /\ cli[c].at \notin Killable
          => \A p \in proxies' : p.name = n
                => \E x \in Clis : cli[x].at = "wait" /\ cli[x].pid = p.pid]_cacheVars

(* cmd_events starts with an empty set of known names because otherwise    *)
(* "no start event is ever emitted and devcontainer CLI hangs forever": a  *)
(* container that starts, whenever that falls with respect to the start    *)
(* of docker events and its polls, is reported, if it stays long enough.   *)
FirstStartIsReported ==
    \A n \in Names :
        (events.on /\ box[n] = "running" /\ n \notin events.ever)
            ~> (n \in events.ever \/ box[n] # "running")

(* "a JSON start event for each newly-seen container".  Fails: a name that *)
(* was removed and is used again is known already.                         *)
EveryStartIsReported ==
    \A n \in Names :
        (events.on /\ box[n] = "running" /\ n \notin events.told)
            ~> (n \in events.told \/ box[n] # "running")

(* "Kill the port-proxy process for `name`".  Fails: the PID stays in the  *)
(* cache when the proxy has ended, and may be any other process's by then. *)
OnlyProxiesAreKilled ==
    [][\A c \in Clis :
          cli'[c].op = "rm" /\ cli[c].op # "rm" /\ cli'[c].name \in DOMAIN load_shim_containers
          => LET n == cli'[c].name  pid == load_shim_containers[n].pid
             IN  pid = NoPid \/ [pid |-> pid, name |-> n] \in proxies]_cacheVars

(* VS Code "expects to see the container in exited state".  Fails: without *)
(* --type a name that pelagos has forgotten is answered as an image.       *)
UntypedInspectIsRight ==
    [][\A c \in Clis, n \in Names :
          ~Active(c) /\ InspectDetects(c, n) /\ n \in DOMAIN owed => cli'[c].at # "idle"]_cacheVars
=============================================================================
