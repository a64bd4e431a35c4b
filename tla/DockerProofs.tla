---------------------------- MODULE DockerProofs ----------------------------
(***************************************************************************)
(* The Docker shim, for any number of docker processes, names, proxies and *)
(* Dockerfiles.  First DockerCache: as long as no two commands are at the  *)
(* cache file at the same moment and none is killed there, the cache       *)
(* answers for the containers that pelagos has forgotten, and stop and rm  *)
(* leave no port proxy.  Then DockerImages: a build runs on its own        *)
(* arguments and with its base images.                                     *)
(***************************************************************************)
EXTENDS DockerCache, DockerImages, Induction, TLAPS

FileType == [ok : BOOLEAN, map : Maps(Entry), lost : SUBSET Names]

Cli == [op : {"none", "run", "rm", "stop", "inspect", "port", "found"},
        at : Steps, name : Names, flag : BOOLEAN, ports : BOOLEAN,
        pid : 0..MaxPids, map : Maps(Entry), hit : BOOLEAN]

(* The steps of each command.                                              *)
Fits(r) ==
    /\ r.at = "idle" <=> r.op \in {"none", "found"}
    /\ r.at \in {"run", "wait"} => r.op = "run"
    /\ r.at \in {"load"} \cup AtFile => r.op \in {"run", "rm"}
    /\ r.at = "rm" => r.op = "rm"
    /\ r.at = "kill_stop" => r.op = "stop"
    /\ r.at \in {"ps", "look", "look_again"} => r.op = "inspect"
    /\ r.at = "port" => r.op = "port"

(* The file between two writes is what the next one was computed from, and *)
(* has what is owed, but for the entry that an rm is about to take out and *)
(* for those that a failed write has lost.                                 *)
OneAtFile == \A b, c \in Clis : cli[b].at \in AtFile /\ cli[c].at \in AtFile => b = c

FileIsWhole == file.ok <=> \A c \in Clis : cli[c].at # "write"

Changed(r) ==
    IF r.op = "run" THEN Put(file.map, r.name, [ports |-> r.ports, pid |-> r.pid])
    ELSE Remove(file.map, r.name)

MapIsCurrent == \A c \in Clis : cli[c].at \in AtFile => cli[c].map = Changed(cli[c])

TakenOut(n) == \E c \in Clis : cli[c].at \in AtFile /\ cli[c].op = "rm" /\ cli[c].name = n

OwedIsCached ==
    /\ \A n \in Names \ file.lost : n \in DOMAIN owed <=> n \in DOMAIN file.map /\ ~TakenOut(n)
    /\ \A n \in DOMAIN owed \ file.lost : file.map[n].ports = owed[n]

FileInv == OneAtFile /\ FileIsWhole /\ MapIsCurrent /\ OwedIsCached

CacheInv == CacheTypeOK /\ (\A c \in Clis : Fits(cli[c])) /\ FileInv

(* A write that fails in the middle loses every entry.                     *)
AllLost == Names \subseteq file.lost
-----------------------------------------------------------------------------
(* Lemmas about maps from some of the names.                               *)

LEMMA MapsMeaning ==
  ASSUME NEW R, NEW m
  PROVE  m \in Maps(R) <=> \E ns \in SUBSET Names : m \in [ns -> R]
  BY DEF Maps

LEMMA CachePut ==
  ASSUME NEW m \in Maps(Entry), NEW n \in Names, NEW e \in Entry
  PROVE  /\ Put(m, n, e) \in Maps(Entry)
         /\ DOMAIN Put(m, n, e) = DOMAIN m \cup {n} /\ Put(m, n, e)[n] = e
         /\ \A x \in DOMAIN m \ {n} : Put(m, n, e)[x] = m[x]
<1>1. PICK ns \in SUBSET Names : m \in [ns -> Entry]
  BY MapsMeaning
<1>2. Put(m, n, e) \in [ns \cup {n} -> Entry] /\ ns \cup {n} \in SUBSET Names
  BY <1>1 DEF Put
<1>3. Put(m, n, e) \in Maps(Entry)
  BY <1>2, MapsMeaning
<1> QED BY <1>1, <1>3 DEF Put

LEMMA CacheRemove ==
  ASSUME NEW m \in Maps(Entry), NEW n
  PROVE  /\ Remove(m, n) \in Maps(Entry)
         /\ DOMAIN Remove(m, n) = DOMAIN m \ {n}
         /\ \A x \in DOMAIN m \ {n} : Remove(m, n)[x] = m[x]
<1>1. PICK ns \in SUBSET Names : m \in [ns -> Entry]
  BY MapsMeaning
<1>2. Remove(m, n) \in [ns \ {n} -> Entry] /\ ns \ {n} \in SUBSET Names
  BY <1>1 DEF Remove
<1>3. Remove(m, n) \in Maps(Entry)
  BY <1>2, MapsMeaning
<1> QED BY <1>1, <1>3 DEF Remove

LEMMA OwedPut ==
  ASSUME NEW m \in Maps(BOOLEAN), NEW n \in Names, NEW e \in BOOLEAN
  PROVE  /\ Put(m, n, e) \in Maps(BOOLEAN)
         /\ DOMAIN Put(m, n, e) = DOMAIN m \cup {n} /\ Put(m, n, e)[n] = e
         /\ \A x \in DOMAIN m \ {n} : Put(m, n, e)[x] = m[x]
<1>1. PICK ns \in SUBSET Names : m \in [ns -> BOOLEAN]
  BY MapsMeaning
<1>2. Put(m, n, e) \in [ns \cup {n} -> BOOLEAN] /\ ns \cup {n} \in SUBSET Names
  BY <1>1 DEF Put
<1>3. Put(m, n, e) \in Maps(BOOLEAN)
  BY <1>2, MapsMeaning
<1> QED BY <1>1, <1>3 DEF Put

LEMMA OwedRemove ==
  ASSUME NEW m \in Maps(BOOLEAN), NEW n
  PROVE  /\ Remove(m, n) \in Maps(BOOLEAN)
         /\ DOMAIN Remove(m, n) = DOMAIN m \ {n}
         /\ \A x \in DOMAIN m \ {n} : Remove(m, n)[x] = m[x]
<1>1. PICK ns \in SUBSET Names : m \in [ns -> BOOLEAN]
  BY MapsMeaning
<1>2. Remove(m, n) \in [ns \ {n} -> BOOLEAN] /\ ns \ {n} \in SUBSET Names
  BY <1>1 DEF Remove
<1>3. Remove(m, n) \in Maps(BOOLEAN)
  BY <1>2, MapsMeaning
<1> QED BY <1>1, <1>3 DEF Remove

LEMMA MapFacts ==
  ASSUME NEW R, NEW m \in Maps(R)
  PROVE  DOMAIN m \subseteq Names /\ \A x \in DOMAIN m : m[x] \in R
  BY MapsMeaning

LEMMA NoEntriesFacts == NoEntries \in Maps(Entry) /\ DOMAIN NoEntries = {}
<1>1. NoEntries \in [{} -> Entry]
  BY DEF NoEntries
<1> QED BY <1>1, MapsMeaning DEF NoEntries

LEMMA IdleFacts ==
  Idle \in Cli /\ Fits(Idle) /\ Idle.at = "idle" /\ Idle.op = "none" /\ Idle.pid = NoPid
<1>1. (CHOOSE n \in Names : TRUE) \in Names
  BY ShimAssumption
<1>2. NoPid \in 0..MaxPids
  BY ShimAssumption DEF NoPid
<1> QED BY <1>1, <1>2, NoEntriesFacts DEF Idle, Cli, Fits, Steps, AtFile

LEMMA AtFacts ==
  ASSUME NEW op \in {"run", "rm", "stop", "inspect", "port"}, NEW at \in Steps, NEW n \in Names
  PROVE  /\ At(op, at, n) \in Cli
         /\ At(op, at, n).op = op /\ At(op, at, n).at = at /\ At(op, at, n).name = n
         /\ At(op, at, n).pid = NoPid
  BY IdleFacts DEF At, Cli

LEMMA CacheInvInit == CacheInit => CacheInv
<1> SUFFICES ASSUME CacheInit PROVE CacheInv
  OBVIOUS
<1>1. \A c \in Clis : cli[c] = Idle
  BY DEF CacheInit
<1>2. cli \in [Clis -> Cli] /\ file \in FileType
  BY <1>1, IdleFacts, NoEntriesFacts DEF CacheInit, FileType
<1>3. owed \in Maps(BOOLEAN) /\ DOMAIN owed = {}
  <2>1. owed \in [{} -> BOOLEAN]
    BY DEF CacheInit
  <2> QED BY <2>1, MapsMeaning
<1>4. CacheTypeOK
  BY <1>2, <1>3, ShimAssumption DEF CacheInit, CacheTypeOK, Cli, FileType
<1>5. FileInv
  BY <1>1, <1>3, IdleFacts, NoEntriesFacts
  DEF CacheInit, FileInv, OneAtFile, FileIsWhole, MapIsCurrent, OwedIsCached, AtFile
<1> QED BY <1>1, <1>4, <1>5, IdleFacts DEF CacheInv

-----------------------------------------------------------------------------
(* Steps away from the file.                                               *)

LEMMA FileKept ==
  ASSUME FileInv, UNCHANGED <<file, owed>>,
         \A b \in Clis : (cli[b].at \in AtFile \/ cli'[b].at \in AtFile) => cli'[b] = cli[b]
  PROVE  FileInv'
<1>1. OneAtFile'
  BY DEF FileInv, OneAtFile
<1>2. FileIsWhole'
  BY DEF FileInv, FileIsWhole, AtFile
<1>3. MapIsCurrent'
  BY DEF FileInv, MapIsCurrent, Changed
<1>4. OwedIsCached'
  <2>1. \A n : TakenOut(n)' <=> TakenOut(n)
    BY DEF TakenOut
  <2> QED BY <2>1 DEF FileInv, OwedIsCached
<1> QED BY <1>1, <1>2, <1>3, <1>4 DEF FileInv

(* The types of what the outside world and the pids are.                   *)
WorldOK ==
    /\ box \in [Names -> {"gone", "running", "exited"}]
    /\ proxies \subseteq [pid : Pids, name : Names]
    /\ lastPid \in 0..MaxPids
    /\ events \in [on : BOOLEAN, known : SUBSET Names, listed : SUBSET Names,
                   told : SUBSET Names, ever : SUBSET Names]

LEMMA CliStep ==
  ASSUME CacheInv, NEW c \in Clis, NEW r \in Cli, cli' = [cli EXCEPT ![c] = r]
  PROVE  cli' \in [Clis -> Cli] /\ cli'[c] = r /\ \A b \in Clis \ {c} : cli'[b] = cli[b]
<1>1. cli \in [Clis -> Cli]
  BY DEF CacheInv, CacheTypeOK, Cli
<1> QED BY <1>1

LEMMA TypeParts ==
  /\ CacheTypeOK <=> /\ WorldOK /\ cli \in [Clis -> Cli] /\ owed \in Maps(BOOLEAN)
                     /\ file \in FileType
  /\ CacheTypeOK' <=> /\ WorldOK' /\ cli' \in [Clis -> Cli] /\ owed' \in Maps(BOOLEAN)
                      /\ file' \in FileType
  BY DEF CacheTypeOK, WorldOK, Cli, FileType

LEMMA Elsewhere ==
  ASSUME CacheInv, NEW c \in Clis, NEW r \in Cli, cli' = [cli EXCEPT ![c] = r],
         cli[c].at \notin AtFile, r.at \notin AtFile, Fits(r),
         UNCHANGED <<file, owed>>, WorldOK'
  PROVE  CacheInv'
<1>1. cli' \in [Clis -> Cli] /\ cli'[c] = r /\ \A b \in Clis \ {c} : cli'[b] = cli[b]
  BY CliStep
<1>2. FileInv'
  BY <1>1, FileKept DEF CacheInv
<1>3. \A b \in Clis : Fits(cli[b])'
  BY <1>1 DEF CacheInv, Fits
<1>4. CacheTypeOK'
  BY <1>1, TypeParts DEF CacheInv
<1> QED BY <1>2, <1>3, <1>4 DEF CacheInv

-----------------------------------------------------------------------------
(* What each command does to its own record, and what it leaves alone.     *)

RunTo(c, r) == cli' = [cli EXCEPT ![c] = r] /\ UNCHANGED <<file, owed>>

LEMMA RunKeeps ==
  ASSUME CacheInv, NEW c \in Clis, NEW n \in Names, NEW detach \in BOOLEAN, NEW ports \in BOOLEAN,
         RunBegins(c, n, detach, ports) \/ RunStarts(c) \/ RunFails(c) \/ RunEnds(c)
  PROVE  CacheInv'
<1>0. cli[c] \in Cli /\ Fits(cli[c]) /\ WorldOK
  BY TypeParts DEF CacheInv
<1>1. CASE RunBegins(c, n, detach, ports)
  <2> DEFINE R(pid) == [At("run", "run", n) EXCEPT !.flag = detach, !.ports = ports, !.pid = pid]
           base == At("run", "run", n)
  <2>0. base \in Cli /\ base.op = "run" /\ base.at = "run" /\ base.pid = NoPid
    BY AtFacts DEF Steps
  <2>1. \A pid \in 0..MaxPids : R(pid) \in Cli /\ R(pid).at = "run" /\ Fits(R(pid))
    <3> HIDE DEF base
    <3>1. \A pid \in 0..MaxPids :
             [base EXCEPT !.flag = detach, !.ports = ports, !.pid = pid] \in Cli
      BY <2>0 DEF Cli
    <3>2. \A pid \in 0..MaxPids :
             LET r == [base EXCEPT !.flag = detach, !.ports = ports, !.pid = pid]
             IN  r.at = "run" /\ r.op = "run"
      BY <2>0 DEF Cli
    <3> QED BY <3>1, <3>2 DEF Fits, AtFile, base
  <2>2. NoPid \in 0..MaxPids
    BY ShimAssumption DEF NoPid
  <2>3. R(NoPid) = [At("run", "run", n) EXCEPT !.flag = detach, !.ports = ports]
    <3> HIDE DEF base
    <3>1. [base EXCEPT !.flag = detach, !.ports = ports, !.pid = NoPid]
          = [base EXCEPT !.flag = detach, !.ports = ports]
      BY <2>0 DEF Cli
    <3> QED BY <3>1 DEF base
  <2> HIDE DEF base, R
  <2>4. PICK pid \in 0..MaxPids : RunTo(c, R(pid)) /\ WorldOK'
    <3>1. CASE lastPid < MaxPids /\ lastPid' = lastPid + 1
               /\ proxies' = proxies \cup {[pid |-> lastPid', name |-> n]}
               /\ cli' = [cli EXCEPT ![c] = R(lastPid')]
      <4>1. lastPid' \in 0..MaxPids /\ lastPid' \in Pids
        BY <1>0, <3>1, ShimAssumption DEF WorldOK, Pids
      <4>2. WorldOK'
        BY <1>0, <1>1, <3>1, <4>1 DEF RunBegins, WorldOK
      <4> QED BY <1>1, <3>1, <4>1, <4>2 DEF RunBegins, RunTo
    <3>2. CASE cli' = [cli EXCEPT ![c] = R(NoPid)] /\ UNCHANGED <<lastPid, proxies>>
      BY <1>0, <1>1, <2>2, <3>2 DEF RunBegins, RunTo, WorldOK
    <3> QED BY <1>1, <2>3, <3>1, <3>2 DEF RunBegins, R
  <2>5. cli[c].at = "idle"
    BY <1>1 DEF RunBegins, Active
  <2> QED BY <2>1, <2>4, <2>5, Elsewhere DEF RunTo, AtFile
<1>2. CASE RunStarts(c)
  <2> DEFINE r == [cli[c] EXCEPT !.at = IF cli[c].flag THEN "load" ELSE "wait"]
  <2>1. cli[c].at = "run" /\ cli[c].op = "run" /\ RunTo(c, r) /\ WorldOK'
    BY <1>0, <1>2 DEF RunStarts, Fits, Go, RunTo, Started, WorldOK, Cli
  <2>2. r \in Cli /\ r.at \notin AtFile /\ Fits(r)
    BY <1>0, <2>1 DEF Cli, Fits, Steps, AtFile
  <2> QED BY <2>1, <2>2, Elsewhere DEF RunTo, AtFile
<1>3. CASE RunFails(c)
  <2>1. cli[c].at \notin AtFile /\ RunTo(c, Idle) /\ WorldOK'
    BY <1>0, <1>3 DEF RunFails, Done, Kill, RunTo, WorldOK, AtFile
  <2> QED BY <2>1, IdleFacts, Elsewhere DEF RunTo, AtFile
<1>4. CASE RunEnds(c)
  <2> DEFINE r == [cli[c] EXCEPT !.at = "load", !.pid = NoPid]
  <2>1. cli[c].at = "wait" /\ cli[c].op = "run" /\ RunTo(c, r) /\ WorldOK'
    BY <1>0, <1>4 DEF RunEnds, Fits, Kill, RunTo, WorldOK, Cli
  <2>2. r \in Cli /\ r.at \notin AtFile /\ Fits(r)
    <3>1. NoPid \in 0..MaxPids
      BY ShimAssumption DEF NoPid
    <3>2. r \in Cli /\ r.at = "load" /\ r.op = cli[c].op
      BY <1>0, <3>1 DEF Cli, Steps
    <3> QED BY <2>1, <3>2 DEF Fits, AtFile
  <2> QED BY <2>1, <2>2, Elsewhere DEF RunTo, AtFile
<1> QED BY <1>1, <1>2, <1>3, <1>4

LEMMA StopKeeps ==
  ASSUME CacheInv, NEW c \in Clis, NEW n \in Names,
         StopRuns(c, n) \/ StopKillsProxy(c) \/ StartRuns(c, n)
  PROVE  CacheInv'
<1>0. cli[c] \in Cli /\ Fits(cli[c]) /\ WorldOK
  BY TypeParts DEF CacheInv
<1>1. CASE StopRuns(c, n)
  <2> DEFINE r == At("stop", "kill_stop", n)
  <2>1. cli[c].at = "idle" /\ RunTo(c, r) /\ WorldOK'
    BY <1>0, <1>1 DEF StopRuns, Active, RunTo, WorldOK
  <2>2. r \in Cli /\ r.at \notin AtFile /\ Fits(r)
    BY AtFacts DEF Fits, Steps, AtFile
  <2> QED BY <2>1, <2>2, Elsewhere DEF RunTo, AtFile
<1>2. CASE StopKillsProxy(c)
  <2>1. cli[c].at = "kill_stop" /\ RunTo(c, Idle) /\ WorldOK'
    BY <1>0, <1>2 DEF StopKillsProxy, kill_proxy_for_container, Kill, Done, RunTo, WorldOK
  <2> QED BY <2>1, IdleFacts, Elsewhere DEF RunTo, AtFile
<1>3. CASE StartRuns(c, n)
  <2>1. UNCHANGED <<cli, file, owed>> /\ WorldOK'
    BY <1>0, <1>3 DEF StartRuns, Started, WorldOK
  <2>2. FileInv'
    BY <2>1, FileKept DEF CacheInv
  <2> QED BY <2>1, <2>2, TypeParts DEF CacheInv, Fits
<1> QED BY <1>1, <1>2, <1>3

LEMMA RmRunsFacts ==
  ASSUME CacheInv, NEW c \in Clis, RmRuns(c)
  PROVE  /\ cli' \in [Clis -> Cli] /\ cli'[c] = [cli[c] EXCEPT !.at = "load"]
         /\ \A b \in Clis \ {c} :
               cli'[b] = cli[b] \/ (cli[b].at = "wait" /\ cli'[b] = [cli[b] EXCEPT !.hit = TRUE])
<1> DEFINE load == [cli[c] EXCEPT !.at = "load"]
           hit(x) == [cli[x] EXCEPT !.hit = TRUE]
<1>0. cli \in [Clis -> Cli]
  BY TypeParts DEF CacheInv
<1>1. load \in Cli /\ \A x \in Clis : hit(x) \in Cli /\ cli[x] \in Cli
  <2>1. \A x \in Clis : hit(x) \in Cli /\ cli[x] \in Cli
    BY <1>0 DEF Cli
  <2> QED BY <1>0, <2>1 DEF Cli, Steps
<1>2. CASE cli' = [cli EXCEPT ![c].at = "load"]
  BY <1>0, <1>1, <1>2
<1>3. CASE cli' = [x \in Clis |->
                     IF x = c THEN [cli[x] EXCEPT !.at = "load"]
                     ELSE IF cli[x].at = "wait" /\ cli[x].name = cli[c].name
                             /\ box[cli[c].name] = "running"
                          THEN [cli[x] EXCEPT !.hit = TRUE] ELSE cli[x]]
  <2>1. cli' = [x \in Clis |->
                  IF x = c THEN load
                  ELSE IF cli[x].at = "wait" /\ cli[x].name = cli[c].name
                          /\ box[cli[c].name] = "running" THEN hit(x) ELSE cli[x]]
    BY <1>3
  <2> HIDE DEF load, hit
  <2>2. /\ cli' \in [Clis -> Cli] /\ cli'[c] = load
        /\ \A b \in Clis \ {c} : cli'[b] = cli[b] \/ (cli[b].at = "wait" /\ cli'[b] = hit(b))
    BY <1>1, <2>1
  <2> QED BY <2>2 DEF load, hit
<1> QED BY <1>2, <1>3 DEF RmRuns, Go

LEMMA RmKeeps ==
  ASSUME CacheInv, NEW c \in Clis, NEW n \in Names, NEW force \in BOOLEAN,
         RmKillsProxy(c, n, force) \/ RmRuns(c)
  PROVE  CacheInv'
<1>0. cli[c] \in Cli /\ Fits(cli[c]) /\ WorldOK /\ cli \in [Clis -> Cli]
  BY TypeParts DEF CacheInv
<1>1. CASE RmKillsProxy(c, n, force)
  <2> DEFINE base == At("rm", "rm", n)
             r == [base EXCEPT !.flag = force]
  <2>1. base \in Cli /\ base.op = "rm" /\ base.at = "rm"
    BY AtFacts DEF Steps
  <2>2. cli[c].at = "idle" /\ RunTo(c, r) /\ WorldOK'
    BY <1>0, <1>1 DEF RmKillsProxy, kill_proxy_for_container, Kill, Active, RunTo, WorldOK
  <2> HIDE DEF base
  <2>3. r \in Cli /\ r.op = "rm" /\ r.at = "rm"
    BY <2>1 DEF Cli
  <2> QED BY <2>2, <2>3, Elsewhere DEF RunTo, AtFile, Fits
<1>2. CASE RmRuns(c)
  <2>1. /\ cli' \in [Clis -> Cli] /\ cli'[c] = [cli[c] EXCEPT !.at = "load"]
        /\ \A b \in Clis \ {c} :
              cli'[b] = cli[b] \/ (cli[b].at = "wait" /\ cli'[b] = [cli[b] EXCEPT !.hit = TRUE])
    BY <1>2, RmRunsFacts
  <2>2. cli[c].at = "rm" /\ UNCHANGED <<file, owed>> /\ WorldOK'
    BY <1>0, <1>2 DEF RmRuns, WorldOK, Cli
  <2>3. cli'[c].at = "load" /\ cli'[c].op = "rm"
    BY <1>0, <2>1, <2>2 DEF Fits, Cli
  <2>4. \A b \in Clis \ {c} : cli'[b].at = cli[b].at /\ cli'[b].op = cli[b].op
    BY <1>0, <2>1 DEF Cli
  <2>5. \A b \in Clis : (cli[b].at \in AtFile \/ cli'[b].at \in AtFile) => cli'[b] = cli[b]
    BY <2>1, <2>2, <2>3, <2>4 DEF AtFile
  <2>6. FileInv'
    BY <2>2, <2>5, FileKept DEF CacheInv
  <2>7. \A b \in Clis : Fits(cli[b])'
    BY <2>3, <2>4 DEF CacheInv, Fits, AtFile
  <2> QED BY <2>1, <2>2, <2>6, <2>7, TypeParts DEF CacheInv
<1> QED BY <1>1, <1>2

(* Commands that only look.                                                *)
Looking == {"idle", "ps", "look", "look_again", "port"}

Looks(c, n) ==
    \/ PortBegins(c, n) \/ InspectDetects(c, n) \/ InspectLists(c, n)
    \/ InspectLoads(c) \/ InspectLoadsAgain(c)

LEMMA LooksFacts ==
  ASSUME CacheInv, NEW c \in Clis, NEW n \in Names, Looks(c, n)
  PROVE  /\ cli[c].at \in Looking /\ UNCHANGED <<file, owed, proxies>> /\ WorldOK'
         /\ \E r \in Cli : cli' = [cli EXCEPT ![c] = r] /\ r.at \in Looking /\ Fits(r)
<1>0. cli[c] \in Cli /\ Fits(cli[c]) /\ WorldOK
  BY TypeParts DEF CacheInv
<1>1. cli[c].at \in Looking /\ UNCHANGED <<file, owed, proxies>> /\ WorldOK'
  BY <1>0 DEF Looks, PortBegins, InspectDetects, InspectLists, InspectLoads, InspectLoadsAgain,
              Quiet, Active, Looking, WorldOK
<1>2. \A found, map : Answer(c, found, map)
         => \E r \in Cli : cli' = [cli EXCEPT ![c] = r] /\ r.at \in Looking /\ Fits(r)
  <2> SUFFICES ASSUME NEW found, NEW map, Answer(c, found, map)
               PROVE  \E r \in Cli : cli' = [cli EXCEPT ![c] = r] /\ r.at \in Looking /\ Fits(r)
    OBVIOUS
  <2> DEFINE ports == cli[c].name \in DOMAIN map /\ map[cli[c].name].ports
             r == [Idle EXCEPT !.op = "found", !.ports = ports]
  <2>1. ports \in BOOLEAN
    OBVIOUS
  <2> HIDE DEF ports
  <2>2. r \in Cli /\ r.at = "idle" /\ r.op = "found"
    BY <2>1, IdleFacts DEF Cli
  <2>3. cli' = [cli EXCEPT ![c] = Idle] \/ cli' = [cli EXCEPT ![c] = r]
    BY DEF Answer, ports
  <2> QED BY <2>2, <2>3, IdleFacts DEF Looking, AtFile, Fits
<1>3. \E r \in Cli : cli' = [cli EXCEPT ![c] = r] /\ r.at \in Looking /\ Fits(r)
  <2>1. CASE PortBegins(c, n) \/ InspectDetects(c, n)
    <3>1. /\ At("port", "port", n) \in Cli /\ At("port", "port", n).at \in Looking
          /\ Fits(At("port", "port", n))
          /\ At("inspect", "ps", n) \in Cli /\ At("inspect", "ps", n).at \in Looking
          /\ Fits(At("inspect", "ps", n))
          /\ Idle.at \in Looking
      BY AtFacts, IdleFacts DEF Steps, Looking, AtFile, Fits
    <3> QED BY <2>1, <3>1, IdleFacts DEF PortBegins, InspectDetects
  <2>2. CASE InspectLists(c, n)
    <3> DEFINE base == At("inspect", "look", n)
               r == [base EXCEPT !.hit = box[n] # "gone"]
    <3>1. base \in Cli /\ base.op = "inspect" /\ base.at = "look"
      BY AtFacts DEF Steps
    <3>2. cli' = [cli EXCEPT ![c] = r]
      BY <2>2 DEF InspectLists
    <3> HIDE DEF base
    <3>3. r \in Cli /\ r.op = "inspect" /\ r.at = "look"
      BY <3>1 DEF Cli
    <3> QED BY <3>2, <3>3 DEF Looking, AtFile, Fits
  <2>3. CASE InspectLoads(c) /\ Go(c, "look_again")
    <3> DEFINE r == [cli[c] EXCEPT !.at = "look_again"]
    <3>1. cli[c].op = "inspect" /\ cli' = [cli EXCEPT ![c] = r]
      BY <1>0, <2>3 DEF InspectLoads, Go, Fits
    <3>2. r \in Cli /\ r.op = "inspect" /\ r.at = "look_again"
      BY <1>0, <3>1 DEF Cli, Steps
    <3> QED BY <3>1, <3>2 DEF Looking, AtFile, Fits
  <2> QED BY <1>2, <2>1, <2>2, <2>3 DEF Looks, InspectLoads, InspectLoadsAgain
<1> QED BY <1>1, <1>3

LEMMA InspectKeeps ==
  ASSUME CacheInv, NEW c \in Clis, NEW n \in Names, Looks(c, n)
  PROVE  CacheInv'
  BY LooksFacts, Elsewhere DEF Looking, AtFile

LEMMA KilledKeeps ==
  ASSUME CacheInv, Killable \cap AtFile = {}, NEW c \in Clis, CliKilled(c)
  PROVE  CacheInv'
<1>1. WorldOK
  BY TypeParts DEF CacheInv
<1>2. cli[c].at \notin AtFile /\ RunTo(c, Idle) /\ WorldOK'
  BY <1>1 DEF CliKilled, Done, Quiet, RunTo, WorldOK
<1> QED BY <1>2, IdleFacts, Elsewhere DEF RunTo, AtFile

LEMMA WorldKeeps ==
  ASSUME CacheInv, Events \/ Environment
  PROVE  CacheInv' /\ UNCHANGED <<cli, file, owed>>
<1>0. WorldOK
  BY TypeParts DEF CacheInv
<1>1. UNCHANGED <<cli, file, owed>>
  BY DEF Events, Environment, EventsBegin, EventsPoll, EventsEmit, BoxExits, ProxyEnds
<1>2. WorldOK'
  <2> DEFINE E == [on : BOOLEAN, known : SUBSET Names, listed : SUBSET Names,
                   told : SUBSET Names, ever : SUBSET Names]
  <2>1. CASE EventsBegin
    BY <1>0, <2>1 DEF WorldOK, EventsBegin
  <2>2. CASE EventsPoll
    BY <1>0, <2>2 DEF WorldOK, EventsPoll
  <2>3. ASSUME NEW n \in Names, EventsEmit(n) PROVE WorldOK'
    <3>1. events' \in E
      BY <1>0, <2>3 DEF WorldOK, EventsEmit
    <3> QED BY <1>0, <2>3, <3>1 DEF WorldOK, EventsEmit
  <2>4. ASSUME NEW n \in Names, BoxExits(n) \/ ProxyEnds PROVE WorldOK'
    BY <1>0, <2>4 DEF WorldOK, BoxExits, ProxyEnds
  <2> QED BY <2>1, <2>2, <2>3, <2>4, ShimAssumption DEF Events, Environment
<1>3. FileInv'
  BY <1>1, FileKept DEF CacheInv
<1> QED BY <1>1, <1>2, <1>3, TypeParts DEF CacheInv, Fits
-----------------------------------------------------------------------------
(* Steps at the file.                                                      *)

(* A command that may load meets the whole file, and nobody else there.    *)
LEMMA MayLoadFacts ==
  ASSUME ~Overlap, CacheInv, MayLoad
  PROVE  /\ \A b \in Clis : cli[b].at \notin AtFile
         /\ load_shim_containers = file.map
         /\ \A n \in Names \ file.lost : n \in DOMAIN owed <=> n \in DOMAIN file.map
<1>1. \A b \in Clis : cli[b].at \notin AtFile
  BY DEF MayLoad
<1>2. file.ok
  BY <1>1 DEF CacheInv, FileInv, FileIsWhole, AtFile
<1>3. \A n : ~TakenOut(n)
  BY <1>1 DEF TakenOut
<1> QED BY <1>1, <1>2, <1>3 DEF load_shim_containers, CacheInv, FileInv, OwedIsCached

LEMMA LoadKeeps ==
  ASSUME ~Overlap, CacheInv, NEW c \in Clis, CacheLoad(c)
  PROVE  CacheInv'
<1> DEFINE n == cli[c].name
           e == [ports |-> cli[c].ports, pid |-> cli[c].pid]
<1>0. /\ cli[c] \in Cli /\ Fits(cli[c]) /\ WorldOK /\ cli \in [Clis -> Cli] /\ n \in Names
      /\ file \in FileType /\ file.map \in Maps(Entry)
      /\ owed \in Maps(BOOLEAN) /\ e \in Entry
  <2>1. cli[c] \in Cli /\ Fits(cli[c]) /\ WorldOK /\ cli \in [Clis -> Cli]
        /\ file \in FileType /\ owed \in Maps(BOOLEAN)
    BY TypeParts DEF CacheInv
  <2> QED BY <2>1 DEF Cli, Entry, FileType
<1>1. /\ \A b \in Clis : cli[b].at \notin AtFile
      /\ load_shim_containers = file.map
      /\ \A x \in Names \ file.lost : x \in DOMAIN owed <=> x \in DOMAIN file.map
      /\ \A x \in DOMAIN owed \ file.lost : file.map[x].ports = owed[x]
  <2>1. MayLoad
    BY DEF CacheLoad
  <2> QED BY <2>1, MayLoadFacts DEF CacheInv, FileInv, OwedIsCached
<1>2. /\ cli[c].at = "load" /\ UNCHANGED <<file, box, proxies, lastPid, events>> /\ WorldOK'
      /\ owed' = IF cli[c].op = "rm" THEN Remove(owed, n) ELSE owed
  <2>1. /\ cli[c].at = "load" /\ UNCHANGED <<file, box, proxies, lastPid, events>>
        /\ owed' = IF cli[c].op = "rm" THEN Remove(owed, n) ELSE owed
    BY DEF CacheLoad
  <2> QED BY <1>0, <2>1 DEF WorldOK
<1>3. /\ Remove(owed, n) \in Maps(BOOLEAN) /\ DOMAIN Remove(owed, n) = DOMAIN owed \ {n}
      /\ \A x \in DOMAIN owed \ {n} : Remove(owed, n)[x] = owed[x]
  BY <1>0, OwedRemove
<1>4. owed' \in Maps(BOOLEAN) /\ DOMAIN owed \subseteq Names
  BY <1>0, <1>2, <1>3, MapFacts
<1>5. ASSUME NEW map \in Maps(Entry), map = Changed(cli[c]), cli[c].op = "rm" => n \in DOMAIN file.map,
             cli' = [cli EXCEPT ![c].at = "truncate", ![c].map = map]
      PROVE  CacheInv'
  <2> DEFINE r == [cli[c] EXCEPT !.at = "truncate", !.map = map]
  <2>1. /\ r \in Cli /\ r.at = "truncate" /\ r.op = cli[c].op /\ r.name = n /\ r.map = map
        /\ r.ports = cli[c].ports /\ r.pid = cli[c].pid
    BY <1>0, <1>5 DEF Cli, Steps, AtFile
  <2>2. cli' = [cli EXCEPT ![c] = r]
    BY <1>5
  <2> HIDE DEF r
  <2>3. cli' \in [Clis -> Cli] /\ cli'[c] = r /\ \A b \in Clis \ {c} : cli'[b] = cli[b]
    BY <2>1, <2>2, CliStep
  <2>4. \A b \in Clis : cli'[b].at \in AtFile => b = c
    BY <1>1, <2>3
  <2>5. OneAtFile' /\ FileIsWhole'
    <3>1. file.ok
      BY <1>1 DEF CacheInv, FileInv, FileIsWhole, AtFile
    <3>2. \A b \in Clis : cli'[b].at # "write"
      BY <2>1, <2>3, <2>4 DEF AtFile
    <3> QED BY <1>2, <2>4, <3>1, <3>2 DEF OneAtFile, FileIsWhole
  <2>6. MapIsCurrent'
    <3>1. Changed(cli[c])' = Changed(cli[c])
      BY <1>2, <2>1, <2>3 DEF Changed
    <3> QED BY <1>5, <2>1, <2>3, <2>4, <3>1 DEF MapIsCurrent
  <2>7. \A x : TakenOut(x)' <=> cli[c].op = "rm" /\ x = n
    BY <2>1, <2>3, <2>4 DEF TakenOut, AtFile
  <2>8. OwedIsCached'
    BY <1>1, <1>2, <1>3, <1>4, <2>7 DEF OwedIsCached
  <2>9. \A b \in Clis : Fits(cli[b])'
    BY <1>0, <1>2, <2>1, <2>3 DEF CacheInv, Fits, AtFile
  <2> QED BY <1>2, <1>4, <1>0, <2>3, <2>5, <2>6, <2>8, <2>9, TypeParts DEF CacheInv, FileInv
<1>6. CASE cli[c].op = "rm" /\ n \notin DOMAIN file.map /\ Done(c)
  <2>1. cli' \in [Clis -> Cli] /\ cli'[c] = Idle /\ \A b \in Clis \ {c} : cli'[b] = cli[b]
    BY <1>6, IdleFacts, CliStep DEF Done
  <2>2. \A b \in Clis : cli'[b].at \notin AtFile
    BY <1>1, <2>1, IdleFacts DEF AtFile
  <2>3. OneAtFile' /\ FileIsWhole' /\ MapIsCurrent'
    BY <1>1, <1>2, <2>2 DEF CacheInv, FileInv, OneAtFile, FileIsWhole, MapIsCurrent, AtFile
  <2>4. \A x : ~TakenOut(x)'
    BY <2>2 DEF TakenOut
  <2>5. OwedIsCached'
    BY <1>0, <1>1, <1>2, <1>3, <1>4, <1>6, <2>4 DEF OwedIsCached
  <2>6. \A b \in Clis : Fits(cli[b])'
    BY <2>1, IdleFacts DEF CacheInv, Fits
  <2> QED BY <1>2, <1>4, <1>0, <2>1, <2>3, <2>5, <2>6, TypeParts DEF CacheInv, FileInv
<1>7. Put(file.map, n, e) \in Maps(Entry) /\ Remove(file.map, n) \in Maps(Entry)
  BY <1>0, CachePut, CacheRemove
<1> QED BY <1>1, <1>5, <1>6, <1>7 DEF CacheLoad, Changed

LEMMA TruncateKeeps ==
  ASSUME CacheInv, NEW c \in Clis, CacheTruncate(c)
  PROVE  CacheInv'
<1> DEFINE r == [cli[c] EXCEPT !.at = "write"]
<1>0. /\ cli[c] \in Cli /\ Fits(cli[c]) /\ WorldOK /\ cli \in [Clis -> Cli]
      /\ file \in FileType /\ owed \in Maps(BOOLEAN)
  BY TypeParts DEF CacheInv
<1>1. /\ cli[c].at = "truncate" /\ cli' = [cli EXCEPT ![c] = r]
      /\ file' = [ok |-> FALSE, map |-> file.map, lost |-> file.lost] /\ UNCHANGED owed /\ WorldOK'
  BY <1>0 DEF CacheTruncate, Go, WorldOK
<1>2. /\ r \in Cli /\ r.at = "write" /\ r.op = cli[c].op /\ r.name = cli[c].name /\ r.map = cli[c].map
      /\ r.ports = cli[c].ports /\ r.pid = cli[c].pid
  BY <1>0 DEF Cli, Steps, AtFile
<1> HIDE DEF r
<1>3. cli' \in [Clis -> Cli] /\ cli'[c] = r /\ \A b \in Clis \ {c} : cli'[b] = cli[b]
  BY <1>1, <1>2, CliStep
<1>4. /\ file' \in FileType /\ file'.ok = FALSE /\ file'.map = file.map /\ file'.lost = file.lost
  BY <1>0, <1>1 DEF FileType
<1>5. \A b \in Clis : /\ cli'[b].at \in AtFile <=> cli[b].at \in AtFile
                      /\ cli'[b].op = cli[b].op /\ cli'[b].name = cli[b].name
                      /\ cli'[b].map = cli[b].map
                      /\ Changed(cli[b])' = Changed(cli[b])
  BY <1>1, <1>2, <1>3, <1>4 DEF AtFile, Changed
<1>6. OneAtFile' /\ FileIsWhole' /\ MapIsCurrent'
  BY <1>2, <1>3, <1>4, <1>5 DEF CacheInv, FileInv, OneAtFile, FileIsWhole, MapIsCurrent
<1>7. OwedIsCached'
  <2>1. \A n : TakenOut(n)' <=> TakenOut(n)
    BY <1>5 DEF TakenOut
  <2> QED BY <1>1, <1>4, <2>1 DEF CacheInv, FileInv, OwedIsCached
<1>8. \A b \in Clis : Fits(cli[b])'
  BY <1>0, <1>1, <1>2, <1>3 DEF CacheInv, Fits, AtFile
<1> QED BY <1>0, <1>1, <1>3, <1>4, <1>6, <1>7, <1>8, TypeParts DEF CacheInv, FileInv

(* What a write makes of the file and of what is owed.                     *)
LEMMA WriteFacts ==
  ASSUME CacheInv, NEW c \in Clis, CacheWrite(c)
  PROVE  LET n == cli[c].name
             m == file'.map
         IN  /\ file'.ok /\ file'.lost = file.lost
             /\ m = Changed(cli[c]) /\ m \in Maps(Entry) /\ owed' \in Maps(BOOLEAN)
             /\ \A x \in DOMAIN file.map \ {n} : x \in DOMAIN m /\ m[x] = file.map[x]
             /\ DOMAIN m \subseteq DOMAIN file.map \cup {n}
             /\ cli[c].op = "run" => /\ n \in DOMAIN m /\ m[n].ports = cli[c].ports
                                     /\ m[n].pid = cli[c].pid
                                     /\ DOMAIN owed' = DOMAIN owed \cup {n}
                                     /\ owed'[n] = cli[c].ports
                                     /\ \A x \in DOMAIN owed \ {n} : owed'[x] = owed[x]
             /\ cli[c].op = "rm" => n \notin DOMAIN m /\ owed' = owed
             /\ \A b \in Clis \ {c} : cli[b].at \notin AtFile /\ cli'[b] = cli[b]
             /\ cli' \in [Clis -> Cli] /\ cli'[c] = Idle /\ cli[c].op \in {"run", "rm"}
<1> DEFINE n == cli[c].name
           e == [ports |-> cli[c].ports, pid |-> cli[c].pid]
<1>0. /\ cli[c] \in Cli /\ Fits(cli[c]) /\ n \in Names /\ file.map \in Maps(Entry)
      /\ owed \in Maps(BOOLEAN) /\ e \in Entry /\ cli[c].ports \in BOOLEAN
  <2>1. cli[c] \in Cli /\ Fits(cli[c])
        /\ file \in FileType /\ owed \in Maps(BOOLEAN)
    BY TypeParts DEF CacheInv
  <2> QED BY <2>1 DEF Cli, Entry, FileType
<1>1. /\ cli[c].at = "write" /\ file' = [ok |-> TRUE, map |-> cli[c].map, lost |-> file.lost]
      /\ Done(c)
      /\ owed' = IF cli[c].op = "run" THEN Put(owed, n, cli[c].ports) ELSE owed
  BY DEF CacheWrite, Returns
<1>2. cli[c].op \in {"run", "rm"} /\ cli[c].map = Changed(cli[c])
  BY <1>0, <1>1 DEF CacheInv, FileInv, MapIsCurrent, Fits, AtFile
<1>3. cli' \in [Clis -> Cli] /\ cli'[c] = Idle /\ \A b \in Clis \ {c} : cli'[b] = cli[b]
  BY <1>1, IdleFacts, CliStep DEF Done
<1>4. \A b \in Clis \ {c} : cli[b].at \notin AtFile
  BY <1>1 DEF CacheInv, FileInv, OneAtFile, AtFile
<1>5. file'.ok /\ file'.lost = file.lost /\ file'.map = Changed(cli[c])
  BY <1>1, <1>2
<1>6. CASE cli[c].op = "run"
  <2>1. file'.map = Put(file.map, n, e)
    BY <1>5, <1>6 DEF Changed
  <2>2. /\ Put(file.map, n, e) \in Maps(Entry)
        /\ DOMAIN Put(file.map, n, e) = DOMAIN file.map \cup {n}
        /\ Put(file.map, n, e)[n] = e
        /\ \A x \in DOMAIN file.map \ {n} : Put(file.map, n, e)[x] = file.map[x]
    <3> DEFINE m == file.map
    <3>1. m \in Maps(Entry) /\ n \in Names /\ e \in Entry
      BY <1>0
    <3> HIDE DEF n, e, m
    <3>2. /\ Put(m, n, e) \in Maps(Entry)
          /\ DOMAIN Put(m, n, e) = DOMAIN m \cup {n} /\ Put(m, n, e)[n] = e
          /\ \A x \in DOMAIN m \ {n} : Put(m, n, e)[x] = m[x]
      BY ONLY <3>1, CachePut
    <3> QED BY <3>2 DEF m
  <2>3. /\ Put(owed, n, cli[c].ports) \in Maps(BOOLEAN)
        /\ DOMAIN Put(owed, n, cli[c].ports) = DOMAIN owed \cup {n}
        /\ Put(owed, n, cli[c].ports)[n] = cli[c].ports
        /\ \A x \in DOMAIN owed \ {n} : Put(owed, n, cli[c].ports)[x] = owed[x]
    <3> HIDE DEF n
    <3> QED BY <1>0, OwedPut
  <2>4. owed' = Put(owed, n, cli[c].ports)
    BY <1>1, <1>6
  <2>5. file'.map[n].ports = cli[c].ports /\ file'.map[n].pid = cli[c].pid
    BY <2>1, <2>2
  <2> QED BY <1>2, <1>3, <1>4, <1>5, <1>6, <2>1, <2>2, <2>3, <2>4, <2>5
<1>7. CASE cli[c].op = "rm"
  <2>1. file'.map = Remove(file.map, n) /\ owed' = owed
    BY <1>1, <1>5, <1>7 DEF Changed
  <2>2. /\ Remove(file.map, n) \in Maps(Entry)
        /\ DOMAIN Remove(file.map, n) = DOMAIN file.map \ {n}
        /\ \A x \in DOMAIN file.map \ {n} : Remove(file.map, n)[x] = file.map[x]
    BY <1>0, CacheRemove
  <2> QED BY <1>0, <1>2, <1>3, <1>4, <1>5, <1>7, <2>1, <2>2
<1> QED BY <1>2, <1>6, <1>7

LEMMA WriteKeeps ==
  ASSUME CacheInv, NEW c \in Clis, CacheWrite(c)
  PROVE  CacheInv'
<1> DEFINE n == cli[c].name
<1>0. /\ WorldOK' /\ cli[c].at = "write" /\ n \in Names /\ DOMAIN owed \subseteq Names
      /\ file' = [ok |-> TRUE, map |-> file'.map, lost |-> file.lost] /\ file.lost \in SUBSET Names
  <2>1. WorldOK /\ cli[c] \in Cli /\ owed \in Maps(BOOLEAN) /\ file \in FileType
    BY TypeParts DEF CacheInv
  <2>2. DOMAIN owed \subseteq Names
    BY <2>1, MapFacts, Zenon
  <2>3. WorldOK'
    BY <2>1 DEF CacheWrite, WorldOK
  <2> QED BY <2>1, <2>2, <2>3 DEF CacheWrite, Cli, FileType
<1>1. /\ file'.ok /\ file'.lost = file.lost /\ file'.map \in Maps(Entry) /\ owed' \in Maps(BOOLEAN)
      /\ \A x \in DOMAIN file.map \ {n} : x \in DOMAIN file'.map /\ file'.map[x] = file.map[x]
      /\ DOMAIN file'.map \subseteq DOMAIN file.map \cup {n}
      /\ cli[c].op = "run" => /\ n \in DOMAIN file'.map /\ file'.map[n].ports = cli[c].ports
                              /\ DOMAIN owed' = DOMAIN owed \cup {n} /\ owed'[n] = cli[c].ports
                              /\ \A x \in DOMAIN owed \ {n} : owed'[x] = owed[x]
      /\ cli[c].op = "rm" => n \notin DOMAIN file'.map /\ owed' = owed
      /\ \A b \in Clis \ {c} : cli[b].at \notin AtFile /\ cli'[b] = cli[b]
      /\ cli' \in [Clis -> Cli] /\ cli'[c] = Idle /\ cli[c].op \in {"run", "rm"}
  BY WriteFacts
<1>2. \A b \in Clis : cli'[b].at \notin AtFile
  BY <1>1, IdleFacts DEF AtFile
<1>3. OneAtFile' /\ FileIsWhole' /\ MapIsCurrent'
  BY <1>1, <1>2 DEF OneAtFile, FileIsWhole, MapIsCurrent, AtFile
<1>4. OwedIsCached'
  <2>1. \A x : ~TakenOut(x)'
    BY <1>2 DEF TakenOut
  <2>2. \A x : TakenOut(x) <=> cli[c].op = "rm" /\ x = n
    BY <1>0, <1>1 DEF TakenOut, AtFile
  <2>3. /\ \A x \in Names \ file.lost : x \in DOMAIN owed <=> x \in DOMAIN file.map /\ ~TakenOut(x)
        /\ \A x \in DOMAIN owed \ file.lost : file.map[x].ports = owed[x]
    BY DEF CacheInv, FileInv, OwedIsCached
  <2>4. CASE cli[c].op = "run"
    BY <1>0, <1>1, <2>1, <2>2, <2>3, <2>4 DEF OwedIsCached
  <2>5. CASE cli[c].op = "rm"
    BY <1>0, <1>1, <2>1, <2>2, <2>3, <2>5 DEF OwedIsCached
  <2> QED BY <1>1, <2>4, <2>5
<1>5. \A b \in Clis : Fits(cli[b])'
  BY <1>1, IdleFacts DEF CacheInv, Fits
<1>6. file' \in FileType
  BY <1>0, <1>1 DEF FileType
<1> QED BY <1>0, <1>1, <1>3, <1>4, <1>5, <1>6, TypeParts DEF CacheInv, FileInv

(* A write that fails is over; one that fails to open the file is felt by  *)
(* its own name only.                                                      *)
LEMMA WriteFailsFacts ==
  ASSUME CacheInv, NEW c \in Clis, CacheWriteFails(c), ~AllLost'
  PROVE  /\ cli[c].at = "truncate" /\ cli[c].op \in {"run", "rm"} /\ cli[c].name \in Names
         /\ file'.ok = file.ok /\ file'.map = file.map
         /\ file'.lost = file.lost \cup {cli[c].name} /\ file' \in FileType
         /\ cli' \in [Clis -> Cli] /\ cli'[c] = Idle
         /\ \A b \in Clis \ {c} : cli'[b] = cli[b]
         /\ owed' \in Maps(BOOLEAN) /\ DOMAIN owed \subseteq DOMAIN owed'
         /\ DOMAIN owed' \subseteq DOMAIN owed \cup {cli[c].name}
         /\ \A x \in DOMAIN owed \ {cli[c].name} : owed'[x] = owed[x]
<1> DEFINE n == cli[c].name
<1>0. /\ cli[c] \in Cli /\ Fits(cli[c]) /\ n \in Names /\ file \in FileType
      /\ owed \in Maps(BOOLEAN) /\ cli[c].ports \in BOOLEAN
  <2>1. cli[c] \in Cli /\ Fits(cli[c]) /\ file \in FileType /\ owed \in Maps(BOOLEAN)
    BY TypeParts DEF CacheInv
  <2> QED BY <2>1 DEF Cli
<1>1. /\ cli[c].at \in AtFile /\ Done(c)
      /\ owed' = IF cli[c].op = "run" THEN Put(owed, n, cli[c].ports) ELSE owed
      /\ file' = [ok |-> file.ok, map |-> file.map,
                  lost |-> IF cli[c].at = "truncate" THEN file.lost \cup {n} ELSE Names]
  BY DEF CacheWriteFails, Returns
<1>2. cli[c].at = "truncate" /\ cli[c].op \in {"run", "rm"}
  BY <1>0, <1>1 DEF AllLost, AtFile, Fits
<1>3. /\ file'.ok = file.ok /\ file'.map = file.map
      /\ file'.lost = file.lost \cup {n} /\ file' \in FileType
  BY <1>0, <1>1, <1>2 DEF FileType
<1>4. cli' \in [Clis -> Cli] /\ cli'[c] = Idle /\ \A b \in Clis \ {c} : cli'[b] = cli[b]
  BY <1>1, IdleFacts, CliStep DEF Done
<1>5. /\ Put(owed, n, cli[c].ports) \in Maps(BOOLEAN)
      /\ DOMAIN Put(owed, n, cli[c].ports) = DOMAIN owed \cup {n}
      /\ \A x \in DOMAIN owed \ {n} : Put(owed, n, cli[c].ports)[x] = owed[x]
  <2> SUFFICES ASSUME NEW m, m = owed, NEW e, e = cli[c].ports, NEW x, x = n
               PROVE  /\ Put(m, x, e) \in Maps(BOOLEAN) /\ DOMAIN Put(m, x, e) = DOMAIN m \cup {x}
                      /\ \A y \in DOMAIN m \ {x} : Put(m, x, e)[y] = m[y]
    OBVIOUS
  <2>1. m \in Maps(BOOLEAN) /\ x \in Names /\ e \in BOOLEAN
    BY <1>0
  <2> HIDE DEF n
  <2> QED BY ONLY <2>1, OwedPut
<1> QED BY <1>0, <1>1, <1>2, <1>3, <1>4, <1>5

LEMMA WriteFailsKeeps ==
  ASSUME CacheInv, NEW c \in Clis, CacheWriteFails(c)
  PROVE  CacheInv' \/ AllLost'
<1> SUFFICES ASSUME ~AllLost' PROVE CacheInv'
  OBVIOUS
<1> DEFINE n == cli[c].name
<1>0. WorldOK' /\ DOMAIN owed \subseteq Names
  <2>1. WorldOK /\ owed \in Maps(BOOLEAN)
    BY TypeParts DEF CacheInv
  <2>2. DOMAIN owed \subseteq Names
    BY <2>1, MapFacts, Zenon
  <2> QED BY <2>1, <2>2 DEF CacheWriteFails, WorldOK
<1>1. /\ cli[c].at = "truncate" /\ n \in Names /\ file'.ok = file.ok /\ file'.map = file.map
      /\ file'.lost = file.lost \cup {n} /\ file' \in FileType
      /\ cli' \in [Clis -> Cli] /\ cli'[c] = Idle
      /\ \A b \in Clis \ {c} : cli'[b] = cli[b]
      /\ owed' \in Maps(BOOLEAN) /\ DOMAIN owed \subseteq DOMAIN owed'
      /\ DOMAIN owed' \subseteq DOMAIN owed \cup {n}
      /\ \A x \in DOMAIN owed \ {n} : owed'[x] = owed[x]
  BY WriteFailsFacts
<1>2. \A b \in Clis : cli'[b].at \notin AtFile /\ (cli[b].at \in AtFile => b = c)
  BY <1>1, IdleFacts DEF CacheInv, FileInv, OneAtFile, AtFile
<1>3. OneAtFile' /\ FileIsWhole' /\ MapIsCurrent'
  BY <1>1, <1>2 DEF CacheInv, FileInv, OneAtFile, FileIsWhole, MapIsCurrent, AtFile
<1>4. OwedIsCached'
  <2>1. \A x : ~TakenOut(x)' /\ (TakenOut(x) => x = n)
    BY <1>2 DEF TakenOut
  <2>2. /\ \A x \in Names \ file.lost : x \in DOMAIN owed <=> x \in DOMAIN file.map /\ ~TakenOut(x)
        /\ \A x \in DOMAIN owed \ file.lost : file.map[x].ports = owed[x]
    BY DEF CacheInv, FileInv, OwedIsCached
  <2> QED BY <1>0, <1>1, <2>1, <2>2 DEF OwedIsCached
<1>5. \A b \in Clis : Fits(cli[b])'
  BY <1>1, IdleFacts DEF CacheInv, Fits
<1> QED BY <1>0, <1>1, <1>3, <1>4, <1>5, TypeParts DEF CacheInv, FileInv

(* What is lost is not found again.                                        *)
LEMMA LostStays == AllLost /\ [CacheNext]_cacheVars => AllLost'
<1> SUFFICES ASSUME AllLost, [CacheNext]_cacheVars PROVE AllLost'
  OBVIOUS
<1>1. ASSUME NEW c \in Clis, Command(c) PROVE AllLost'
  <2>1. CASE CacheTruncate(c) \/ CacheWrite(c) \/ CacheWriteFails(c)
    BY <2>1 DEF AllLost, CacheTruncate, CacheWrite, CacheWriteFails
  <2>2. CASE UNCHANGED file
    BY <2>2 DEF AllLost
  <2> QED BY <1>1, <2>1, <2>2
          DEF Command, RunBegins, RmKillsProxy, StopRuns, StartRuns, PortBegins, InspectDetects,
              InspectLists, CacheLoad, RunStarts, RunFails, RunEnds, StopKillsProxy, RmRuns,
              InspectLoads, InspectLoadsAgain, CliKilled, Quiet
<1>2. CASE Events \/ Environment \/ UNCHANGED cacheVars
  <2>1. UNCHANGED file
    BY <1>2 DEF cacheVars, Events, Environment, EventsBegin, EventsPoll, EventsEmit, BoxExits,
                ProxyEnds
  <2> QED BY <2>1 DEF AllLost
<1> QED BY <1>1, <1>2 DEF CacheNext

LEMMA CacheInvNext ==
  ASSUME ~Overlap, Killable \cap AtFile = {}
  PROVE  CacheInv /\ [CacheNext]_cacheVars => CacheInv' \/ AllLost'
<1> SUFFICES ASSUME CacheInv, [CacheNext]_cacheVars, ~AllLost' PROVE CacheInv'
  OBVIOUS
<1>1. ASSUME NEW c \in Clis, Command(c) PROVE CacheInv'
  <2>1. ASSUME NEW n \in Names, NEW detach \in BOOLEAN, NEW ports \in BOOLEAN,
               RunBegins(c, n, detach, ports)
        PROVE  CacheInv'
    BY <2>1, RunKeeps
  <2>2. ASSUME NEW n \in Names, NEW force \in BOOLEAN, RmKillsProxy(c, n, force)
        PROVE  CacheInv'
    BY <2>2, RmKeeps
  <2>3. ASSUME NEW n \in Names,
               \/ StopRuns(c, n) \/ StartRuns(c, n) \/ PortBegins(c, n)
               \/ InspectDetects(c, n) \/ InspectLists(c, n)
        PROVE  CacheInv'
    BY <2>3, StopKeeps, InspectKeeps DEF Looks
  <2>4. CASE CacheLoad(c) \/ CacheTruncate(c) \/ CacheWrite(c) \/ CacheWriteFails(c)
    BY <2>4, LoadKeeps, TruncateKeeps, WriteKeeps, WriteFailsKeeps
  <2>5. CASE RunStarts(c) \/ RunFails(c) \/ RunEnds(c)
    BY <2>5, RunKeeps, ShimAssumption
  <2>6. CASE StopKillsProxy(c) \/ RmRuns(c) \/ InspectLoads(c) \/ InspectLoadsAgain(c)
    BY <2>6, StopKeeps, RmKeeps, InspectKeeps, ShimAssumption DEF Looks
  <2>7. CASE CliKilled(c)
    BY <2>7, KilledKeeps
  <2> QED BY <1>1, <2>1, <2>2, <2>3, <2>4, <2>5, <2>6, <2>7, Zenon DEF Command
<1>2. CASE Events \/ Environment
  BY <1>2, WorldKeeps
<1>3. CASE UNCHANGED cacheVars
  BY <1>3 DEF cacheVars, CacheInv, CacheTypeOK, Fits, FileInv, OneAtFile, FileIsWhole, MapIsCurrent,
     Changed, OwedIsCached, TakenOut
<1> QED BY <1>1, <1>2, <1>3 DEF CacheNext

-----------------------------------------------------------------------------
(* Outside of a write the cache has an entry for a name exactly if a run   *)
(* of it has succeeded after its last rm, whatever commands for other      *)
(* names, kills and exits lie between (cache_container,                    *)
(* uncache_container), if commands do not meet at the file and are not     *)
(* killed there; a write that fails costs its own entry, or, once the file *)
(* is emptied, all of them.                                                *)
THEOREM CacheStaysAccurate ==
  ASSUME ~Overlap, Killable \cap AtFile = {}
  PROVE  CacheSpec => []CacheIsAccurate
<1>1. CacheInv \/ AllLost => CacheIsAccurate
  <2> SUFFICES ASSUME CacheInv \/ AllLost, \A c \in Clis : cli[c].at \notin AtFile,
                      NEW n \in Names \ file.lost
               PROVE  n \in DOMAIN load_shim_containers <=> n \in DOMAIN owed
    BY DEF CacheIsAccurate
  <2>1. MayLoad
    BY DEF MayLoad
  <2> QED BY <2>1, MayLoadFacts DEF AllLost
<1> QED BY <1>1, CacheInvInit, CacheInvNext, LostStays, PTL DEF CacheSpec

(* Commands change their own records; rm tells a run that waits.           *)
LEMMA OwnRecord ==
  ASSUME CacheInv, NEW b \in Clis, Command(b), NEW c \in Clis, b # c
  PROVE  cli'[c] = cli[c] \/ cli[c].at = "wait"
<1>0. cli \in [Clis -> Cli]
  BY TypeParts DEF CacheInv
<1>1. \/ RmRuns(b) \/ UNCHANGED cli \/ \E r : cli' = [cli EXCEPT ![b] = r]
  <2>1. ASSUME NEW x \in Names, NEW detach \in BOOLEAN, NEW ports \in BOOLEAN,
               RunBegins(b, x, detach, ports)
        PROVE  \E r : cli' = [cli EXCEPT ![b] = r]
    BY <2>1, Zenon DEF RunBegins
  <2>2. ASSUME NEW x \in Names, NEW force \in BOOLEAN, RmKillsProxy(b, x, force)
        PROVE  \E r : cli' = [cli EXCEPT ![b] = r]
    BY <2>2, Zenon DEF RmKillsProxy
  <2>3. ASSUME NEW x \in Names, \/ StopRuns(b, x) \/ PortBegins(b, x)
                                \/ InspectDetects(b, x) \/ InspectLists(b, x)
        PROVE  \E r : cli' = [cli EXCEPT ![b] = r]
    BY <2>3, Zenon DEF StopRuns, PortBegins, InspectDetects, InspectLists
  <2>4. ASSUME NEW x \in Names, StartRuns(b, x) PROVE UNCHANGED cli
    BY <2>4 DEF StartRuns
  <2>5. \A at : Go(b, at) => \E r : cli' = [cli EXCEPT ![b] = r]
    BY DEF Go
  <2>6. \A found, map : Answer(b, found, map) => \E r : cli' = [cli EXCEPT ![b] = r]
    BY Zenon DEF Answer
  <2>7. Done(b) => \E r : cli' = [cli EXCEPT ![b] = r]
    BY Zenon DEF Done
  <2>8. CacheLoad(b) => \E r : cli' = [cli EXCEPT ![b] = r]
    BY <2>7 DEF CacheLoad
  <2>9. RunEnds(b) => \E r : cli' = [cli EXCEPT ![b] = r]
    BY DEF RunEnds
  <2>10. CASE \/ CacheTruncate(b) \/ CacheWrite(b) \/ CacheWriteFails(b) \/ RunStarts(b) \/ RunFails(b)
              \/ StopKillsProxy(b) \/ InspectLoads(b) \/ InspectLoadsAgain(b) \/ CliKilled(b)
    BY <2>5, <2>6, <2>7, <2>10, Zenon
    DEF CacheTruncate, CacheWrite, CacheWriteFails, Returns, RunStarts, RunFails, StopKillsProxy,
        InspectLoads, InspectLoadsAgain, CliKilled
  <2> QED BY <2>1, <2>2, <2>3, <2>4, <2>8, <2>9, <2>10, Zenon DEF Command
<1>2. CASE RmRuns(b)
  BY <1>2, RmRunsFacts
<1> QED BY <1>0, <1>1, <1>2

(* docker inspect of a container and docker port, unless they are killed   *)
(* themselves, answer for every container that run has reported and rm has *)
(* not removed, with its ports, although they ask pelagos and the file at  *)
(* different moments (cmd_inspect_container, cmd_port), unless a failed    *)
(* write of the cache has lost its entry.                                  *)
THEOREM InspectStaysRight ==
  ASSUME ~Overlap,
         Killable \cap (AtFile \cup {"ps", "look", "look_again", "port"}) = {}
  PROVE  CacheSpec => InspectIsRight
<1> DEFINE Right(c, n) ==
             /\ cli[c].op \in {"inspect", "port"} /\ cli[c].name = n /\ cli'[c].at = "idle"
             /\ n \in DOMAIN owed
             => cli'[c].op = "found" /\ cli'[c].ports = owed[n]
<1>0. Killable \cap AtFile = {}
  OBVIOUS
<1>1. (CacheInv \/ AllLost) /\ [CacheNext]_cacheVars
      => [\A c \in Clis, n \in Names \ file.lost : Right(c, n)]_cacheVars
  <2> SUFFICES ASSUME CacheInv, CacheNext, NEW c \in Clis, NEW n \in Names \ file.lost,
                      cli[c].op \in {"inspect", "port"}, cli[c].name = n, cli'[c].at = "idle",
                      n \in DOMAIN owed
               PROVE  cli'[c].op = "found" /\ cli'[c].ports = owed[n]
    BY DEF AllLost
  <2>0. /\ cli \in [Clis -> Cli] /\ Fits(cli[c]) /\ cli[c] \in Cli /\ n \in Names
        /\ owed \in Maps(BOOLEAN)
    <3>1. cli \in [Clis -> Cli] /\ Fits(cli[c]) /\ owed \in Maps(BOOLEAN)
      BY TypeParts DEF CacheInv
    <3> QED BY <3>1 DEF Cli
  <2>1. cli[c].at \in {"ps", "look", "look_again", "port"} /\ cli'[c] # cli[c]
    <3>1. cli[c].at \in Steps
      BY <2>0 DEF Cli
    <3>2. cli[c].at \in {"ps", "look", "look_again", "port"}
      BY <2>0, <3>1 DEF Steps, AtFile, Fits
    <3> QED BY <3>2
  <2>2. ~(Events \/ Environment)
    BY <2>1, WorldKeeps
  <2>3. PICK b \in Clis : Command(b)
    BY <2>2 DEF CacheNext
  <2>4. b = c
    BY <2>1, <2>3, OwnRecord
  <2>5. CASE \E x \in Names : InspectLists(c, x)
    <3>1. PICK x \in Names : InspectLists(c, x)
      BY <2>5
    <3> DEFINE base == At("inspect", "look", x)
               r == [base EXCEPT !.hit = box[x] # "gone"]
    <3>2. cli' = [cli EXCEPT ![c] = r] /\ base \in Cli /\ base.at = "look"
      <4>1. base \in Cli /\ base.at = "look"
        BY AtFacts DEF Steps
      <4>2. cli' = [cli EXCEPT ![c] = r]
        BY <3>1, Zenon DEF InspectLists
      <4> QED BY <4>1, <4>2
    <3>3. r.at = "look" /\ cli'[c] = r
      <4> HIDE DEF base
      <4> QED BY <2>0, <3>2 DEF Cli
    <3> QED BY <3>3
  <2>6. CASE InspectLoads(c) \/ InspectLoadsAgain(c)
    <3>1. MayLoad
      BY <2>6 DEF InspectLoads, InspectLoadsAgain
    <3>2. /\ load_shim_containers = file.map /\ n \in DOMAIN file.map
          /\ file.map[n].ports = owed[n]
      BY <2>0, <3>1, MayLoadFacts DEF CacheInv, FileInv, OwedIsCached
    <3>3. ~Go(c, "look_again")
      BY <2>0 DEF Go, Cli
    <3>4. Answer(c, TRUE, file.map)
      BY <2>6, <3>2, <3>3 DEF InspectLoads, InspectLoadsAgain
    <3> DEFINE r == [Idle EXCEPT !.op = "found", !.ports = n \in DOMAIN file.map /\ file.map[n].ports]
    <3>5. cli'[c] = r
      BY <2>0, <3>4 DEF Answer
    <3>6. r.op = "found" /\ r.ports = (n \in DOMAIN file.map /\ file.map[n].ports)
      BY IdleFacts DEF Cli
    <3>7. owed[n] \in BOOLEAN
      BY <2>0, MapFacts, Zenon
    <3> QED BY <3>2, <3>5, <3>6, <3>7
  <2>7. cli[c].at \notin {"idle", "load", "truncate", "write", "run", "wait", "rm", "kill_stop"}
        /\ Active(c) /\ cli[c].at \notin Killable
    BY <2>1 DEF Active
  <2> QED BY <2>3, <2>4, <2>5, <2>6, <2>7
          DEF Command, RunBegins, RmKillsProxy, StopRuns, StartRuns, PortBegins, InspectDetects,
              CacheLoad, CacheTruncate, CacheWrite, CacheWriteFails, AtFile, RunStarts, RunFails,
              RunEnds, StopKillsProxy, RmRuns, CliKilled
<1> QED BY <1>0, <1>1, CacheInvInit, CacheInvNext, LostStays, PTL DEF CacheSpec, InspectIsRight

-----------------------------------------------------------------------------
(* Port proxies.  A name has one run at a time, and a stop or rm that is   *)
(* given meanwhile meets it while it waits, or without a proxy.            *)
RunIsAlone ==
    \A b, c \in Clis :
        cli[b].op = "run" /\ cli[c].op \in {"run", "rm", "stop"} /\ cli[b].name = cli[c].name
        => \/ b = c
           \/ cli[c].op # "run" /\ (cli[b].at = "wait" \/ cli[b].pid = NoPid)

RunIsNew ==
    \A c \in Clis : cli[c].op = "run" => cli[c].name \notin DOMAIN file.map \ file.lost

(* A proxy is known to its run, or else to the cache, until rm has had it  *)
(* killed.                                                                 *)
ProxiesAreKnown ==
    \A p \in proxies :
        \/ p.name \in file.lost
        \/ \E c \in Clis : cli[c].op = "run" /\ cli[c].name = p.name /\ cli[c].pid = p.pid
        \/ p.name \in DOMAIN file.map /\ file.map[p.name].pid = p.pid

Awaited(p) ==
    \E c \in Clis : /\ cli[c].op = "run" /\ cli[c].at = "wait"
                    /\ cli[c].name = p.name /\ cli[c].pid = p.pid

RmHasKilled ==
    \A c \in Clis :
        cli[c].op = "rm" /\ cli[c].name \notin file.lost
        => \A p \in proxies : p.name = cli[c].name => Awaited(p)

ProxyInv == RunIsAlone /\ RunIsNew /\ ProxiesAreKnown /\ RmHasKilled

(* What a step leaves of the other commands.                               *)
Same(b) == /\ cli'[b].op = cli[b].op /\ cli'[b].at = cli[b].at
           /\ cli'[b].name = cli[b].name /\ cli'[b].pid = cli[b].pid

OthersSame(c) == \A b \in Clis \ {c} : Same(b)

LEMMA ProxyInvInit == CacheInit => ProxyInv
  BY IdleFacts DEF CacheInit, ProxyInv, RunIsAlone, RunIsNew, ProxiesAreKnown, RmHasKilled

(* A command other than run ends, or is none of the three.                 *)
LEMMA AsideKeeps ==
  ASSUME ProxyInv, NEW c \in Clis, OthersSame(c), cli[c].op # "run",
         cli'[c].op \notin {"run", "rm", "stop"}, file'.map = file.map, file'.lost = file.lost,
         proxies' \subseteq proxies
  PROVE  ProxyInv'
<1>1. RunIsAlone' /\ RunIsNew'
  BY DEF ProxyInv, RunIsAlone, RunIsNew, OthersSame, Same
<1>2. ProxiesAreKnown'
  BY DEF ProxyInv, ProxiesAreKnown, OthersSame, Same
<1>3. RmHasKilled'
  BY DEF ProxyInv, RmHasKilled, Awaited, OthersSame, Same
<1> QED BY <1>1, <1>2, <1>3 DEF ProxyInv

(* A command goes on that does not wait for its container.                 *)
LEMMA OnwardKeeps ==
  ASSUME ProxyInv, NEW c \in Clis, OthersSame(c), cli[c].at # "wait", cli'[c].op = cli[c].op,
         cli'[c].name = cli[c].name, cli'[c].pid = cli[c].pid,
         file'.map = file.map, file'.lost = file.lost, proxies' \subseteq proxies
  PROVE  ProxyInv'
<1>1. RunIsAlone'
  BY DEF ProxyInv, RunIsAlone, OthersSame, Same
<1>2. RunIsNew'
  BY DEF ProxyInv, RunIsNew, OthersSame, Same
<1>3. ProxiesAreKnown'
  <2> SUFFICES ASSUME NEW p \in proxies'
               PROVE  \/ p.name \in file'.lost
                      \/ \E b \in Clis : /\ cli'[b].op = "run" /\ cli'[b].name = p.name
                                         /\ cli'[b].pid = p.pid
                      \/ p.name \in DOMAIN file'.map /\ file'.map[p.name].pid = p.pid
    BY DEF ProxiesAreKnown
  <2> QED BY DEF ProxyInv, ProxiesAreKnown, OthersSame, Same
<1>4. RmHasKilled'
  BY DEF ProxyInv, RmHasKilled, Awaited, OthersSame, Same
<1> QED BY <1>1, <1>2, <1>3, <1>4 DEF ProxyInv

(* A run has killed its proxy.                                             *)
LEMMA ProxyGoneKeeps ==
  ASSUME ProxyInv, NEW c \in Clis, OthersSame(c), cli[c].op = "run",
         proxies' = {p \in proxies : p.pid # cli[c].pid}, file'.map = file.map,
         file'.lost = file.lost,
         \/ cli'[c].op = "none"
         \/ cli'[c].op = "run" /\ cli'[c].name = cli[c].name /\ cli'[c].pid = NoPid
  PROVE  ProxyInv'
<1>1. RunIsAlone'
  BY DEF ProxyInv, RunIsAlone, OthersSame, Same
<1>2. RunIsNew'
  BY DEF ProxyInv, RunIsNew, OthersSame, Same
<1>3. ProxiesAreKnown'
  BY DEF ProxyInv, ProxiesAreKnown, OthersSame, Same
<1>4. RmHasKilled'
  BY DEF ProxyInv, RmHasKilled, Awaited, OthersSame, Same
<1> QED BY <1>1, <1>2, <1>3, <1>4 DEF ProxyInv

(* docker run: the name is not in the cache, as nothing owes it.           *)
LEMMA RunBeginsProxy ==
  ASSUME ~Overlap, RmFirst, CacheInv, ProxyInv, NEW c \in Clis, NEW n \in Names,
         NEW detach \in BOOLEAN, NEW ports \in BOOLEAN, RunBegins(c, n, detach, ports)
  PROVE  ProxyInv'
<1> DEFINE base == At("run", "run", n)
           R(pid) == [base EXCEPT !.flag = detach, !.ports = ports, !.pid = pid]
<1>0. /\ cli \in [Clis -> Cli] /\ base \in Cli /\ base.op = "run" /\ base.at = "run"
      /\ base.name = n /\ base.pid = NoPid
      /\ \A b \in Clis : Fits(cli[b]) /\ cli[b] \in Cli
  BY TypeParts, AtFacts DEF CacheInv, Steps
<1>1. /\ cli[c].at = "idle" /\ \A x \in Clis : ~Changes(x, n)
      /\ n \notin DOMAIN owed /\ UNCHANGED file
  BY DEF RunBegins, Active
<1>2. /\ cli'[c].op = "run" /\ cli'[c].name = n
      /\ \A b \in Clis \ {c} : cli'[b] = cli[b]
      /\ proxies \subseteq proxies'
      /\ \A p \in proxies' : p \in proxies \/ (p.name = n /\ p.pid = cli'[c].pid)
  <2>1. \A pid : R(pid).op = "run" /\ R(pid).name = n /\ R(pid).pid = pid
    <3> HIDE DEF base
    <3> QED BY <1>0 DEF Cli
  <2>2. [base EXCEPT !.flag = detach, !.ports = ports].op = "run"
        /\ [base EXCEPT !.flag = detach, !.ports = ports].name = n
    <3> HIDE DEF base
    <3> QED BY <1>0 DEF Cli
  <2>3. CASE /\ lastPid' = lastPid + 1
             /\ proxies' = proxies \cup {[pid |-> lastPid', name |-> n]}
             /\ cli' = [cli EXCEPT ![c] = R(lastPid')]
    <3> DEFINE r == R(lastPid')
    <3>1. r.op = "run" /\ r.name = n /\ r.pid = lastPid' /\ cli' = [cli EXCEPT ![c] = r]
      BY <2>1, <2>3
    <3> HIDE DEF r
    <3> QED BY <1>0, <2>3, <3>1
  <2>4. CASE /\ cli' = [cli EXCEPT ![c] = [base EXCEPT !.flag = detach, !.ports = ports]]
             /\ UNCHANGED proxies
    <3> DEFINE r == [base EXCEPT !.flag = detach, !.ports = ports]
    <3>1. r.op = "run" /\ r.name = n /\ cli' = [cli EXCEPT ![c] = r]
      BY <2>2, <2>4
    <3> HIDE DEF r
    <3> QED BY <1>0, <2>4, <3>1
  <2> QED BY <2>3, <2>4 DEF RunBegins
<1>3. \A b \in Clis : cli[b].op \in {"run", "rm", "stop"} => cli[b].name # n
  BY <1>0, <1>1 DEF Changes, Active, Fits
<1>4. n \notin DOMAIN file.map \ file.lost
  <2>1. ~TakenOut(n)
    BY <1>3 DEF TakenOut
  <2> QED BY <1>1, <2>1 DEF CacheInv, FileInv, OwedIsCached
<1>5. cli[c].op \notin {"run", "rm", "stop"}
  BY <1>0, <1>1 DEF Fits
<1>6. RunIsAlone' /\ RunIsNew'
  BY <1>1, <1>2, <1>3, <1>4 DEF ProxyInv, RunIsAlone, RunIsNew
<1>7. ProxiesAreKnown'
  BY <1>1, <1>2, <1>5 DEF ProxyInv, ProxiesAreKnown
<1>8. RmHasKilled'
  BY <1>1, <1>2, <1>3, <1>5 DEF ProxyInv, RmHasKilled, Awaited
<1> QED BY <1>6, <1>7, <1>8 DEF ProxyInv

(* docker stop and docker rm: a run of the name can only be waiting.       *)
LEMMA ClearBeginsProxy ==
  ASSUME ~Overlap, CacheInv, ProxyInv, NEW c \in Clis, NEW n \in Names, NEW force \in BOOLEAN,
         StopRuns(c, n) \/ RmKillsProxy(c, n, force)
  PROVE  ProxyInv'
<1>0. cli \in [Clis -> Cli] /\ \A b \in Clis : Fits(cli[b]) /\ cli[b] \in Cli
  BY TypeParts DEF CacheInv
<1>1. /\ cli[c].at = "idle" /\ cli[c].op \notin {"run", "rm", "stop"} /\ UNCHANGED file
      /\ \A b \in Clis : cli[b].op = "run" /\ cli[b].name = n => cli[b].at = "wait"
  BY <1>0 DEF StopRuns, RmKillsProxy, Active, Unused, Changes, Fits
<1>2. /\ cli'[c].name = n /\ cli'[c].op = IF StopRuns(c, n) THEN "stop" ELSE "rm"
      /\ \A b \in Clis \ {c} : cli'[b] = cli[b]
  <2>1. CASE StopRuns(c, n)
    <3> DEFINE r == At("stop", "kill_stop", n)
    <3>1. r.name = n /\ r.op = "stop" /\ cli' = [cli EXCEPT ![c] = r]
      BY <2>1, AtFacts DEF StopRuns, Steps
    <3> HIDE DEF r
    <3> QED BY <1>0, <2>1, <3>1
  <2>2. CASE RmKillsProxy(c, n, force) /\ ~StopRuns(c, n)
    <3> DEFINE base == At("rm", "rm", n)
               r == [base EXCEPT !.flag = force]
    <3>1. base \in Cli /\ base.name = n /\ base.op = "rm" /\ cli' = [cli EXCEPT ![c] = r]
      BY <2>2, AtFacts DEF RmKillsProxy, Steps
    <3>2. r.name = n /\ r.op = "rm"
      <4> HIDE DEF base
      <4> QED BY <3>1 DEF Cli
    <3> HIDE DEF r
    <3> QED BY <1>0, <2>2, <3>1, <3>2
  <2> QED BY <2>1, <2>2
<1>3. proxies' \subseteq proxies
  BY DEF StopRuns, RmKillsProxy, kill_proxy_for_container, Kill
<1>4. RunIsAlone' /\ RunIsNew'
  BY <1>1, <1>2 DEF ProxyInv, RunIsAlone, RunIsNew
<1>5. ProxiesAreKnown'
  BY <1>1, <1>2, <1>3 DEF ProxyInv, ProxiesAreKnown
<1>6. \A p \in proxies : Awaited(p) => Awaited(p)'
  BY <1>1, <1>2 DEF Awaited
<1>7. ASSUME RmKillsProxy(c, n, force), n \notin file.lost, NEW p \in proxies', p.name = n
      PROVE  Awaited(p)
  <2>1. load_shim_containers = file.map
    BY <1>7, MayLoadFacts DEF RmKillsProxy
  <2>2. ~(n \in DOMAIN file.map /\ file.map[n].pid = p.pid)
    BY <1>7, <2>1 DEF RmKillsProxy, kill_proxy_for_container, Kill
  <2>3. PICK b \in Clis : cli[b].op = "run" /\ cli[b].name = n /\ cli[b].pid = p.pid
    BY <1>3, <1>7, <2>2 DEF ProxyInv, ProxiesAreKnown
  <2> QED BY <1>1, <1>7, <2>3 DEF Awaited
<1>8. RmHasKilled'
  <2> SUFFICES ASSUME NEW b \in Clis, cli'[b].op = "rm", cli'[b].name \notin file.lost,
                      NEW p \in proxies', p.name = cli'[b].name
               PROVE  Awaited(p)'
    BY <1>1 DEF RmHasKilled
  <2>1. CASE b = c
    BY <1>2, <1>3, <1>6, <1>7, <2>1
  <2>2. CASE b # c
    BY <1>2, <1>3, <1>6, <2>2 DEF ProxyInv, RmHasKilled
  <2> QED BY <2>1, <2>2
<1> QED BY <1>4, <1>5, <1>8 DEF ProxyInv

(* The entry takes over from the run; rm takes out one without a proxy.    *)
LEMMA WriteProxy ==
  ASSUME CacheInv, ProxyInv, NEW c \in Clis, CacheWrite(c)
  PROVE  ProxyInv'
<1> DEFINE n == cli[c].name
<1>1. /\ file'.lost = file.lost
      /\ \A x \in DOMAIN file.map \ {n} : x \in DOMAIN file'.map /\ file'.map[x] = file.map[x]
      /\ DOMAIN file'.map \subseteq DOMAIN file.map \cup {n}
      /\ cli[c].op = "run" => n \in DOMAIN file'.map /\ file'.map[n].pid = cli[c].pid
      /\ cli[c].op = "rm" => n \notin DOMAIN file'.map
      /\ \A b \in Clis \ {c} : cli'[b] = cli[b]
      /\ cli'[c] = Idle /\ cli[c].op \in {"run", "rm"}
  BY WriteFacts
<1>2. cli[c].at = "write" /\ UNCHANGED proxies /\ cli'[c].op = "none"
  BY <1>1, IdleFacts DEF CacheWrite
<1>3. RunIsAlone'
  BY <1>1, <1>2 DEF ProxyInv, RunIsAlone
<1>4. RunIsNew'
  BY <1>1, <1>2 DEF ProxyInv, RunIsNew, RunIsAlone
<1>5. \A p \in proxies : Awaited(p) => Awaited(p)'
  BY <1>1, <1>2 DEF Awaited
<1>6. ProxiesAreKnown'
  <2> SUFFICES ASSUME NEW p \in proxies
               PROVE  \/ p.name \in file'.lost
                      \/ \E b \in Clis : /\ cli'[b].op = "run" /\ cli'[b].name = p.name
                                         /\ cli'[b].pid = p.pid
                      \/ p.name \in DOMAIN file'.map /\ file'.map[p.name].pid = p.pid
    BY <1>2 DEF ProxiesAreKnown
  <2>1. CASE p.name # n
    BY <1>1, <1>2, <2>1 DEF ProxyInv, ProxiesAreKnown
  <2>2. CASE p.name = n /\ cli[c].op = "run"
    BY <1>1, <1>2, <2>2 DEF ProxyInv, ProxiesAreKnown, RunIsNew, RunIsAlone
  <2>3. CASE p.name = n /\ cli[c].op = "rm"
    BY <1>1, <1>2, <1>5, <2>3 DEF ProxyInv, RmHasKilled, Awaited
  <2> QED BY <1>1, <2>1, <2>2, <2>3
<1>7. RmHasKilled'
  BY <1>1, <1>2, <1>5 DEF ProxyInv, RmHasKilled
<1> QED BY <1>3, <1>4, <1>6, <1>7 DEF ProxyInv

(* The entry is not written: the name no longer counts.                    *)
LEMMA WriteFailsProxy ==
  ASSUME CacheInv, ProxyInv, NEW c \in Clis, CacheWriteFails(c), ~AllLost'
  PROVE  ProxyInv'
<1> DEFINE n == cli[c].name
<1>1. /\ cli[c].at = "truncate" /\ file'.map = file.map /\ file'.lost = file.lost \cup {n}
      /\ cli'[c] = Idle /\ \A b \in Clis \ {c} : cli'[b] = cli[b]
  BY WriteFailsFacts
<1>2. cli'[c].op = "none" /\ UNCHANGED proxies
  BY <1>1, IdleFacts DEF CacheWriteFails
<1>3. RunIsAlone' /\ RunIsNew'
  BY <1>1, <1>2 DEF ProxyInv, RunIsAlone, RunIsNew
<1>4. ProxiesAreKnown'
  BY <1>1, <1>2 DEF ProxyInv, ProxiesAreKnown
<1>5. \A p \in proxies : Awaited(p) => Awaited(p)'
  BY <1>1, <1>2 DEF Awaited
<1>6. RmHasKilled'
  BY <1>1, <1>2, <1>5 DEF ProxyInv, RmHasKilled
<1> QED BY <1>3, <1>4, <1>6 DEF ProxyInv

LEMMA CommandProxy ==
  ASSUME ~Overlap, RmFirst, Killable \cap ({"run", "wait", "load"} \cup AtFile) = {},
         CacheInv, ProxyInv, NEW c \in Clis, Command(c), ~AllLost'
  PROVE  ProxyInv'
<1>0. cli \in [Clis -> Cli] /\ \A b \in Clis : Fits(cli[b]) /\ cli[b] \in Cli
  BY TypeParts DEF CacheInv
<1>1. ASSUME NEW r, cli' = [cli EXCEPT ![c] = r] PROVE OthersSame(c) /\ cli'[c] = r
  BY <1>0, <1>1 DEF OthersSame, Same
<1>2. ASSUME NEW n \in Names, NEW detach \in BOOLEAN, NEW ports \in BOOLEAN,
             RunBegins(c, n, detach, ports)
      PROVE  ProxyInv'
  BY <1>2, RunBeginsProxy
<1>3. ASSUME NEW n \in Names, NEW force \in BOOLEAN, StopRuns(c, n) \/ RmKillsProxy(c, n, force)
      PROVE  ProxyInv'
  BY <1>3, ClearBeginsProxy
<1>4. ASSUME NEW n \in Names, StartRuns(c, n) PROVE ProxyInv'
  <2>1. UNCHANGED <<cli, file, proxies>>
    BY <1>4 DEF StartRuns
  <2> QED BY <2>1 DEF ProxyInv, RunIsAlone, RunIsNew, ProxiesAreKnown, RmHasKilled, Awaited
<1>5. CASE CacheLoad(c) /\ ~Done(c)
  <2>1. PICK map : cli' = [cli EXCEPT ![c] = [cli[c] EXCEPT !.at = "truncate", !.map = map]]
    BY <1>5 DEF CacheLoad
  <2> DEFINE r == [cli[c] EXCEPT !.at = "truncate", !.map = map]
  <2>2. r.op = cli[c].op /\ r.name = cli[c].name /\ r.pid = cli[c].pid
    BY <1>0 DEF Cli
  <2>3. OthersSame(c) /\ cli'[c] = r
    BY <1>1, <2>1
  <2> HIDE DEF r
  <2>4. cli[c].at = "load" /\ UNCHANGED <<file, proxies>>
    BY <1>5 DEF CacheLoad
  <2> QED BY <2>2, <2>3, <2>4, OnwardKeeps
<1>6. CASE CacheLoad(c) /\ Done(c)
  <2>1. OthersSame(c) /\ cli'[c] = Idle
    BY <1>1, <1>6 DEF Done
  <2>2. cli[c].op = "rm" /\ UNCHANGED <<file, proxies>>
    <3>1. ASSUME cli[c].op = "run" PROVE FALSE
      <4>1. PICK map : cli' = [cli EXCEPT ![c] = [cli[c] EXCEPT !.at = "truncate", !.map = map]]
        BY <1>6, <3>1 DEF CacheLoad
      <4>2. cli'[c] = [cli[c] EXCEPT !.at = "truncate", !.map = map]
        BY <1>1, <4>1
      <4>3. cli'[c].at = "truncate"
        BY <1>0, <4>2 DEF Cli
      <4> QED BY <2>1, <4>3, IdleFacts
    <3> QED BY <1>6, <3>1 DEF CacheLoad
  <2> QED BY <2>1, <2>2, IdleFacts, AsideKeeps
<1>7. CASE CacheTruncate(c)
  <2> DEFINE r == [cli[c] EXCEPT !.at = "write"]
  <2>1. cli' = [cli EXCEPT ![c] = r] /\ r.op = cli[c].op /\ r.name = cli[c].name /\ r.pid = cli[c].pid
    BY <1>0, <1>7 DEF Cli, CacheTruncate, Go
  <2>2. OthersSame(c) /\ cli'[c] = r
    BY <1>1, <2>1
  <2> HIDE DEF r
  <2>3. file'.map = file.map /\ file'.lost = file.lost
    BY <1>7 DEF CacheTruncate
  <2>4. cli[c].at = "truncate" /\ UNCHANGED proxies
    BY <1>7 DEF CacheTruncate
  <2> QED BY <2>1, <2>2, <2>3, <2>4, OnwardKeeps
<1>8. CASE CacheWrite(c) \/ CacheWriteFails(c)
  BY <1>8, WriteProxy, WriteFailsProxy
<1>9. CASE RunStarts(c)
  <2> DEFINE r == [cli[c] EXCEPT !.at = IF cli[c].flag THEN "load" ELSE "wait"]
  <2>1. cli' = [cli EXCEPT ![c] = r] /\ r.op = cli[c].op /\ r.name = cli[c].name /\ r.pid = cli[c].pid
    BY <1>0, <1>9 DEF Cli, RunStarts, Go
  <2>2. OthersSame(c) /\ cli'[c] = r
    BY <1>1, <2>1
  <2> HIDE DEF r
  <2>3. cli[c].at = "run" /\ UNCHANGED <<file, proxies>>
    BY <1>9 DEF RunStarts
  <2> QED BY <2>1, <2>2, <2>3, OnwardKeeps
<1>10. CASE RunFails(c)
  <2>1. OthersSame(c) /\ cli'[c] = Idle
    BY <1>1, <1>10 DEF RunFails, Done
  <2>2. cli[c].op = "run" /\ UNCHANGED file /\ proxies' = {p \in proxies : p.pid # cli[c].pid}
    BY <1>0, <1>10 DEF RunFails, Kill, Fits
  <2> QED BY <2>1, <2>2, IdleFacts, ProxyGoneKeeps
<1>11. CASE RunEnds(c)
  <2> DEFINE r == [cli[c] EXCEPT !.at = "load", !.pid = NoPid]
  <2>1. cli' = [cli EXCEPT ![c] = r] /\ r.op = cli[c].op /\ r.name = cli[c].name /\ r.pid = NoPid
    BY <1>0, <1>11 DEF Cli, RunEnds
  <2>2. OthersSame(c) /\ cli'[c] = r
    BY <1>1, <2>1
  <2> HIDE DEF r
  <2>3. cli[c].op = "run" /\ UNCHANGED file /\ proxies' = {p \in proxies : p.pid # cli[c].pid}
    BY <1>0, <1>11 DEF RunEnds, Kill, Fits
  <2> QED BY <2>1, <2>2, <2>3, ProxyGoneKeeps
<1>12. CASE StopKillsProxy(c)
  <2>1. OthersSame(c) /\ cli'[c] = Idle
    BY <1>1, <1>12 DEF StopKillsProxy, Done
  <2>2. cli[c].op = "stop" /\ UNCHANGED file /\ proxies' \subseteq proxies
    BY <1>0, <1>12 DEF StopKillsProxy, kill_proxy_for_container, Kill, Fits
  <2> QED BY <2>1, <2>2, IdleFacts, AsideKeeps
<1>13. CASE RmRuns(c)
  <2>1. /\ \A b \in Clis \ {c} : cli'[b] = cli[b] \/ cli'[b] = [cli[b] EXCEPT !.hit = TRUE]
        /\ cli'[c] = [cli[c] EXCEPT !.at = "load"]
    BY <1>13, RmRunsFacts
  <2>2. OthersSame(c)
    <3> SUFFICES ASSUME NEW b \in Clis \ {c} PROVE Same(b)
      BY DEF OthersSame
    <3>1. CASE cli'[b] = cli[b]
      BY <3>1 DEF Same
    <3>2. CASE cli'[b] = [cli[b] EXCEPT !.hit = TRUE]
      BY <1>0, <3>2 DEF Same, Cli
    <3> QED BY <2>1, <3>1, <3>2
  <2>3. cli'[c].op = cli[c].op /\ cli'[c].name = cli[c].name /\ cli'[c].pid = cli[c].pid
    BY <1>0, <2>1 DEF Cli
  <2>4. cli[c].at = "rm" /\ UNCHANGED <<file, proxies>>
    BY <1>13 DEF RmRuns
  <2> QED BY <2>2, <2>3, <2>4, OnwardKeeps
<1>14. CASE CliKilled(c)
  <2>1. OthersSame(c) /\ cli'[c] = Idle /\ UNCHANGED <<file, proxies>>
    BY <1>1, <1>14 DEF CliKilled, Done, Quiet
  <2>2. cli[c].op # "run"
    <3>1. cli[c].at \in Steps /\ cli[c].at \notin {"run", "wait", "load"} \cup AtFile
      BY <1>0, <1>14 DEF CliKilled, Cli
    <3> QED BY <1>0, <3>1 DEF Steps, Fits
  <2> QED BY <2>1, <2>2, IdleFacts, AsideKeeps
<1>15. ASSUME NEW n \in Names, Looks(c, n) PROVE ProxyInv'
  <2>1. PICK r \in Cli : cli' = [cli EXCEPT ![c] = r] /\ r.at \in Looking /\ Fits(r)
    BY <1>15, LooksFacts
  <2>2. cli[c].at \in Looking /\ UNCHANGED <<file, proxies>>
    BY <1>15, LooksFacts
  <2>3. OthersSame(c) /\ cli'[c] = r
    BY <1>1, <2>1
  <2>4. cli[c].op \notin {"run", "rm", "stop"} /\ r.op \notin {"run", "rm", "stop"}
    BY <1>0, <2>1, <2>2 DEF Looking, Fits
  <2> QED BY <2>2, <2>3, <2>4, AsideKeeps
<1>16. ASSUME NEW n \in Names,
              \/ PortBegins(c, n) \/ InspectDetects(c, n) \/ InspectLists(c, n)
              \/ InspectLoads(c) \/ InspectLoadsAgain(c)
       PROVE  ProxyInv'
  BY <1>15, <1>16, Zenon DEF Looks
<1> QED
  BY <1>2, <1>3, <1>4, <1>5, <1>6, <1>7, <1>8, <1>9, <1>10, <1>11, <1>12, <1>13, <1>14, <1>16,
     ShimAssumption, Zenon DEF Command

LEMMA ProxyInvNext ==
  ASSUME ~Overlap, RmFirst, Killable \cap ({"run", "wait", "load"} \cup AtFile) = {}
  PROVE  CacheInv /\ ProxyInv /\ [CacheNext]_cacheVars => (CacheInv' /\ ProxyInv') \/ AllLost'
<1> SUFFICES ASSUME CacheInv, ProxyInv, [CacheNext]_cacheVars, ~AllLost' PROVE CacheInv' /\ ProxyInv'
  OBVIOUS
<1>1. CacheInv'
  BY CacheInvNext
<1>2. ASSUME NEW c \in Clis, Command(c) PROVE ProxyInv'
  BY <1>2, CommandProxy
<1>3. cli' = cli /\ file' = file /\ proxies' \subseteq proxies => ProxyInv'
  BY DEF ProxyInv, RunIsAlone, RunIsNew, ProxiesAreKnown, RmHasKilled, Awaited
<1>4. CASE Events \/ Environment
  <2>1. cli' = cli /\ file' = file
    BY <1>4, WorldKeeps
  <2>2. proxies' \subseteq proxies
    BY <1>4 DEF Events, Environment, EventsBegin, EventsPoll, EventsEmit, BoxExits, ProxyEnds
  <2> QED BY <1>1, <1>3, <2>1, <2>2
<1>5. CASE UNCHANGED cacheVars
  BY <1>1, <1>3, <1>5 DEF cacheVars
<1> QED BY <1>1, <1>2, <1>4, <1>5 DEF CacheNext

(* When docker stop or docker rm of a name ends, no port proxy of it is    *)
(* left but that of a run that waits for its container and will kill it    *)
(* itself (kill_proxy_for_container), if names are used again only after   *)
(* rm, commands do not meet at the file, and no run is killed; unless the  *)
(* PID has been lost with a write of the cache that failed.                *)
THEOREM ProxiesAreCleared ==
  ASSUME ~Overlap, RmFirst, Killable \cap ({"run", "wait", "load"} \cup AtFile) = {}
  PROVE  CacheSpec => NoProxyLeft
<1> DEFINE Cleared(c, n) ==
             Ends(c, {"stop", "rm"}) /\ cli[c].name = n /\ cli[c].at \notin Killable
             => \A p \in proxies' : p.name = n
                   => \E x \in Clis : cli[x].at = "wait" /\ cli[x].pid = p.pid
<1>1. (CacheInv /\ ProxyInv) \/ AllLost
      => ([CacheNext]_cacheVars => [\A c \in Clis, n \in Names \ file.lost : Cleared(c, n)]_cacheVars)
  <2> SUFFICES ASSUME CacheInv, ProxyInv, CacheNext, NEW c \in Clis, cli[c].name \notin file.lost,
                      cli[c].op \in {"stop", "rm"}, cli'[c] = Idle, cli[c].at \notin Killable,
                      NEW p \in proxies', p.name = cli[c].name
               PROVE  \E x \in Clis : cli[x].at = "wait" /\ cli[x].pid = p.pid
    BY DEF Ends, AllLost
  <2>0. cli \in [Clis -> Cli] /\ Fits(cli[c]) /\ cli[c] \in Cli /\ WorldOK
    BY TypeParts DEF CacheInv
  <2>1. cli'[c].op = "none" /\ cli'[c].at = "idle" /\ cli[c].at \notin {"wait", "idle"}
    BY <2>0, IdleFacts DEF Fits
  <2>2. PICK b \in Clis : Command(b)
    BY <2>1, WorldKeeps DEF CacheNext
  <2>3. b = c
    BY <2>1, <2>2, OwnRecord
  <2>4. CASE StopKillsProxy(c)
    <3>1. load_shim_containers = file.map /\ cli[c].op = "stop"
      BY <2>0, <2>4, MayLoadFacts DEF StopKillsProxy, Fits
    <3>2. /\ p \in proxies
          /\ ~(p.name \in DOMAIN file.map /\ file.map[p.name].pid = p.pid)
      BY <2>4, <3>1 DEF StopKillsProxy, kill_proxy_for_container, Kill
    <3>3. PICK x \in Clis : cli[x].op = "run" /\ cli[x].name = p.name /\ cli[x].pid = p.pid
      BY <3>2 DEF ProxyInv, ProxiesAreKnown
    <3>4. p.pid # NoPid
      BY <2>0, <3>2, ShimAssumption DEF WorldOK, Pids, NoPid
    <3> QED BY <3>1, <3>3, <3>4 DEF ProxyInv, RunIsAlone
  <2>5. CASE cli[c].op = "rm" /\ UNCHANGED proxies
    BY <2>5 DEF ProxyInv, RmHasKilled, Awaited
  <2>6. ~RmRuns(c) /\ ~RunStarts(c) /\ ~RunFails(c) /\ ~RunEnds(c)
    <3>1. RmRuns(c) => cli'[c] = [cli[c] EXCEPT !.at = "load"]
      BY RmRunsFacts
    <3> DEFINE r == [cli[c] EXCEPT !.at = "load"]
    <3>3. r.at = "load"
      BY <2>0 DEF Cli
    <3> HIDE DEF r
    <3>2. cli[c].at \notin {"run", "wait"}
      BY <2>0 DEF Fits
    <3> QED BY <2>1, <3>1, <3>2, <3>3 DEF r, RunStarts, RunFails, RunEnds
  <2>7. \A n \in Names : ~Looks(c, n)
    <3>1. cli[c].at \notin Looking
      BY <2>0 DEF Looking, Fits
    <3> QED BY <3>1, LooksFacts
  <2>8. CASE CacheLoad(c) \/ CacheTruncate(c) \/ CacheWrite(c) \/ CacheWriteFails(c)
    <3>1. cli[c].op = "rm" /\ UNCHANGED proxies
      BY <2>0, <2>8 DEF CacheLoad, CacheTruncate, CacheWrite, CacheWriteFails, Fits, AtFile
    <3> QED BY <2>5, <3>1
  <2>9. Active(c) /\ ~CliKilled(c)
    BY <2>1 DEF Active, CliKilled
  <2> QED BY <2>2, <2>3, <2>4, <2>6, <2>7, <2>8, <2>9, ShimAssumption
          DEF Command, RunBegins, RmKillsProxy, StopRuns, StartRuns, Looks
<1>2. Killable \cap AtFile = {}
  OBVIOUS
<1> QED BY <1>1, <1>2, CacheInvInit, ProxyInvInit, ProxyInvNext, LostStays, PTL
        DEF CacheSpec, NoProxyLeft

-----------------------------------------------------------------------------
(* Builds.  The copy next to a Dockerfile, or in a slot, is that of the    *)
(* one build that uses it.                                                 *)
Fields == {"at", "path", "file", "args", "todo", "ok"}
Keys == Paths \cup Slots
Pulling == {"run", "stop", "rm"}

(* What a docker process has still to pull.                                *)
TodoFits(r) ==
    /\ DOMAIN r.todo \subseteq Nat /\ \A i \in DOMAIN r.todo : r.todo[i] \in Registry
    /\ r.at \in Pulling => DOMAIN r.todo # {}

WorkFits(r) ==
    /\ DOMAIN r = Fields
    /\ r.path \in Paths \cup {None} /\ r.args \in BuildArgs
    /\ r.file \in Slots \cup {None, r.path} /\ (r.path = None => r.file = None)
    /\ r.at = "idle" => r.path = None
    /\ r.at \in {"read", "guest"} => r.path \in Paths
    /\ TodoFits(r)

WorkOK ==
    /\ DOMAIN work = Builders /\ DOMAIN temp = Keys
    /\ \A k \in Keys : temp[k] \in Files
    /\ \A w \in Builders : WorkFits(work[w])
    /\ work = [w \in Builders |-> work[w]] /\ temp = [k \in Keys |-> temp[k]]

FilesAreOwn ==
    \A v, w \in Builders :
        /\ work[v].path # None /\ work[v].path = work[w].path => v = w
        /\ work[v].file # None /\ work[v].file = work[w].file => v = w

CopyIsOwn == \A w \in Builders : work[w].file # None => temp[work[w].file] = Resolved(w)

ImagesInv == WorkOK /\ (OwnFile => FilesAreOwn /\ CopyIsOwn)

LEMMA RestingFacts ==
  /\ DOMAIN Resting = Fields /\ Resting.at = "idle" /\ Resting.path = None /\ Resting.file = None
  /\ Resting.args \in BuildArgs /\ TodoFits(Resting) /\ WorkFits(Resting)
<1>1. (CHOOSE b \in BuildArgs : TRUE) \in BuildArgs
  BY ImagesAssumption
<1>2. TodoFits(Resting)
  BY DEF Resting, TodoFits, Pulling
<1>3. /\ DOMAIN Resting = Fields /\ Resting.at = "idle" /\ Resting.path = None
      /\ Resting.file = None /\ Resting.args \in BuildArgs
  BY <1>1 DEF Resting, Fields
<1> QED BY <1>2, <1>3 DEF WorkFits

LEMMA PathFacts == None \notin Keys /\ Paths \cap Slots = {}
  BY ImagesAssumption DEF Paths, Keys

(* The lines of a Dockerfile and of its resolved copies.                   *)
LEMMA FileFacts ==
  ASSUME NEW p \in Paths, NEW b \in BuildArgs
  PROVE  /\ preprocess_dockerfile_args(Dockerfiles[p], b) \in File
         /\ Dockerfiles[p] \in File
         /\ ~needs_subst(Dockerfiles[p])
            => preprocess_dockerfile_args(Dockerfiles[p], b) = Dockerfiles[p]
<1> DEFINE d == Dockerfiles[p]
           from == d.from
<1>0. d \in File
  BY ImagesAssumption DEF Paths
<1>1. from \in Seq(Lines) /\ d.global \in [Vars -> Values] /\ b \in [Vars -> Values]
  BY <1>0, ImagesAssumption DEF File
<1>2. PICK n \in Nat : from \in [1..n -> Lines]
  BY <1>1
<1> DEFINE to(i) == LET ref == from[i].ref IN
                    IF ref \in Vars /\ Value(ref, b, d.global) # None
                    THEN [from[i] EXCEPT !.ref = Value(ref, b, d.global)] ELSE from[i]
<1>3. preprocess_dockerfile_args(d, b) = [d EXCEPT !.from = [i \in 1..n |-> to(i)]]
  BY <1>2 DEF preprocess_dockerfile_args
<1>4. ASSUME NEW i \in 1..n PROVE to(i) \in Lines
  <2>1. from[i] \in Lines
    BY <1>2
  <2>2. ASSUME from[i].ref \in Vars, Value(from[i].ref, b, d.global) # None
        PROVE  Value(from[i].ref, b, d.global) \in Registry \cup Local
    BY <1>1, <2>2 DEF Value, Values
  <2> QED BY <2>1, <2>2 DEF Lines
<1>5. ASSUME ~needs_subst(d) PROVE [i \in 1..n |-> to(i)] = from
  <2>1. \A i \in 1..n : from[i].ref \notin Vars
    BY <1>2, <1>5 DEF needs_subst
  <2>2. [i \in 1..n |-> to(i)] = [i \in 1..n |-> from[i]]
    BY <2>1
  <2> QED BY <1>2, <2>2
<1> DEFINE lines == [i \in 1..n |-> to(i)]
<1>6. lines \in Seq(Lines)
  <2> HIDE DEF to
  <2> QED BY <1>4
<1>7. [d EXCEPT !.from = lines] \in File
  <2> HIDE DEF lines, d
  <2> QED BY <1>0, <1>6 DEF File
<1>8. lines = from => [d EXCEPT !.from = lines] = d
  <2> HIDE DEF lines, d
  <2> QED BY <1>0 DEF File
<1> QED BY <1>0, <1>3, <1>5, <1>7, <1>8

LEMMA NoFileFacts == NoFile \in File
<1>1. [v \in Vars |-> None] \in [Vars -> Values] /\ <<>> \in Seq(Lines)
  BY DEF Values
<1> QED BY <1>1 DEF NoFile, File

LEMMA HandFacts ==
  ASSUME ImagesInv, NEW w \in Builders, work[w].path \in Paths
  PROVE  HostFile(w) \in File /\ GuestFile(w) \in File
<1>1. \A k \in Keys : temp[k] \in Files
  BY DEF ImagesInv, WorkOK
<1>2. \A f \in Files : f \in File
  <2> SUFFICES ASSUME NEW f \in Files PROVE f \in File
    OBVIOUS
  <2>1. CASE f = NoFile
    BY <2>1, NoFileFacts
  <2>2. CASE f # NoFile
    <3>1. PICK p \in Paths, b \in BuildArgs : f = preprocess_dockerfile_args(Dockerfiles[p], b)
      BY <2>2, SMT DEF Files
    <3> QED BY <3>1, FileFacts
  <2> QED BY <2>1, <2>2
<1>3. \A q \in Paths : Dockerfiles[q] \in File
  BY ImagesAssumption DEF Paths
<1>4. work[w].file \in Slots \cup {None, work[w].path} /\ AtRoot[work[w].path] \in Paths \cup {None}
  BY ImagesAssumption DEF ImagesInv, WorkOK, WorkFits, Paths
<1> QED BY <1>1, <1>2, <1>3, <1>4, NoFileFacts DEF HostFile, GuestFile, Keys

LEMMA ImagesInvInit == ImagesInit => ImagesInv
<1> SUFFICES ASSUME ImagesInit PROVE ImagesInv
  OBVIOUS
<1>1. \A w \in Builders : work[w] = Resting
  BY DEF ImagesInit
<1>2. WorkOK
  BY <1>1, RestingFacts DEF ImagesInit, WorkOK, Files, Keys
<1> QED BY <1>1, <1>2, RestingFacts DEF ImagesInv, FilesAreOwn, CopyIsOwn

(* A step of one docker process w that leaves it without a Dockerfile, or  *)
(* with the one it had.                                                    *)
LEMMA WorkStep ==
  ASSUME ImagesInv, NEW w \in Builders, NEW r, work' = [work EXCEPT ![w] = r],
         DOMAIN r = Fields, r.args \in BuildArgs,
         \/ r.path = None /\ r.file = None
         \/ r.path = work[w].path /\ r.file = work[w].file /\ r.args = work[w].args /\ temp' = temp,
         r.at = "idle" => r.path = None, r.at \in {"read", "guest"} => r.path \in Paths,
         TodoFits(r),
         \/ temp' = temp
         \/ work[w].file # None /\ \E left \in Left(work[w].file) :
                                      temp' = [temp EXCEPT ![work[w].file] = left]
  PROVE  ImagesInv'
<1>1. \A v \in Builders : WorkFits(work[v])
  BY DEF ImagesInv, WorkOK
<1>2. /\ work = [v \in Builders |-> work[v]] /\ temp = [k \in Keys |-> temp[k]]
      /\ \A k \in Keys : temp[k] \in Files
      /\ \A v \in Builders : work[v].file \in Keys \cup {None}
      /\ Left(work[w].file) \subseteq Files \/ work[w].file = None
  <2>1. /\ work = [v \in Builders |-> work[v]] /\ temp = [k \in Keys |-> temp[k]]
        /\ \A k \in Keys : temp[k] \in Files
    BY DEF ImagesInv, WorkOK
  <2>2. \A v \in Builders : work[v].file \in Keys \cup {None}
    BY <1>1 DEF WorkFits, Keys
  <2> QED BY <2>1, <2>2 DEF Left, Files
<1>3. /\ work' = [v \in Builders |-> IF v = w THEN r ELSE work[v]]
      /\ work'[w] = r /\ \A v \in Builders \ {w} : work'[v] = work[v]
  BY <1>2
<1>4. /\ DOMAIN temp' = Keys /\ \A k \in Keys : temp'[k] \in Files
      /\ temp' = [k \in Keys |-> temp'[k]]
      /\ \A k \in Keys : k # work[w].file => temp'[k] = temp[k]
  <2>1. CASE temp' = temp
    BY <1>2, <2>1
  <2>2. CASE \E left \in Files : temp' = [temp EXCEPT ![work[w].file] = left]
    BY <1>2, <2>2
  <2> QED BY <1>2, <2>1, <2>2
<1>5. WorkOK'
  <2>1. DOMAIN work' = Builders /\ work' = [v \in Builders |-> work'[v]]
    BY <1>3
  <2>2. \A v \in Builders : WorkFits(work'[v])
    <3>1. WorkFits(r)
      BY <1>1 DEF WorkFits
    <3> QED BY <1>1, <1>3, <3>1
  <2> QED BY <1>4, <2>1, <2>2 DEF WorkOK, WorkFits, TodoFits
<1>6. OwnFile => FilesAreOwn'
  BY <1>3 DEF ImagesInv, FilesAreOwn
<1>7. OwnFile => CopyIsOwn'
  <2> SUFFICES ASSUME OwnFile, NEW v \in Builders, work'[v].file # None
               PROVE  temp'[work'[v].file] =
                        preprocess_dockerfile_args(Dockerfiles[work'[v].path], work'[v].args)
    BY DEF CopyIsOwn, Resolved
  <2>1. CASE v = w
    BY <1>3, <2>1 DEF ImagesInv, CopyIsOwn, Resolved
  <2>2. CASE v # w
    <3>1. work'[v] = work[v] /\ work[v].file # work[w].file /\ work[v].file \in Keys
      BY <1>2, <1>3, <2>2 DEF ImagesInv, FilesAreOwn
    <3> QED BY <1>4, <3>1 DEF ImagesInv, CopyIsOwn, Resolved
  <2> QED BY <2>1, <2>2
<1> QED BY <1>5, <1>6, <1>7 DEF ImagesInv

(* The end of a pull that has failed, or of a build.                       *)
LEMMA RestStep ==
  ASSUME ImagesInv, NEW w \in Builders, Rest(w),
         \/ temp' = temp
         \/ work[w].file # None /\ \E left \in Left(work[w].file) :
                                      temp' = [temp EXCEPT ![work[w].file] = left]
  PROVE  ImagesInv'
<1>1. work' = [work EXCEPT ![w] = Resting]
  BY DEF Rest
<1> QED BY <1>1, RestingFacts, WorkStep

LEMMA PullFailsStep ==
  ASSUME ImagesInv, NEW w \in Builders, PullFails(w)
  PROVE  ImagesInv'
  BY RestStep DEF PullFails

(* The other steps of a pull and of a build under way.                     *)
LEMMA WorkKeeps ==
  ASSUME ImagesInv, NEW w \in Builders,
         \/ \E i \in Registry : PullBegins(w, i)
         \/ ProbeNotRun(w) \/ ProbeRuns(w) \/ ProbeStops(w) \/ ProbeRemoved(w)
         \/ BuildReads(w) \/ GuestBuilds(w) \/ BuilderKilled(w)
  PROVE  ImagesInv'
<1> DEFINE o == work[w]
           Kept(r) == r.path = o.path /\ r.file = o.file /\ r.args = o.args
<1>0. /\ DOMAIN o = Fields
      /\ o.path \in Paths \cup {None} /\ o.args \in BuildArgs
      /\ o.at \in {"read", "guest"} => o.path \in Paths
      /\ TodoFits(o)
  BY DEF ImagesInv, WorkOK, WorkFits
<1>1. ASSUME NEW r, work' = [work EXCEPT ![w] = r], DOMAIN r = Fields, r.path = o.path,
             r.file = o.file, r.args = o.args, temp' = temp, r.at # "idle",
             r.at \in {"read", "guest"} => o.path \in Paths, TodoFits(r)
      PROVE  ImagesInv'
  BY <1>0, <1>1, WorkStep
<1>2. CASE \E i \in Registry : PullBegins(w, i)
  <2>1. PICK i \in Registry : PullBegins(w, i)
    BY <1>2
  <2> DEFINE r == [Resting EXCEPT !.at = "run", !.todo = <<i>>]
  <2>2. /\ DOMAIN r = Fields /\ r.at = "run" /\ r.path = None /\ r.file = None
        /\ r.args \in BuildArgs /\ TodoFits(r)
    BY RestingFacts DEF Fields, TodoFits
  <2>3. work' = [work EXCEPT ![w] = r] /\ temp' = temp
    BY <2>1 DEF PullBegins
  <2> HIDE DEF r
  <2> QED BY <2>2, <2>3, WorkStep
<1>3. CASE ProbeNotRun(w)
  BY <1>3, PullFailsStep DEF ProbeNotRun
<1>4. CASE ProbeRuns(w)
  <2>1. PICK ok \in BOOLEAN : work' = [work EXCEPT ![w].at = "stop", ![w].ok = ok] /\ temp' = temp
    BY <1>4 DEF ProbeRuns
  <2> DEFINE r == [o EXCEPT !.at = "stop", !.ok = ok]
  <2>2. DOMAIN r = Fields /\ r.at = "stop" /\ Kept(r) /\ TodoFits(r)
    BY <1>0, <1>4 DEF Fields, TodoFits, Pulling, ProbeRuns
  <2>3. work' = [work EXCEPT ![w] = r]
    BY <2>1
  <2> HIDE DEF r
  <2> QED BY <1>1, <2>1, <2>2, <2>3
<1>5. CASE ProbeStops(w)
  <2>1. work' = [work EXCEPT ![w].at = "rm"] /\ temp' = temp
    BY <1>5 DEF ProbeStops
  <2> DEFINE r == [o EXCEPT !.at = "rm"]
  <2>2. DOMAIN r = Fields /\ r.at = "rm" /\ Kept(r) /\ TodoFits(r)
    BY <1>0, <1>5 DEF Fields, TodoFits, Pulling, ProbeStops
  <2>3. work' = [work EXCEPT ![w] = r]
    BY <2>1
  <2> HIDE DEF r
  <2> QED BY <1>1, <2>1, <2>2, <2>3
<1>6. CASE ProbeRemoved(w)
  <2>1. CASE Building(w) /\ o.ok
    <3> DEFINE rest == DOMAIN o.todo \ {Min(DOMAIN o.todo)}
               todo == [i \in rest |-> o.todo[i]]
               at == IF rest = {} THEN "guest" ELSE "run"
    <3>1. work' = [work EXCEPT ![w].todo = todo, ![w].at = at] /\ temp' = temp
      BY <1>6, <2>1 DEF ProbeRemoved, PullEnds
    <3>2. at \in {"run", "guest"} /\ o.path \in Paths
      BY <1>0, <2>1 DEF Building
    <3>5. /\ DOMAIN todo \subseteq Nat /\ \A i \in DOMAIN todo : todo[i] \in Registry
          /\ at = "run" => DOMAIN todo # {}
      BY <1>0 DEF TodoFits
    <3> HIDE DEF todo, at
    <3> DEFINE r == [o EXCEPT !.todo = todo, !.at = at]
    <3>3. DOMAIN r = Fields /\ r.at = at /\ Kept(r) /\ TodoFits(r)
      BY <1>0, <3>2, <3>5 DEF Fields, TodoFits, Pulling
    <3>4. work' = [work EXCEPT ![w] = r]
      BY <3>1
    <3> HIDE DEF r
    <3> QED BY <1>1, <3>1, <3>2, <3>3, <3>4
  <2>2. CASE ~(Building(w) /\ o.ok)
    BY <1>6, <2>2, PullFailsStep DEF ProbeRemoved, PullEnds
  <2> QED BY <2>1, <2>2
<1>7. CASE BuildReads(w)
  <2>1. CASE HostFile(w) = NoFile
    BY <1>7, <2>1, RestStep DEF BuildReads
  <2>2. CASE HostFile(w) # NoFile
    <3> DEFINE todo == pull_base_images(HostFile(w).from, o.args)
               at == IF DOMAIN todo = {} THEN "guest" ELSE "run"
    <3>1. work' = [work EXCEPT ![w].todo = todo, ![w].at = at] /\ temp' = temp
      BY <1>7, <2>2 DEF BuildReads
    <3>2. at \in {"run", "guest"} /\ o.path \in Paths
      BY <1>0, <1>7 DEF BuildReads
    <3>5. /\ DOMAIN todo \subseteq Nat /\ \A i \in DOMAIN todo : todo[i] \in Registry
          /\ at = "run" => DOMAIN todo # {}
      <4>1. HostFile(w).from \in Seq(Lines)
        BY <3>2, HandFacts DEF File
      <4>2. DOMAIN HostFile(w).from \subseteq Nat
        BY <4>1
      <4> QED BY <4>2 DEF pull_base_images
    <3> HIDE DEF todo, at
    <3> DEFINE r == [o EXCEPT !.todo = todo, !.at = at]
    <3>3. DOMAIN r = Fields /\ r.at = at /\ Kept(r) /\ TodoFits(r)
      BY <1>0, <3>2, <3>5 DEF Fields, TodoFits, Pulling
    <3>4. work' = [work EXCEPT ![w] = r]
      BY <3>1
    <3> HIDE DEF r
    <3> QED BY <1>1, <3>1, <3>2, <3>3, <3>4
  <2> QED BY <2>1, <2>2
<1>8. CASE GuestBuilds(w)
  <2> DEFINE r == [Resting EXCEPT !.ok = TRUE]
  <2>1. /\ DOMAIN r = Fields /\ r.at = "idle" /\ r.path = None /\ r.file = None
        /\ r.args \in BuildArgs /\ TodoFits(r)
    BY RestingFacts DEF Fields, TodoFits, Pulling
  <2>2. CASE work' = [work EXCEPT ![w] = r] /\ temp' = temp
    <3> HIDE DEF r
    <3> QED BY <2>1, <2>2, WorkStep
  <2> QED BY <1>8, <2>2, RestStep DEF GuestBuilds
<1>9. CASE BuilderKilled(w)
  BY <1>9, RestStep DEF BuilderKilled
<1> QED BY <1>2, <1>3, <1>4, <1>5, <1>6, <1>7, <1>8, <1>9

(* A build begins: copies of its own may change, and it uses the resolved  *)
(* one, or none.                                                           *)
LEMMA BeginsFacts ==
  ASSUME ImagesInv, NEW w \in Builders, NEW p \in Paths, NEW b \in BuildArgs,
         BuildBegins(w, p, b)
  PROVE  \E f \in Slots \cup {None, p} :
            /\ Begins(w, p, b, f)
            /\ OwnFile => \A v \in Builders : work[v].path # p /\ (f # None => work[v].file # f)
            /\ DOMAIN temp' = Keys /\ \A k \in Keys : temp'[k] \in Files
            /\ temp' = [k \in Keys |-> temp'[k]]
            /\ OwnFile => \A v \in Builders : work[v].file # None => temp'[work[v].file] = temp[work[v].file]
            /\ f # None => temp'[f] = preprocess_dockerfile_args(Dockerfiles[p], b)
<1> DEFINE copy == preprocess_dockerfile_args(Dockerfiles[p], b)
<1>1. /\ temp = [k \in Keys |-> temp[k]] /\ \A k \in Keys : temp[k] \in Files
      /\ \A k \in Keys : Left(k) \subseteq Files
      /\ copy \in Files /\ p \in Keys /\ p # None /\ p \notin Slots /\ Slots \subseteq Keys
      /\ None \notin Slots
  <2>1. temp = [k \in Keys |-> temp[k]] /\ \A k \in Keys : temp[k] \in Files
    BY DEF ImagesInv, WorkOK
  <2>2. NoFile \in Files /\ copy \in Files
    BY DEF Files
  <2>3. \A k \in Keys : Left(k) \subseteq Files
    BY <2>1, <2>2 DEF Left
  <2>4. p \in Keys /\ p # None /\ p \notin Slots /\ Slots \subseteq Keys /\ None \notin Slots
    BY PathFacts DEF Keys
  <2> QED BY <2>1, <2>2, <2>3, <2>4
<1>2. OwnFile => \A v \in Builders : work[v].path # p /\ work[v].file # p
  BY <1>1 DEF BuildBegins, ImagesInv, WorkOK, WorkFits
<1>3. \A v \in Builders : work[v].file \in Keys \cup {None}
  BY DEF ImagesInv, WorkOK, WorkFits, Keys
<1> HIDE DEF copy
<1>4. CASE Begins(w, p, b, None) /\ temp' = temp
  BY <1>1, <1>2, <1>4
<1>5. CASE Begins(w, p, b, p) /\ temp' = [temp EXCEPT ![p] = copy]
  <2>1. /\ DOMAIN temp' = Keys /\ temp' = [k \in Keys |-> temp'[k]] /\ temp'[p] = copy
        /\ \A k \in Keys : temp'[k] \in Files /\ (k # p => temp'[k] = temp[k])
    BY <1>1, <1>5
  <2> QED BY <1>2, <1>3, <1>5, <2>1 DEF copy
<1>6. ASSUME NEW left \in Left(p), NEW s \in Slots, NEW new \in Files, NEW f \in {None, s},
             OwnFile => \A x \in Builders : work[x].file # s,
             Begins(w, p, b, f), temp' = [temp EXCEPT ![p] = left, ![s] = new],
             f = s => new = copy
      PROVE  \E g \in Slots \cup {None, p} :
                /\ Begins(w, p, b, g)
                /\ OwnFile => \A v \in Builders : work[v].path # p /\ (g # None => work[v].file # g)
                /\ DOMAIN temp' = Keys /\ \A k \in Keys : temp'[k] \in Files
                /\ temp' = [k \in Keys |-> temp'[k]]
                /\ OwnFile => \A v \in Builders :
                                 work[v].file # None => temp'[work[v].file] = temp[work[v].file]
                /\ g # None => temp'[g] = preprocess_dockerfile_args(Dockerfiles[p], b)
  <2>1. left \in Files /\ s \in Keys /\ s # p /\ s # None
    BY <1>1
  <2>2. /\ DOMAIN temp' = Keys /\ temp' = [k \in Keys |-> temp'[k]] /\ temp'[s] = new
        /\ \A k \in Keys : temp'[k] \in Files /\ (k \notin {p, s} => temp'[k] = temp[k])
    BY <1>1, <1>6, <2>1
  <2>3. OwnFile => \A v \in Builders : work[v].file # None => temp'[work[v].file] = temp[work[v].file]
    BY <1>2, <1>3, <1>6, <2>2
  <2> QED BY <1>2, <1>6, <2>1, <2>2, <2>3 DEF copy
<1>7. CASE Preprocess(w, p, b, copy)
  <2>1. CASE \E left \in Left(p), s \in Slots :
               /\ OwnFile => \A x \in Builders : work[x].file # s
               /\ Begins(w, p, b, s) /\ temp' = [temp EXCEPT ![p] = left, ![s] = copy]
    BY <1>1, <1>6, <2>1
  <2>2. CASE \E left \in Left(p), s \in Slots :
               /\ OwnFile => \A x \in Builders : work[x].file # s
               /\ Begins(w, p, b, None)
               /\ \E rest \in Left(s) : temp' = [temp EXCEPT ![p] = left, ![s] = rest]
    BY <1>1, <1>6, <2>2
  <2> QED BY <1>5, <1>7, <2>1, <2>2, Zenon DEF Preprocess
<1> QED BY <1>4, <1>7 DEF BuildBegins, copy

LEMMA BuildBeginsKeeps ==
  ASSUME ImagesInv, NEW w \in Builders, NEW p \in Paths, NEW b \in BuildArgs,
         BuildBegins(w, p, b)
  PROVE  ImagesInv'
<1>1. PICK f \in Slots \cup {None, p} :
         /\ Begins(w, p, b, f)
         /\ OwnFile => \A v \in Builders : work[v].path # p /\ (f # None => work[v].file # f)
         /\ DOMAIN temp' = Keys /\ \A k \in Keys : temp'[k] \in Files
         /\ temp' = [k \in Keys |-> temp'[k]]
         /\ OwnFile => \A v \in Builders : work[v].file # None => temp'[work[v].file] = temp[work[v].file]
         /\ f # None => temp'[f] = preprocess_dockerfile_args(Dockerfiles[p], b)
  BY BeginsFacts
<1> DEFINE r == [Resting EXCEPT !.at = "read", !.path = p, !.args = b, !.file = f]
<1>2. work' = [work EXCEPT ![w] = r] /\ work = [v \in Builders |-> work[v]]
  BY <1>1 DEF Begins, ImagesInv, WorkOK
<1>3. DOMAIN r = Fields /\ r.at = "read" /\ r.path = p /\ r.args = b /\ r.file = f /\ TodoFits(r)
  BY RestingFacts DEF Fields, TodoFits, Pulling
<1> HIDE DEF r
<1>4. WorkFits(r)
  BY <1>3, PathFacts DEF WorkFits, Keys
<1>5. work'[w] = r /\ \A v \in Builders \ {w} : work'[v] = work[v]
  BY <1>2
<1>6. WorkOK'
  <2>1. DOMAIN work' = Builders /\ work' = [v \in Builders |-> work'[v]]
    BY <1>2
  <2>2. \A v \in Builders : WorkFits(work'[v])
    BY <1>4, <1>5 DEF ImagesInv, WorkOK
  <2> QED BY <1>1, <2>1, <2>2 DEF WorkOK, WorkFits, TodoFits
<1>7. OwnFile => FilesAreOwn'
  BY <1>1, <1>3, <1>5 DEF ImagesInv, FilesAreOwn
<1>8. OwnFile => CopyIsOwn'
  <2> SUFFICES ASSUME OwnFile, NEW v \in Builders, work'[v].file # None
               PROVE  temp'[work'[v].file] =
                        preprocess_dockerfile_args(Dockerfiles[work'[v].path], work'[v].args)
    BY DEF CopyIsOwn, Resolved
  <2>1. CASE v = w
    BY <1>1, <1>3, <1>5, <2>1
  <2>2. CASE v # w
    BY <1>1, <1>5, <2>2 DEF ImagesInv, CopyIsOwn, Resolved
  <2> QED BY <2>1, <2>2
<1> QED BY <1>6, <1>7, <1>8 DEF ImagesInv

LEMMA ImagesInvNext == ImagesInv /\ [ImagesNext]_imageVars => ImagesInv'
<1> SUFFICES ASSUME ImagesInv, [ImagesNext]_imageVars PROVE ImagesInv'
  OBVIOUS
<1>1. CASE \E w \in Builders, p \in Paths, b \in BuildArgs : BuildBegins(w, p, b)
  BY <1>1, BuildBeginsKeeps
<1>2. CASE \E w \in Builders :
              \/ \E i \in Registry : PullBegins(w, i)
              \/ ProbeNotRun(w) \/ ProbeRuns(w) \/ ProbeStops(w) \/ ProbeRemoved(w)
              \/ BuildReads(w) \/ GuestBuilds(w) \/ BuilderKilled(w)
  BY <1>2, WorkKeeps
<1>3. CASE UNCHANGED <<work, temp>>
  BY <1>3 DEF ImagesInv, WorkOK, WorkFits, TodoFits, FilesAreOwn, CopyIsOwn, Resolved
<1> QED BY <1>1, <1>2, <1>3 DEF ImagesNext, imageVars, ProbeExits

(* The guest builds the Dockerfile of the build with its own arguments     *)
(* (preprocess_dockerfile_args, cmd_build, build_command), from the copy   *)
(* next to it or the one under /tmp, where no other build uses the same    *)
(* Dockerfile or slot at the same time: for every set of Dockerfiles,      *)
(* build arguments and docker processes, and whatever copies failed or     *)
(* killed builds have left.                                                *)
THEOREM BuildsUseOwnArgs ==
  ASSUME OwnFile
  PROVE  ImagesSpec => []BuildUsesOwnArgs
<1>1. ASSUME ImagesInv PROVE BuildUsesOwnArgs
  <2> SUFFICES ASSUME NEW w \in Builders, work[w].at = "guest",
                      needs_subst(Dockerfiles[work[w].path]) => work[w].file # None,
                      work[w].file \in Slots \/ AtRoot[work[w].path] = work[w].path
               PROVE  GuestFile(w) = Resolved(w)
    BY DEF BuildUsesOwnArgs
  <2>1. /\ work[w].path \in Paths /\ work[w].args \in BuildArgs
        /\ work[w].file \in Slots \cup {None, work[w].path}
    BY <1>1 DEF ImagesInv, WorkOK, WorkFits
  <2>2. CASE work[w].file # None
    BY <1>1, <2>1, <2>2, PathFacts DEF ImagesInv, CopyIsOwn, GuestFile, Keys
  <2>3. CASE work[w].file = None
    BY <2>1, <2>3, FileFacts, PathFacts DEF GuestFile, Resolved, Keys
  <2> QED BY <2>2, <2>3
<1> QED BY <1>1, ImagesInvInit, ImagesInvNext, PTL DEF ImagesSpec

-----------------------------------------------------------------------------
(* Pulls.  The VM has no image that is a flag, and the probe that a pull   *)
(* uses is one of the probes.                                              *)
ProbeStates == {"gone", "running", "exited"}

PullInv == store \subseteq Registry \cup Local /\ probe \in [Probes -> ProbeStates]

LEMMA ProbeFacts ==
  ASSUME ImagesInv, NEW w \in Builders, work[w].at \in Pulling
  PROVE  Image(w) \in Registry /\ ProbeName(w) \in Probes
<1>1. /\ DOMAIN work[w].todo \subseteq Nat /\ DOMAIN work[w].todo # {}
      /\ \A i \in DOMAIN work[w].todo : work[w].todo[i] \in Registry
  BY DEF ImagesInv, WorkOK, WorkFits, TodoFits
<1>2. Min(DOMAIN work[w].todo) \in DOMAIN work[w].todo
  BY <1>1, MinIsLowest
<1>3. Image(w) \in Registry
  BY <1>1, <1>2 DEF Image
<1> QED BY <1>3 DEF ProbeName, Probes

LEMMA PullInvNext == ImagesInv /\ PullInv /\ [ImagesNext]_imageVars => PullInv'
<1> SUFFICES ASSUME ImagesInv, PullInv, [ImagesNext]_imageVars PROVE PullInv'
  OBVIOUS
<1>1. CASE UNCHANGED <<store, probe>>
  BY <1>1 DEF PullInv
<1>2. ASSUME NEW w \in Builders, ProbeRuns(w) PROVE PullInv'
  <2>1. Image(w) \in Registry
    BY <1>2, ProbeFacts DEF ProbeRuns, Pulling
  <2> QED BY <1>2, <2>1 DEF ProbeRuns, PullInv, ProbeStates
<1>3. ASSUME NEW w \in Builders, ProbeStops(w) PROVE PullInv'
  BY <1>3 DEF ProbeStops, PullInv, ProbeStates
<1>4. ASSUME NEW w \in Builders, ProbeRemoved(w) PROVE PullInv'
  BY <1>4 DEF ProbeRemoved, PullInv, ProbeStates
<1>5. ASSUME NEW w \in Builders, GuestBuilds(w) PROVE PullInv'
  BY <1>5 DEF GuestBuilds, PullInv
<1>6. ASSUME NEW p \in Probes, ProbeExits(p) PROVE PullInv'
  BY <1>6 DEF ProbeExits, PullInv, ProbeStates
<1> QED BY <1>1, <1>2, <1>3, <1>4, <1>5, <1>6
        DEF ImagesNext, imageVars, PullBegins, BuildBegins, ProbeNotRun, BuildReads, BuilderKilled

LEMMA PullInvInit == ImagesInit => PullInv
  BY DEF ImagesInit, PullInv, ProbeStates

(* A build that is a success had every image that a stage of the file it   *)
(* built starts from, but for one the stage is named after (handle_build): *)
(* for every set of Dockerfiles, in the root of the context or below it,   *)
(* with or without flags, with any build arguments, also where builds of   *)
(* one Dockerfile overlap.                                                 *)
THEOREM BuildsHaveBases == ImagesSpec => BuildHasBases
<1> DEFINE HasBases(w) ==
             work[w].at = "guest" /\ work'[w].at = "idle" /\ work'[w].ok
             => LET from == GuestFile(w).from
                IN  ExternalBases(from) \ (Vars \cup SelfNamed(from)) \subseteq store'
<1>1. ASSUME ImagesInv, PullInv, [ImagesNext]_imageVars, NEW w \in Builders,
             work[w].at = "guest", work'[w].at = "idle", work'[w].ok
      PROVE  ExternalBases(GuestFile(w).from) \ (Vars \cup SelfNamed(GuestFile(w).from)) \subseteq store'
  <2> DEFINE d == GuestFile(w)
             from == d.from
             args == work[w].args
  <2>1. work[w].path \in Paths
    BY <1>1 DEF ImagesInv, WorkOK, WorkFits
  <2>2. from \in Seq(Lines)
    BY <1>1, <2>1, HandFacts DEF File
  <2>3. GuestPulls(w) \subseteq Registry \cup store /\ store' = store \cup GuestPulls(w)
    <3>1. ~Resting.ok /\ work = [v \in Builders |-> work[v]]
      BY <1>1 DEF Resting, ImagesInv, WorkOK
    <3>2. ~Rest(w) /\ work' # work
      BY <1>1, <3>1 DEF Rest
    <3>3. ASSUME NEW v \in Builders, NEW r, work' = [work EXCEPT ![v] = r] PROVE v = w
      BY <1>1, <3>1, <3>3
    <3>4. ASSUME NEW v \in Builders,
                 \/ \E i \in Registry : PullBegins(v, i)
                 \/ \E p \in Paths, b \in BuildArgs : BuildBegins(v, p, b)
                 \/ ProbeNotRun(v) \/ ProbeRuns(v) \/ ProbeStops(v) \/ ProbeRemoved(v)
                 \/ BuildReads(v) \/ BuilderKilled(v)
          PROVE  FALSE
      <4>1. v = w
        <5> SUFFICES ASSUME v # w PROVE work'[w] = work[w]
          BY <1>1
        <5>1. CASE \/ \E i \in Registry : PullBegins(v, i)
                   \/ \E p \in Paths, b \in BuildArgs : BuildBegins(v, p, b)
          BY <3>1, <5>1, Zenon DEF PullBegins, BuildBegins, Preprocess, Begins
        <5>2. CASE ProbeRuns(v) \/ ProbeStops(v) \/ BuildReads(v) \/ BuilderKilled(v)
          BY <3>1, <5>2 DEF ProbeRuns, ProbeStops, BuildReads, BuilderKilled, Rest
        <5>3. CASE ProbeNotRun(v) \/ ProbeRemoved(v)
          BY <3>1, <5>3 DEF ProbeNotRun, ProbeRemoved, PullEnds, PullFails, Rest
        <5> QED BY <3>4, <5>1, <5>2, <5>3
      <4> QED BY <1>1, <3>2, <3>4, <4>1
              DEF PullBegins, BuildBegins, ProbeNotRun, ProbeRuns, ProbeStops, ProbeRemoved,
                  BuildReads, BuilderKilled
    <3>5. ASSUME NEW v \in Builders, GuestBuilds(v) PROVE v = w
      BY <3>3, <3>5 DEF GuestBuilds, Rest
    <3>6. GuestBuilds(w)
      BY <1>1, <3>2, <3>4, <3>5 DEF ImagesNext, imageVars, ProbeExits
    <3> QED BY <3>2, <3>6 DEF GuestBuilds
  <2>4. PICK n \in Nat : from \in [1..n -> Lines]
    BY <2>2
  <2> HIDE DEF from
  <2> SUFFICES ASSUME NEW j \in 1..n, from[j].ref \notin Vars \cup SelfNamed(from),
                      from[j].ref \notin {Scratch} \cup AliasesUpTo(from, j - 1)
               PROVE  from[j].ref \in GuestPulls(w)
    BY <2>3, <2>4 DEF ExternalBases, from
  <2>5. /\ from[j] \in Lines
        /\ from[j].ref \in Registry \cup Local
    BY <2>4 DEF Lines
  <2>6. GuestRef(d, from[j], args) = from[j].ref
    <3>1. ASSUME from[j].flag PROVE FALSE
      <4>1. GuestRef(d, from[j], args) = Flag
        BY <3>1 DEF GuestRef
      <4>2. Flag \notin {None, Scratch} \cup GuestAliases(from, j)
        BY <2>4, ImagesAssumption DEF GuestAliases, Lines
      <4>3. Flag \in GuestPulls(w)
        BY <2>4, <4>1, <4>2 DEF GuestPulls, handle_build_pulls, from
      <4> QED BY <1>1, <2>3, <4>3, ImagesAssumption DEF PullInv
    <3> QED BY <3>1 DEF GuestRef
  <2>7. from[j].ref \notin GuestAliases(from, j)
    <3>1. ASSUME NEW k \in 1..j, from[k].alias = from[j].ref PROVE FALSE
      <4>1. k # j
        BY <2>4, <3>1 DEF SelfNamed
      <4>2. k \in 1..(j - 1) /\ from[k].alias # None
        BY <2>5, <3>1, <4>1, ImagesAssumption
      <4> QED BY <3>1, <4>2 DEF AliasesUpTo
    <3> QED BY <3>1 DEF GuestAliases
  <2> QED BY <2>4, <2>5, <2>6, <2>7, ImagesAssumption DEF GuestPulls, handle_build_pulls, from
<1>2. ImagesInv /\ PullInv /\ [ImagesNext]_imageVars => [\A w \in Builders : HasBases(w)]_imageVars
  BY <1>1
<1> QED BY <1>2, ImagesInvInit, ImagesInvNext, PullInvInit, PullInvNext, PTL
        DEF ImagesSpec, BuildHasBases
=============================================================================
