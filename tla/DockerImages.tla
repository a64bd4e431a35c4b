---------------------------- MODULE DockerImages ----------------------------
(***************************************************************************)
(* docker pull and docker build (pelagos-docker/src/main.rs).  The shim    *)
(* pulls an image by running a probe container of a fixed name and         *)
(* removing it, and builds from a copy of the Dockerfile in which the      *)
(* build arguments are resolved, written next to the original, or else     *)
(* under /tmp.  `pelagos build` (pelagos-mac/src/main.rs) hands on the     *)
(* base name of the file only.                                             *)
(***************************************************************************)
EXTENDS BaseImages

CONSTANTS
    Builders,     \* docker processes that may run at the same time
    Dockerfiles,  \* path -> its FROM lines and ARG defaults
    AtRoot,       \* path -> the Dockerfile with its base name in the root of the
                  \* context, None if there is none
    Slots,        \* /tmp/pelagos-dockerfile-<milliseconds>.resolved
    BuildArgs,    \* build arguments a build may be given
    PullProbe,    \* the probe container of docker pull
    ProbeOf,      \* image -> the probe container of docker build for it
    OwnFile       \* whether no two builds use one Dockerfile or slot at a time

(* References and aliases are words of different kinds, and a flag is no   *)
(* image.                                                                  *)
Lines == [flag : BOOLEAN, ref : Registry \cup Local \cup Vars \cup {Scratch},
          alias : Local \cup {None}]
Values == Registry \cup Local \cup {None}
File == [from : Seq(Lines), global : [Vars -> Values], late : [Vars -> Values]]

ASSUME ImagesAssumption ==
    /\ {Scratch, Flag, None} \cap (Registry \cup Local \cup Vars) = {}
    /\ Flag # Scratch /\ Flag # None /\ Scratch # None
    /\ None \notin DOMAIN Dockerfiles \cup Slots /\ DOMAIN Dockerfiles \cap Slots = {}
    /\ BuildArgs # {} /\ BuildArgs \subseteq [Vars -> Values]
    /\ \A p \in DOMAIN Dockerfiles : Dockerfiles[p] \in File /\ Dockerfiles[p].from # <<>>
    /\ AtRoot \in [DOMAIN Dockerfiles -> DOMAIN Dockerfiles \cup {None}]
    /\ OwnFile \in BOOLEAN

VARIABLES
    store,   \* images in the VM
    probe,   \* probe containers as pelagos has them
    temp,    \* the resolved copies: next to a path, and in the slots
    work     \* docker process -> where it is

imageVars == <<store, probe, temp, work>>

Paths == DOMAIN Dockerfiles
Probes == {PullProbe} \cup {ProbeOf[i] : i \in Registry}
NoFile == [from |-> <<>>, global |-> [v \in Vars |-> None], late |-> [v \in Vars |-> None]]
Files == {NoFile} \cup {preprocess_dockerfile_args(Dockerfiles[p], b) : p \in Paths, b \in BuildArgs}

Resting == [at |-> "idle", path |-> None, file |-> None, args |-> CHOOSE b \in BuildArgs : TRUE,
            todo |-> <<>>, ok |-> FALSE]

Numbers == UNION {1..Len(Dockerfiles[p].from) : p \in Paths} \cup {1}

ImagesTypeOK ==
    /\ store \subseteq Registry \cup Local
    /\ probe \in [Probes -> {"gone", "running", "exited"}]
    /\ temp \in [Paths \cup Slots -> Files]
    /\ work \in [Builders -> [at : {"idle", "read", "run", "stop", "rm", "guest"},
                              path : Paths \cup {None}, file : Paths \cup Slots \cup {None},
                              args : BuildArgs,
                              todo : UNION {[S -> Registry] : S \in SUBSET Numbers}, ok : BOOLEAN]]

ImagesInit ==
    /\ store \in SUBSET Local
    /\ probe = [p \in Probes |-> "gone"]
    /\ temp = [k \in Paths \cup Slots |-> NoFile]
    /\ work = [w \in Builders |-> Resting]

Rest(w) == work' = [work EXCEPT ![w] = Resting]

Building(w) == work[w].path # None

-----------------------------------------------------------------------------
(* The probe: pelagos run --detach, stop, rm; only the first one counts.   *)

(* The image to be pulled now.                                             *)
Image(w) == work[w].todo[Min(DOMAIN work[w].todo)]

ProbeName(w) == IF Building(w) THEN ProbeOf[Image(w)] ELSE PullProbe

PullBegins(w, image) ==
    /\ work[w].at = "idle"
    /\ work' = [work EXCEPT ![w] = [Resting EXCEPT !.at = "run", !.todo = <<image>>]]
    /\ UNCHANGED <<store, probe, temp>>

(* A file as it was, or removed or emptied: what ignored errors leave.     *)
Left(k) == {temp[k], NoFile}

(* A pull that fails is the end of it; a build removes its resolved copy.  *)
PullFails(w) ==
    /\ Rest(w)
    /\ IF work[w].file # None
       THEN \E left \in Left(work[w].file) : temp' = [temp EXCEPT ![work[w].file] = left]
       ELSE UNCHANGED temp

(* pelagos cannot be started: nothing is stopped or removed.               *)
ProbeNotRun(w) ==
    /\ work[w].at = "run"
    /\ PullFails(w)
    /\ UNCHANGED <<store, probe>>

(* The run pulls the image; it fails when the name is in use, or for other *)
(* reasons.                                                                *)
ProbeRuns(w) ==
    /\ work[w].at = "run"
    /\ \/ /\ probe[ProbeName(w)] = "gone"
          /\ probe' = [probe EXCEPT ![ProbeName(w)] = "running"]
          /\ store' = store \cup {Image(w)}
          /\ work' = [work EXCEPT ![w].at = "stop", ![w].ok = TRUE]
       \/ /\ work' = [work EXCEPT ![w].at = "stop", ![w].ok = FALSE]
          /\ UNCHANGED <<store, probe>>
    /\ UNCHANGED temp

(* Whether pelagos stop and pelagos rm succeed is not looked at.           *)
ProbeStops(w) ==
    /\ work[w].at = "stop"
    /\ \/ UNCHANGED probe
       \/ /\ probe[ProbeName(w)] = "running"
          /\ \E left \in {"gone", "exited"} : probe' = [probe EXCEPT ![ProbeName(w)] = left]
    /\ work' = [work EXCEPT ![w].at = "rm"]
    /\ UNCHANGED <<store, temp>>

(* The end of one pull: a build goes on to the next base image, or builds. *)
PullEnds(w) ==
    LET todo == work[w].todo
        rest == DOMAIN todo \ {Min(DOMAIN todo)}
    IN
    IF Building(w) /\ work[w].ok
    THEN /\ work' = [work EXCEPT ![w].todo = [i \in rest |-> todo[i]],
                        ![w].at = IF rest = {} THEN "guest" ELSE "run"]
         /\ UNCHANGED temp
    ELSE PullFails(w)

(* pelagos rm refuses a running container.                                 *)
ProbeRemoved(w) ==
    /\ work[w].at = "rm"
    /\ \/ UNCHANGED probe
       \/ /\ probe[ProbeName(w)] = "exited"
          /\ probe' = [probe EXCEPT ![ProbeName(w)] = "gone"]
    /\ PullEnds(w)
    /\ UNCHANGED store

-----------------------------------------------------------------------------
(* docker build *)

Begins(w, p, b, file) ==
    work' = [work EXCEPT ![w] = [Resting EXCEPT !.at = "read", !.path = p, !.args = b, !.file = file]]

(* preprocess_dockerfile_args: the copy next to the Dockerfile, if that    *)
(* fails one under /tmp, if that fails too none.                           *)
Preprocess(w, p, b, copy) ==
    \/ Begins(w, p, b, p) /\ temp' = [temp EXCEPT ![p] = copy]
    \/ \E left \in Left(p), s \in Slots :
          /\ OwnFile => \A x \in Builders : work[x].file # s
          /\ \/ Begins(w, p, b, s) /\ temp' = [temp EXCEPT ![p] = left, ![s] = copy]
             \/ /\ Begins(w, p, b, None)
                /\ \E rest \in Left(s) : temp' = [temp EXCEPT ![p] = left, ![s] = rest]

(* Broken variant: a copy that is there already is used.                   *)
BuildKeepsCopy(w, p, b) ==
    /\ work[w].at = "idle"
    /\ OwnFile => \A x \in Builders : work[x].path # p
    /\ IF needs_subst(Dockerfiles[p])
       THEN \/ temp[p] # NoFile /\ Begins(w, p, b, p) /\ UNCHANGED temp
            \/ temp[p] = NoFile /\ Preprocess(w, p, b, preprocess_dockerfile_args(Dockerfiles[p], b))
       ELSE Begins(w, p, b, None) /\ UNCHANGED temp
    /\ UNCHANGED <<store, probe>>

BuildBegins(w, p, b) ==
    /\ work[w].at = "idle"
    /\ OwnFile => \A x \in Builders : work[x].path # p
    /\ IF needs_subst(Dockerfiles[p])
       THEN Preprocess(w, p, b, preprocess_dockerfile_args(Dockerfiles[p], b))
       ELSE Begins(w, p, b, None) /\ UNCHANGED temp
    /\ UNCHANGED <<store, probe>>

(* The file that pull_base_images reads.                                   *)
HostFile(w) == IF work[w].file # None THEN temp[work[w].file] ELSE Dockerfiles[work[w].path]

(* A copy that is not there any more is an error.                          *)
BuildReads(w) ==
    /\ work[w].at = "read"
    /\ LET todo == pull_base_images(HostFile(w).from, work[w].args)
       IN  IF HostFile(w) = NoFile THEN Rest(w)
           ELSE work' = [work EXCEPT ![w].todo = todo,
                            ![w].at = IF DOMAIN todo = {} THEN "guest" ELSE "run"]
    /\ UNCHANGED <<store, probe, temp>>

(* build_command: a file outside of the context is copied into its root;   *)
(* of one inside, the guest looks for the base name in the root.           *)
GuestFile(w) ==
    LET found == IF work[w].file \in Slots THEN work[w].file ELSE AtRoot[work[w].path]
    IN  IF found = None THEN NoFile
        ELSE IF work[w].file = None THEN Dockerfiles[found] ELSE temp[found]

(* The guest pulls what it takes for base images (images it has are not    *)
(* pulled again) and builds, or gives up, as without a file.  The copy     *)
(* stays.                                                                  *)
GuestPulls(w) == handle_build_pulls(GuestFile(w), work[w].args)

GuestBuilds(w) ==
    /\ work[w].at = "guest"
    /\ \/ /\ GuestFile(w) # NoFile /\ GuestPulls(w) \subseteq Registry \cup store
          /\ store' = store \cup GuestPulls(w)
          /\ work' = [work EXCEPT ![w] = [Resting EXCEPT !.ok = TRUE]]
       \/ Rest(w) /\ UNCHANGED store
    /\ UNCHANGED <<probe, temp>>

-----------------------------------------------------------------------------
(* The environment: /bin/true ends, a docker process is killed.            *)

ProbeExits(p) ==
    /\ probe[p] = "running"
    /\ \E left \in {"gone", "exited"} : probe' = [probe EXCEPT ![p] = left]
    /\ UNCHANGED <<store, temp, work>>

BuilderKilled(w) ==
    /\ work[w].at # "idle"
    /\ Rest(w)
    /\ UNCHANGED <<store, probe, temp>>

ImagesNext ==
    \/ \E w \in Builders :
          \/ \E i \in Registry : PullBegins(w, i)
          \/ \E p \in Paths, b \in BuildArgs : BuildBegins(w, p, b)
          \/ ProbeNotRun(w) \/ ProbeRuns(w) \/ ProbeStops(w) \/ ProbeRemoved(w)
          \/ BuildReads(w) \/ GuestBuilds(w) \/ BuilderKilled(w)
    \/ \E p \in Probes : ProbeExits(p)

ImagesSpec == ImagesInit /\ [][ImagesNext]_imageVars

-----------------------------------------------------------------------------
(* PROPERTIES *)

Resolved(w) == preprocess_dockerfile_args(Dockerfiles[work[w].path], work[w].args)

(* The guest builds the Dockerfile of this build, resolved with this       *)
(* build's arguments, whatever copies earlier builds, failed or killed,    *)
(* have left next to it or under /tmp (preprocess_dockerfile_args,         *)
(* cmd_build, build_command): unless no copy could be written, or the      *)
(* Dockerfile is in a directory below the context's root.                  *)
BuildUsesOwnArgs ==
    \A w \in Builders :
        /\ work[w].at = "guest"
        /\ needs_subst(Dockerfiles[work[w].path]) => work[w].file # None
        /\ work[w].file \in Slots \/ AtRoot[work[w].path] = work[w].path
        => GuestFile(w) = Resolved(w)

(* handle_build: "Pre-pull all distinct registry base images declared in   *)
(* FROM lines", past aliases, variables and flags: a build that is a       *)
(* success had every image that a stage of the file it built starts from,  *)
(* but for one that the stage is named after.                              *)
BuildHasBases ==
    [][\A w \in Builders :
          work[w].at = "guest" /\ work'[w].at = "idle" /\ work'[w].ok
          => LET from == GuestFile(w).from
             IN  ExternalBases(from) \ (Vars \cup SelfNamed(from)) \subseteq store']_imageVars

(* "Each stage either names a registry image (must be pulled) or           *)
(* references an earlier stage by alias": what is in the VM after the      *)
(* pulls has every base.  Fails: in FROM x AS x the alias counts before    *)
(* the image is looked at.                                                 *)
EveryBaseIsPulled ==
    \A w \in Builders :
        work[w].at = "guest"
        => ExternalBases(GuestFile(w).from) \ Vars \subseteq store \cup GuestPulls(w)

(* "Dockerfile is inside (or relative to) the context; just use its        *)
(* name/rel path": the guest builds the file that the CLI was given.       *)
(* Fails: the base name finds another file, or none, in the root.          *)
NamedFileIsBuilt ==
    \A w \in Builders : work[w].at = "guest" => GuestFile(w) = HostFile(w)

(* "references an earlier stage by alias (already in the local store - no  *)
(* pull needed)".  Fails: after a --platform flag the guest sees neither   *)
(* the image nor the alias, and pulls the flag.                            *)
OnlyBasesArePulled ==
    \A w \in Builders :
        work[w].at = "guest" => GuestPulls(w) \subseteq ExternalBases(GuestFile(w).from)
=============================================================================
