---------------------------- MODULE MCDockerShim ----------------------------
(***************************************************************************)
(* The Docker shim on small instances.  Containers and images have no      *)
(* state in common, and docker events does not touch the cache, so each    *)
(* behaviour is about one of three subjects:                               *)
(*   cache    two docker processes and the cache of containers             *)
(*   events   one docker process that starts and removes, docker events    *)
(*   images   two docker processes that pull and build                     *)
(***************************************************************************)
EXTENDS DockerCache, DockerImages, TLC

CONSTANTS Subjects, C1, n1, Reg1, Reg2, Loc1, Loc2, Var1, PathA, PathB, PathC, Probe1

VARIABLE subject

vars == <<subject, cacheVars, imageVars>>

Given(v) == [x \in Vars |-> v]

Dockerfile(from, global, late) == [from |-> from, global |-> Given(global), late |-> Given(late)]

(* A stage on an alias, an image named like a later alias, a stage named   *)
(* after its image; a variable with a default; a flag, and a directory of  *)
(* the context below its root, which has a namesake of the file.           *)
MCDockerfiles ==
    PathA :> Dockerfile(<<From(FALSE, Loc1, None), From(FALSE, Reg1, Loc1),
                          From(FALSE, Loc1, None), From(FALSE, Scratch, None),
                          From(FALSE, Loc2, Loc2)>>, None, None)
    @@ PathB :> Dockerfile(<<From(FALSE, Reg2, Loc2), From(FALSE, Var1, None)>>, Loc2, Reg1)
    @@ PathC :> Dockerfile(<<From(TRUE, Reg2, Loc2), From(FALSE, Loc2, None)>>, None, Reg2)

MCAllAtRoot == [p \in DOMAIN MCDockerfiles |-> p]
MCAtRoot == [MCAllAtRoot EXCEPT ![PathC] = PathB]

MCBuildArgs == {Given(None), Given(Reg1)}
MCProbeOf == [i \in Registry |-> Probe1]

Init ==
    /\ subject \in Subjects /\ CacheInit /\ ImagesInit
    /\ store \subseteq IF subject = "images" THEN {Loc1} ELSE {}

(* About the cache or events; about images.                                *)
OnContainers(step) == step /\ UNCHANGED <<subject, imageVars>>
OnImages(step) == step /\ UNCHANGED <<subject, cacheVars>>

Starts(c) ==
    \/ \E n \in Names : RunBegins(c, n, TRUE, FALSE) \/ StartRuns(c, n) \/ RmKillsProxy(c, n, TRUE)
    \/ RunStarts(c) \/ RmRuns(c) \/ CacheLoad(c) \/ CacheTruncate(c) \/ CacheWrite(c)

Next ==
    \/ subject = "cache" /\ \E c \in Clis : OnContainers(Command(c))
    \/ subject = "events" /\ OnContainers(Starts(C1) \/ Events)
    \/ subject # "images" /\ OnContainers(Environment)
    \/ subject = "images" /\ OnImages(ImagesNext)

Spec == Init /\ [][Next]_vars /\ CacheFairness

(* The instance is cut down to                                             *)
(*   lost writes of one name: another would be its mirror image, and once  *)
(*     all entries may be lost the properties of the cache say nothing;    *)
(*   inspections up to their answer: a process that has got one is as good *)
(*     as one that has not asked;                                          *)
(*   build arguments that occur in the file;                               *)
(*   docker pull of one image, either for builds.                          *)
Instance ==
    /\ file.lost \subseteq {n1}
    /\ \A c \in Clis : cli[c].op # "found"
    /\ \A w \in Builders :
          IF Building(w) THEN needs_subst(Dockerfiles[work[w].path]) \/ work[w].args = Given(None)
          ELSE work[w].todo \in {<<>>, <<Reg1>>}

TypeOK == CacheTypeOK /\ ImagesTypeOK
=============================================================================
