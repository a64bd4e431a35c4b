\* Commands that do not meet at the cache file, names that are removed before
\* they are used again, builds that do not use one Dockerfile; processes
\* killed in rm and in pulls and builds; writes, stops and removals that fail.
SPECIFICATION Spec
CONSTRAINT Instance
CONSTANTS
    Subjects = {"cache", "events", "images"}
    C1 = C1
    n1 = n1
    Clis = {C1, C2}
    Names = {n1, n2}
    MaxPids = 1
    Overlap = FALSE
    RmFirst = TRUE
    Killable = {"rm"}
    Registry = {Reg1, Reg2}
    Local = {Loc1, Loc2}
    Vars = {Var1}
    Reg1 = Reg1
    Reg2 = Reg2
    Loc1 = Loc1
    Loc2 = Loc2
    Var1 = Var1
    Scratch = Scratch
    Flag = Flag
    None = None
    PathA = PathA
    PathB = PathB
    PathC = PathC
    Probe1 = Probe1
    PullProbe = PullProbe
    ProbeOf <- MCProbeOf
    Builders = {B1, B2}
    Dockerfiles <- MCDockerfiles
    AtRoot <- MCAtRoot
    Slots = {S1}
    BuildArgs <- MCBuildArgs
    OwnFile = TRUE
INVARIANTS CacheIsAccurate BuildUsesOwnArgs
PROPERTIES InspectIsRight NoProxyLeft FirstStartIsReported BuildHasBases
CHECK_DEADLOCK FALSE
