\* A user who lets a daemon finish booting and finish shutting down before the
\* next command; two daemons, which may crash anywhere, failed boots and failed writes.
SPECIFICATION Spec
CONSTANTS
    Home <- MCHome
    DataDir <- MCDataDir
    Base = 10
    Commands = {c1}
    MaxDaemons = 2
    VolumeArgs <- MCVolumeArgs
    Disks = {NoDisks, x1}
    NoDisks = NoDisks
    Patience = 3
    Deadlines = TRUE
    WriteFaults = {"mounts", "extra"}
INVARIANTS OneVm
PROPERTIES OkMeansConnectable OkMeansSameConfig MountsReachHost HomeMountsAreAccepted StopMeansVmOff DiskIsNotOverwritten
CHECK_DEADLOCK FALSE
