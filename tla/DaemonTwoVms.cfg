\* "Guard against two daemons racing" (daemon::run), one command at a time.
SPECIFICATION Spec
CONSTANTS
    Home <- MCHome
    DataDir <- MCDataDir
    Base = 10
    Commands = {c1}
    MaxDaemons = 2
    VolumeArgs <- NoVolumeArgs
    Disks = {NoDisks, x1}
    NoDisks = NoDisks
    Patience = 1
    Deadlines = FALSE
    WriteFaults = {}
INVARIANTS OneVm
CHECK_DEADLOCK FALSE
