\* One container, run again and again while the watcher reconnects once and its
\* old handler still runs; CLIs are killed and runs refused.
SPECIFICATION PortFairSpec
CONSTANTS
    h1 = h1
    NumNames = 1
    ChanCap = 2
    WireCap = 1
    MaxConns = 2
    EveryStatusSeen = TRUE
    HostPorts = {h1}
    ContainerPorts = {c1, c2}
    None = None
    Host <- OneHost
    CliReliable = FALSE
INVARIANTS StreamLeadsToSample
PROPERTIES TrackedExitFreesPort
CHECK_DEADLOCK FALSE
