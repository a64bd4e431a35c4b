\* One host port, three threads: a forward is dropped, replaced and registered
\* again while its predecessors still run.
SPECIFICATION FairSpec
CONSTANTS
    HostPorts = {h1}
    ContainerPorts = {c1, c2}
    Projects = {p1}
    None = None
    MaxProxies = 3
    MaxBacklog = 1
INVARIANTS IInv TrafficMatchesTable
PROPERTIES BookSpec FreshForwardComesUp DroppedListenerStops
CHECK_DEADLOCK FALSE
