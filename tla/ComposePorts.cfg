\* Two commands on projects of their own that ask for the same or other ports.
SPECIFICATION ComposeFairSpec
CONSTANTS
    HostPorts = {h1, h2}
    ContainerPorts = {c1, c2}
    Projects = {p1, p2}
    None = None
    Clis = {1, 2}
    Subcommands = {"up --foreground", "down"}
    OwnProjects = TRUE
INVARIANTS ActivePortHasOwner
PROPERTIES CommandsEnd
CHECK_DEADLOCK FALSE
