\* "bulk-deregistered when the project stops" (DaemonCmd::TrackComposeProject).
SPECIFICATION ComposeSpec
CONSTANTS
    HostPorts = {h1, h2}
    ContainerPorts = {c1, c2}
    Projects = {p1, p2}
    None = None
    Clis = {1}
    Subcommands = {"up", "up --foreground", "down", "ps"}
    OwnProjects = TRUE
INVARIANTS RunningProjectKeepsPorts
CHECK_DEADLOCK FALSE
