\* Three named profiles and two subnets for them, one command at a time, while
\* vm.conf files are also rewritten by others.
SPECIFICATION AllocSpec
CONSTANTS
    Named = {"build", "a", "b"}
    BuildProfile = "build"
    LastSubnet = 107
    Commands = {1}
    Overlap = FALSE
    Rewrites = TRUE
INVARIANTS DistinctSubnets
PROPERTIES AllocationIsFree
