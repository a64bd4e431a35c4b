\* Two profiles and three interfaces: starts that fail, VMs that are stopped or
\* crash and start again, restarts of the helper.
SPECIFICATION Spec
CONSTANTS
    Profiles = {a, b}
    NoProfile = NoProfile
    MaxUtuns = 3
    HasPrefix = TRUE
INVARIANTS KnownVmHasNetwork DadIsUndisturbed
