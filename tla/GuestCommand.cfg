\* An archive of five chunks through sockets of two; two lines of output; two
\* messages of tar, which its pipe can hold; two attempts to reach the guest.
SPECIFICATION Spec
CONSTANTS
    Capacity = 2
    BodyLen = 5
    MaxLines = 2
    MaxErr = 2
    MaxTries = 2
INVARIANTS ZeroMeansWhole OutputIsComplete BuildHasWholeContext
PROPERTIES CommandReturns
CHECK_DEADLOCK FALSE
