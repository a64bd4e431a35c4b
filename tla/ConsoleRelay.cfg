\* A ring of three bytes that wraps twice, one client after another.
SPECIFICATION FairSpec
CONSTANTS
    Capacity = 3
    Bytes = {0, 1, 2, 3, 4, 5, 6, 7}
    Zero = 0
    SockCap = 2
    ClientCap = 2
    MaxOut = 7
    MaxClients = 2
INVARIANTS IInv ReplayIsTail SliceKeepsTail FirstClientSeesAll
PROPERTIES GuestIsNeverHeldUp
CHECK_DEADLOCK FALSE
