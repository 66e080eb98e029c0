CONSTANTS
    a1 = a1
    a2 = a2
    Addrs <- MCAddrs
    MaxConns = 2
SPECIFICATION FairSpec
INVARIANTS
    TypeOK
PROPERTIES
    NoAcceptAfterClose
    EveryConnectionAccepted
    CloseEndsLoops
CHECK_DEADLOCK FALSE
