CONSTANTS
    p1 = p1
    p2 = p2
    p3 = p3
    NoPeer = NoPeer
    Peer <- Three
    Talker <- Two
    Kinds <- Both
    MaxBytes = 2
    SndBuf = 1
    RecvBuf = 2
    FdCap = 2
    KernelErrors = TRUE
    OwnerStops = TRUE
SPECIFICATION FairSpec
CONSTRAINT FewBytes
INVARIANT Inv
PROPERTIES ImplementsRelay Heard Reaped StopEnds
CHECK_DEADLOCK FALSE
