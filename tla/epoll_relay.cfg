CONSTANTS
    p1 = p1
    p2 = p2
    p3 = p3
    f1 = f1
    f2 = f2
    f3 = f3
    NoPeer = NoPeer
    NoFd = NoFd
    Peer <- Three
    Talker <- Two
    Fds <- Fds3
    MaxBytes = 2
    SndBuf = 2
    RecvBuf = 2
    KernelErrors = TRUE
SYMMETRY Symmetry
SPECIFICATION Spec
CONSTRAINT FewBytes
INVARIANT Inv
PROPERTIES ImplementsRelay EventOwner
CONSTANT MaxEvents = 2
