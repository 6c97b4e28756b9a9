CONSTANTS
    p1 = p1
    p2 = p2
    p3 = p3
    f1 = f1
    f2 = f2
    f3 = f3
    NoPeer = NoPeer
    NoFd = NoFd
    Peer <- Two
    Talker <- Two
    Fds <- Fds2
    MaxBytes = 2
    SndBuf = 1
    RecvBuf = 2
    MaxEvents = 4
    KernelErrors = FALSE
SPECIFICATION Spec
INVARIANT FlushNotified
