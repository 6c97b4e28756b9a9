CONSTANTS
    p1 = p1
    p2 = p2
    p3 = p3
    f1 = f1
    f2 = f2
    f3 = f3
    NoPeer = NoPeer
    NoFd = NoFd
    Peer <- Two
    Talker <- One
    Fds <- Fds2
    MaxBytes = 2
    SndBuf = 2
    RecvBuf = 2
    KernelErrors = FALSE
SPECIFICATION FairSpec
PROPERTIES Reaped Flushed Heard
