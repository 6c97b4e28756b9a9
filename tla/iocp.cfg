SPECIFICATION IocpSpec
CONSTANTS
    Peer = {a, b, c}
    Talker = {a, b}
    Leaver = {b}
    NoPeer = NoPeer
    MaxMsgs = 3
    Depth = 2
    SndBuf = 1
CONSTRAINT Bound
INVARIANTS
    IocpInv
    InOrder
PROPERTIES
    Sent
CHECK_DEADLOCK FALSE
