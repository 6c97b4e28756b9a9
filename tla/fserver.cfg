SPECIFICATION SpecFew
CHECK_DEADLOCK FALSE
CONSTANTS
    a = a
    b = b
    c = c
    d = d
    e = e
    Peer = {a, b, d, e}
    Talker = {a, b, d, e}
    Leaver <- Two
    FrameSize <- SizesOfPeers
    TX_HWM_BYTES = 2
    MAX_PAYLOAD = 3
    MaxFrames = 2
    WireCap = 1
    OwnerStops = TRUE
INVARIANTS
    Inv
    DeadWakeAll
    StoppedIsQuiet
