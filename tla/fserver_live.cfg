SPECIFICATION FairFew
CHECK_DEADLOCK FALSE
CONSTANTS
    a = a
    b = b
    c = c
    d = d
    e = e
    Peer = {a, b, c}
    Talker = {b, c}
    Leaver = {a}
    FrameSize <- SizesOfPeers
    TX_HWM_BYTES = 2
    MAX_PAYLOAD = 3
    MaxFrames = 2
    WireCap = 1
    OwnerStops = TRUE
PROPERTIES
    BroadcastEnds
    Delivered
    StopEnds
