SPECIFICATION FairSpec
CHECK_DEADLOCK FALSE
CONSTANTS
    Sizes = {0, 2, 3, 5}
    TX_HWM = 4
    TX_LWM = 2
    MAX_RX_QUEUE_SIZE = 1
    MaxLines = 3
    MaxFrames = 2
    MaxEvents = 3
    WireCap = 1
    MaxAddrs = 1
INVARIANT Inv
PROPERTIES
    ProducerResumes
    Printed
    Delivered
    Exits
