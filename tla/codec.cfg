SPECIFICATION FairCodec
CHECK_DEADLOCK FALSE
CONSTANTS
    Base = 2
    HeaderLen = 2
    MAX_PAYLOAD = 2
    Payload <- ShortPayloads
    MaxPayloads = 2
    LinkCap = 3
INVARIANTS
    CodecTypeOK
PROPERTIES
    ImplementsChannel
    AllReceived
