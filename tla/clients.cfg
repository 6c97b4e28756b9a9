SPECIFICATION AllSpec
CONSTANTS
    Kinds = {"poll", "epoll", "select", "iocp", "blocking"}
    MaxLines = 3
    LineSize = 2
    SndBuf = 3
    MaxIn = 2
CONSTRAINT Few
INVARIANTS LinesInOrder OneSend
PROPERTIES Printed Sent Ends
CHECK_DEADLOCK FALSE
