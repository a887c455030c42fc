SPECIFICATION RxSpec
CONSTANTS
    Driver = "vesc"
    RECV_BUFFER_SIZE = 3
INVARIANT ParserOwnsBuffer
