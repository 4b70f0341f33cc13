\* Four calls over a network that holds less than a frame.
CONSTANTS
    Requests <- MCRequests
    Reply <- MCReply
    MaxFrameBody = 2
    BufferBytes = 5
    MaxCalls = 4
SPECIFICATION FramesSpec
INVARIANT
    NothingRefused
PROPERTIES
    ImplementsExchange
    CallsReturn
CHECK_DEADLOCK FALSE
