SPECIFICATION Spec
CONSTANTS
    Num = 3
    SndCap = 3
    MayReset = TRUE
    Heap = {"null"}
    NoReply = NoReply
CHECK_DEADLOCK FALSE
INVARIANT NoStaleEvent
