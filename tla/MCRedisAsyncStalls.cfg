SPECIFICATION Spec
CONSTANTS
    Num = 3
    SndCap = 2
    MayReset = FALSE
    Heap = {"null"}
    NoReply = NoReply
CHECK_DEADLOCK FALSE
INVARIANT WriteScheduled
