SPECIFICATION FairSpec
CONSTANTS
    Conns = {c1, c2}
    Lines = 2
    Window = 1
    ReadMax = 2
    InCap = 1
    OutCap = 3
    SndCap = 1
    MAX_CONN = 7
CHECK_DEADLOCK FALSE
INVARIANT NothingDropped
PROPERTIES EveryLineEchoed EndedIsClosed
