SPECIFICATION FairSpec
CONSTANTS
    Num = 4
    SndCap = 4
    MayReset = TRUE
    Heap = {"null", "garbage"}
    NoReply = NoReply
CHECK_DEADLOCK FALSE
INVARIANTS ContextInv RepliesMatch NoAbort StoppedWhenFreed ListensForReplies
PROPERTIES KeepsPromise Finishes
