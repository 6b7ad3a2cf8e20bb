SPECIFICATION FairSpec
CONSTANTS
    Ids = {u1, u2}
    MaxChanges = 4
    MaxRestarts = 2
CHECK_DEADLOCK FALSE
INVARIANTS TypeOK StaleIsMoved TornIsRepaired
PROPERTIES ReadsGoForward EventuallyInSync
