SPECIFICATION Spec
CONSTANTS
    M = 8
    Entries = {e1, e2, e3}
    Delays = {0, 1, 3}
    Horizon = 10
SYMMETRY Alike
CHECK_DEADLOCK FALSE
INVARIANTS TypeOK EarlyOnlyAcrossWrap DueOrder WakesInTime
PROPERTIES LeavesOnceRun NoneLeftBehind
