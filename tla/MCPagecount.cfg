SPECIFICATION Spec
CONSTANTS
    Workers = {w1, w2}
    Clients = {1, 2, 3}
    Locations = {l1, l2}
    W = 2
    Slab = 2
    Rows = {1, 2}
    Requests = 3
SYMMETRY Alike
CHECK_DEADLOCK FALSE
INVARIANTS TypeOK CountsRight PageWhole PrefixInPlace LengthKept
