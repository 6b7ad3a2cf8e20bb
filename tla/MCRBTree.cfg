SPECIFICATION Spec
CONSTANTS
    Nodes = {n1, n2, n3, n4, n5, n6}
    Sentinel = sentinel
    Null = null
    M = 4
VIEW Unnamed
INVARIANTS RedBlack
PROPERTIES IsQueue WalksQueue
