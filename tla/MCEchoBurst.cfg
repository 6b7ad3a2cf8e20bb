SPECIFICATION Spec
CONSTANTS
    Conns = {c1, c2}
    Lines = 3
    Window = 2
    ReadMax = 2
    InCap = 1
    OutCap = 2
    SndCap = 1
    MAX_CONN = 3
SYMMETRY Clients
VIEW Indexed
CHECK_DEADLOCK FALSE
INVARIANTS EchoInv WriteInterestMatchesBacklog NoLateWrite EchoInOrder NothingLost SurvivesItsClients
PROPERTY IsChannel
