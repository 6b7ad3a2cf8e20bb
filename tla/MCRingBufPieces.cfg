SPECIFICATION Spec
CONSTANTS
    Bytes = {"a", "b", "nl"}
    NL = "nl"
    Size = 4
    M = 16
    LineSz = 3
    Chunks <- MCPieces
PROPERTY FifoUntilOvertaken
CHECK_DEADLOCK FALSE
