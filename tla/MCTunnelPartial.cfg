CONSTANTS
    Conn <- Conns
    Together <- OneOnly
    BUFFER = 2
    IV = 1
    HEADER = 1
    Up = 2
    Down = 1
    Breakable <- NoSocket
    Endable <- NoSocket
SPECIFICATION Spec
INVARIANTS LocalDataReachesRemote
CHECK_DEADLOCK FALSE
