CONSTANTS
    Conn <- Conns
    Together <- PairOrOne
    BUFFER = 2
    IV = 2
    HEADER = 1
    Up = 2
    Down = 1
    Breakable <- BothOfOne
    Endable <- BothOfOne
SPECIFICATION Spec
INVARIANTS WrittenAsRead HandshakeComesFirst
PROPERTIES AllIsRead
CHECK_DEADLOCK FALSE
