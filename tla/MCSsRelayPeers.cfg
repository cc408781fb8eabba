\* Three connections of one peer: shared block list, resolver and shutdown.
SPECIFICATION Spec
CONSTANTS
    c1 = c1
    c2 = c2
    c3 = c3
    lo = lo
    p1 = p1
    p2 = p2
    Conn <- ThreeConns
    Addr = {lo, p1}
    PeerOf <- SamePeer
    Loopback = lo
    AclDenied = {}
    AclWhite = {}
    BUF_SIZE = 2
    MAX_FRAG = 1
    NONCE = 1
    HEADER = 1
    UpLen = 0
    DownLen = 0
    MAX_TRIES = 1
    MALICIOUS = 2
    MALFORMED = 1
    MAX_ENTRIES = 3
INVARIANTS
    FreedAtExit
    BlockListSound
    BlockedForCause
