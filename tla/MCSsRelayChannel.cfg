\* Two connections, from a white-listed and from a denied peer.
SPECIFICATION Spec
CONSTANTS
    c1 = c1
    c2 = c2
    c3 = c3
    lo = lo
    p1 = p1
    p2 = p2
    Conn <- TwoConns
    Addr = {p1, p2}
    PeerOf <- ListedPeers
    Loopback = lo
    AclDenied = {p2}
    AclWhite = {p1}
    BUF_SIZE = 2
    MAX_FRAG = 1
    NONCE = 1
    HEADER = 1
    UpLen = 2
    DownLen = 1
    MAX_TRIES = 0
    MALICIOUS = 2
    MALFORMED = 1
    MAX_ENTRIES = 3
PROPERTIES
    ImplementsChannel
