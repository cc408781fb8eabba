\* One connection, all the ways its bytes can be cut up.
SPECIFICATION FairSpec
CONSTANTS
    c1 = c1
    c2 = c2
    c3 = c3
    lo = lo
    p1 = p1
    p2 = p2
    Conn <- OneConn
    Addr = {lo}
    PeerOf <- LocalPeer
    Loopback = lo
    AclDenied = {}
    AclWhite = {}
    BUF_SIZE = 3
    MAX_FRAG = 1
    NONCE = 3
    HEADER = 1
    UpLen = 3
    DownLen = 3
    MAX_TRIES = 1
    MALICIOUS = 2
    MALFORMED = 1
    MAX_ENTRIES = 2
INVARIANTS
    UplinkExact
    DownlinkExact
    CallbacksSafe
    NoLostWakeup
PROPERTIES
    SilentAfterClose
    RelayCompletes
    StopCompletes
