\* Two IDs and three queries, so that an ID comes round while its first reply
\* is still on the way.  Every query may be asked, answered and the VPN stopped
\* for good, so the system may stop.
SPECIFICATION MCSpec
CONSTANTS
    IdSpace = 2
    MaxQueries = 3
    MaxArrivals = 3
    LocalIP <- Tun
    mLocalServicePort = 10993
    PeerIP <- Peers
    Port <- Ports
    HeaderLength <- Lengths
    Payload <- Payloads
    Message <- Messages
    BufferSize = 43
    MaxReplies = 2
    ARRAY = 2000
    OFFSET = 28
    MAX_SIZE = 512
    Place <- Places
    DataSize <- Sizes
    Cut <- Cuts
    MaxNames = 4
INVARIANTS
    NoCrossTalk
    AnsweredAtMostOnce
    RewrittenPacketsAreRight
    MessagesAreReadRight
PROPERTIES
    QueuedReplyIsDelivered
CHECK_DEADLOCK FALSE
