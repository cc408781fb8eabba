\* Chunks of one or two bytes, cut into pieces of up to six bytes, beside a
\* connection whose peer does not have the key and one with a salt that was
\* used before.  Datagrams have four salts.  A half of the filter takes two.  A
\* sender may stop at any time.
SPECIFICATION MCSpec
CONSTANTS
    c1 = c1
    c2 = c2
    c3 = c3
    s1 = s1
    s2 = s2
    s3 = s3
    s4 = s4
    Conn = {c1, c2, c3}
    SaltOf <- Salts
    Garbled = {c2}
    Salt = {s1, s2, s3, s4}
    FILTER_ENTRIES = 4
    SALT_LEN = 1
    TAG_LEN = 1
    CHUNK_SIZE_LEN = 2
    CHUNK_SIZE_MASK = 2
    BUF_SIZE = 6
    MaxChunks <- Chunks
    Cipher = {"aead", "stream"}
    MaxDelivered = 6
INVARIANTS
    NoChunkFails
    HandsOverWhatArrived
    NonceUsedOnce
    OnlyProvenSaltsAreAdded
    RecentSaltIsRefused
    RepeatsNeedAFullHalf
    DamageIsNotRemembered
CHECK_DEADLOCK FALSE
