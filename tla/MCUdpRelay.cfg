SPECIFICATION Spec
CONSTANTS
    Client = {c1, c2}
    Family = {"inet"}
    Remote = {r1, r2, r3}
    NULL = NULL
    MAX_ENTRIES = 3
    MaxDatagrams = 6
SYMMETRY Symmetry
INVARIANTS
    CacheOwnsRemotes
    AnswersReachTheirClient
    EvictionNeedsAFullRound
CHECK_DEADLOCK FALSE
