\* Two transactions of one account, at most two messages of them, two tasks.
CONSTANTS
    Workers = {w1, w2}
    Txns = {t1, t2}
    Strays = {}
    LockKeys = {t1, t2}
    LockKey <- OwnKey
    None = None
    Partitions = {p1}
    Incoming <- NoProducers
    Malformed = Malformed
    Empty = Empty
    Abandonable = {t1}
    Poison = {}
    MaxRetries = 0
    MaxFaults = 1
    Target <- OneTarget
    MaxLog = 2
    p1 = p1

SPECIFICATION PlatformFairSpec

INVARIANTS
    NothingLost

PROPERTIES
    SubmittedIsDecided

CHECK_DEADLOCK FALSE
