\* Two tasks, one partition.
CONSTANTS
    Workers = {w1, w2}
    Txns = {t1}
    Strays = {bad}
    LockKeys = {t1, bad}
    LockKey <- MCLockKey
    None = None
    Partitions = {p1}
    Incoming <- MCIncoming
    Malformed = Malformed
    Empty = Empty
    Abandonable = {t1}
    Poison = {bad}
    MaxRetries = 1
    MaxFaults = 1
    t1 = t1
    t2 = t2
    bad = bad
    p1 = p1

SPECIFICATION FairSpec

INVARIANTS
    TypeOK
    PassedOverIsHandled
    SkippedOnlyAfterFault

PROPERTIES
    EveryMessageHandled

CHECK_DEADLOCK FALSE
