\* Two tasks, one partition.
CONSTANTS
    Workers = {w1, w2}
    Txns = {t1, t2}
    Strays = {}
    LockKeys = {t1, t2}
    LockKey <- MCLockKey
    None = None
    Partitions = {p1}
    Incoming <- TwoTransactions
    Malformed = Malformed
    Empty = Empty
    Abandonable = {}
    Poison = {}
    MaxRetries = 1
    MaxFaults = 2
    t1 = t1
    t2 = t2
    bad = bad
    p1 = p1

SPECIFICATION Spec

INVARIANTS
    SkippedIsProcessed

CHECK_DEADLOCK FALSE
