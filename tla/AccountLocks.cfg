\* Opposite transfers processed by two workers while opposite transfers are inserted.
CONSTANTS
    Accounts = {1, 2}
    Txns = {t1, t2}
    None = None
    Kind <- MCKind
    Amount <- MCAmount
    Source <- MCSource
    Dest <- MCDest
    Currency <- MCCurrency
    Opening <- MCOpening
    Active = {1, 2}
    MaxBalance = 4
    Workers = {w1, w2}
    Strays = {}
    LockKeys = {t1, t2}
    LockKey <- OwnKey
    AutoApproveLimit = 4
    Abandonable = {t1}
    Inserts = {up, down}
    From <- MCFrom
    To <- MCTo
    t1 = t1
    t2 = t2
    usd = usd
    up = up
    down = down

SPECIFICATION LockFairSpec

INVARIANTS
    CirclesDescend

PROPERTIES
    CallsReturn
    InsertsEnd
