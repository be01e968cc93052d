\* Two workers; every way to move or refuse money, and ids that share a lock key.
CONSTANTS
    Accounts = {1, 2, 3}
    Txns = {t1, t2, t3, t4, t5}
    None = None
    Kind <- MCKind
    Amount <- MCAmount
    Source <- MCSource
    Dest <- MCDest
    Currency <- MCCurrency
    Opening <- MCOpening
    Active = {1, 2}
    MaxBalance = 5
    Workers = {w1, w2}
    Strays = {stray}
    LockKeys = {t1, t2, t3}
    LockKey <- SharedKey
    AutoApproveLimit = 4
    Abandonable = {t1, t3}
    t1 = t1
    t2 = t2
    t3 = t3
    t4 = t4
    t5 = t5
    stray = stray
    usd = usd

SPECIFICATION Spec
SYMMETRY Symmetry

INVARIANTS
    TypeOK
    PostedOnce
    LedgerChain
    Reconciled
    Solvent
    AuditedOnce
    ReadsCurrent
    NoCircularWait

PROPERTIES
    TerminalIsFinal
    ReturnsMean
    BookSpec
    CallSpec
