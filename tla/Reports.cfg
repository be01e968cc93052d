\* Two transactions with three high-value entries, and reports over two days.
CONSTANTS
    Txns = {t1, t2}
    Kind <- MCKind
    Currency <- MCCurrency
    Amount <- MCAmount
    Threshold = 2
    Limit = 2
    Day = 2
    Horizon = 3
    None = None
    t1 = t1
    t2 = t2

SPECIFICATION Spec

INVARIANTS
    TypeOK
    CtrMissesOnlyUndecided
    HighValueMissesOnlyOpen

PROPERTIES
    SummariesGrow

CHECK_DEADLOCK FALSE
