\* One reportable transaction, a CTR every day of two ticks.
CONSTANTS
    Txns = {t1}
    Kind <- MCKind
    Currency <- MCCurrency
    Amount <- MCAmount
    Threshold = 2
    Limit = 2
    Day = 2
    Horizon = 3
    None = None
    t1 = t1
    t2 = t2

SPECIFICATION Spec

INVARIANTS
    EverySettledIsReported

CHECK_DEADLOCK FALSE
