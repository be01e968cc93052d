\* Two relays, two events of one account; an event can fail until it is given up.
CONSTANTS
    None = None
    Relays = {r1, r2}
    Events = {1, 2}
    Key <- MCKey
    BatchSize = 2
    RetryLimit = 1
    MaxOutages = 2
    MaxFaults = 2
    a = a
    b = b

SPECIFICATION FairSpec

INVARIANTS
    TypeOK
    NothingForgotten
    DuplicatesExplained

PROPERTIES
    OnlyPendingIsSent
    EveryEventResolved
    OutboxSpec

CHECK_DEADLOCK FALSE
