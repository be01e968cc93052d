\* One relay, two events of one source account.
CONSTANTS
    None = None
    Relays = {r1}
    Events = {1, 2}
    Key <- MCKey
    BatchSize = 2
    RetryLimit = 1
    MaxOutages = 1
    MaxFaults = 0
    a = a
    b = b

SPECIFICATION FairSpec

PROPERTIES
    OrderPerKey

CHECK_DEADLOCK FALSE
