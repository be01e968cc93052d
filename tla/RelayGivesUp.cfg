\* One relay, one event, one outage that ends.
CONSTANTS
    None = None
    Relays = {r1}
    Events = {1}
    Key <- MCKey
    BatchSize = 2
    RetryLimit = 1
    MaxOutages = 1
    MaxFaults = 0
    a = a
    b = b

SPECIFICATION FairSpec

PROPERTIES
    EveryEventDelivered

CHECK_DEADLOCK FALSE
