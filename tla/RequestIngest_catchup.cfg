SPECIFICATION FairSpec
CONSTANTS
    v1 = v1
    v2 = v2
    Consumers = {c1}
    Events = {v1, v2}
    MaxEntries = 2
    Batch = 2
    Keyed = {}
    Unattributed = {}
    Dangling = {}
    Malformed = {}
    FaultKinds = {"shutdown"}
    MaxFaults = 1
    None = None
CHECK_DEADLOCK FALSE

PROPERTY CatchesUp
