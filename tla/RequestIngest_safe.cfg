SPECIFICATION Spec
CONSTANTS
    v1 = v1
    v2 = v2
    Consumers = {c1, c2}
    Events = {v1, v2}
    MaxEntries = 3
    Batch = 2
    Keyed = {v1}
    Unattributed = {}
    Dangling = {}
    Malformed = {}
    FaultKinds = {"ensure", "read", "reply", "ack", "publish", "crash", "evict", "revoke"}
    MaxFaults = 2
    None = None
CHECK_DEADLOCK FALSE
SYMMETRY Symmetry
INVARIANTS AckedIsStored OneConsumerPerEntry
 
