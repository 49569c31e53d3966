SPECIFICATION FairSpec
CONSTANTS
    v1 = v1
    v2 = v2
    Consumers = {c1, c2}
    Events = {v1, v2}
    MaxEntries = 2
    Batch = 2
    Keyed = {}
    Unattributed = {}
    Dangling = {v1}
    Malformed = {v2}
    FaultKinds = {"read", "reply", "ack", "crash", "shutdown", "db", "revoke"}
    MaxFaults = 2
    None = None
CHECK_DEADLOCK FALSE
PROPERTY NoStall
