SPECIFICATION Spec
CONSTANTS
    Items = {i1, i2, i3}
    MaxChords = 1
    MaxAttempts = 1
    Scorers = 1
    FaultKinds = {"enqueue", "item_crash", "item_raise", "aggregate_crash"}
    MaxFaults = 2
    None = None
CHECK_DEADLOCK FALSE
SYMMETRY Symmetry
INVARIANTS ClosedAgrees MetricsMatchSuccess
PROPERTIES  Implements
