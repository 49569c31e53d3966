SPECIFICATION FairSpec
CONSTANTS
    Items = {i1, i2}
    MaxChords = 2
    MaxAttempts = 2
    Scorers = 1
    FaultKinds = {"launch_crash", "launch_again", "item_crash", "item_again", "aggregate_crash", "delete"}
    MaxFaults = 1
    None = None
CHECK_DEADLOCK FALSE
INVARIANT ScoresBesideMetrics
 
