SPECIFICATION FairSpec
CONSTANTS
    None = None
    Item = {i1, i2}
    Transfer = {i1}
    Caller = {c1}
    MaxWait = 2
    Interval = 1
    MaxTime = 3
    MaxFaults = 2
    MaxFlips = 2
INVARIANTS
    QueuedIsDurable
    HandedOverOnce
PROPERTIES
    QueuedSettles
CHECK_DEADLOCK FALSE
