SPECIFICATION Spec
CONSTANTS
    Item = {i1, i2}
    Transfer = {i1}
    Caller = {c1}
    None = None
    MaxWait = 2
    Interval = 1
    MaxTime = 3
    MaxFaults = 1
    MaxFlips = 2
PROPERTIES
    MarkedIsFetchedAgain
CHECK_DEADLOCK FALSE
