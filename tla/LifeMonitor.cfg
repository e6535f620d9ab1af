\* Pages of one and two entries, a file with three events, mode "last".
SPECIFICATION FairSpec
CONSTANTS
    f = f
    g = g
    h = h
    Events = 5
    FileOf <- Files
    Ignored = {2}
    Vanishing = {4}
    FirstPage = 1
    Page = 2
    Attempts = 2
    Mode = "last"
    None = None
    MaxFaults = 2
    MaxStarts = 2
INVARIANTS
    TypeOK
    NothingSkipped
PROPERTIES
    InOrder
    EventsHandled
CHECK_DEADLOCK FALSE
