\* Two events for one cloud path and a move away from it, with one fault of any
\* kind.
SPECIFICATION FairSpec
CONSTANTS
    a = a
    b = b
    m = m
    c1 = c1
    c2 = c2
    p1 = p1
    p2 = p2
    Event = {a, b, m}
    Cloud = {c1, c2}
    Path = {p1, p2}
    None = None
    Other = Other
    Target <- Targets
    Source <- Sources
    OutOf <- Outputs
    Dir <- OneDir
    Older <- Latest
    Unsized = {a}
    Effects = 1
    MaxFaults = 1
INVARIANTS
    EffectsAtLeastOnce
    SettledLibrary
PROPERTIES
    ActsOnPlanned
    LiveOutputKept
    RecoversPublished
    ArrivedIsSettled
CHECK_DEADLOCK FALSE
