\* Three plans over three keys; two versions of an entry are enough to see
\* a lock deleted while it is in use.
SPECIFICATION PathFairSpec
CONSTANTS
    Procs = {p1, p2, p3}
    NoProc = NoProc
    Keys = {1, 2, 3}
    Versions = {v1, v2}
    NoVer = NoVer
    MaxCalls = 4
INVARIANTS
    TableTracksUse
PROPERTIES
    AtomicSpec
    CallsComplete
CHECK_DEADLOCK FALSE
