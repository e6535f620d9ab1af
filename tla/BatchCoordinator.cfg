SPECIFICATION FairSpec
CONSTANTS
    Callers = {c1, c2, c3}
    Keys = {k1, k2}
    NoKey = NoKey
    MaxSize = 2
    MaxOps = 3
    MaxThreads = 2
INVARIANTS
    OneThreadWorks
    AdmittedNeverRefused
    DownIsQuiet
PROPERTIES
    EveryOpAnswered
CHECK_DEADLOCK FALSE
