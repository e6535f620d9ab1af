\* A move and a copy that share their batches; a crash, a lost lease, a source
\* that disappears.
SPECIFICATION FairSpec
CONSTANTS
    a = a
    b = b
    old = old
    Tasks = {a, b}
    OldFiles = {old}
    Threads = {w1, w2}
    None = None
    Mode <- Mixed
    SrcName <- OwnNames
    TgtName <- KeepOwn
    Content <- SameContent
    MaxBatch = 2
    MaxCopies = 2
    MaxRetries = 1
    MaxCrashes = 1
    MaxLost = 1
    MaxVanished = 1
INVARIANTS
    NoDuplicateCopy
    CompletedIsInPlace
    LandedIsOwn
PROPERTIES
    EveryTaskSettles
CHECK_DEADLOCK FALSE
