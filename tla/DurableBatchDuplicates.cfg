\* Two sources of one name and one content into one folder.
SPECIFICATION Spec
CONSTANTS
    a = a
    b = b
    old = old
    Tasks = {a, b}
    OldFiles = {old}
    Threads = {w1, w2}
    None = None
    Mode <- Copying
    SrcName <- OneName
    TgtName <- Targets
    Content <- Duplicates
    MaxBatch = 2
    MaxCopies = 2
    MaxRetries = 1
    MaxCrashes = 0
    MaxLost = 0
    MaxVanished = 0
INVARIANTS
    LandedFileKept
CHECK_DEADLOCK FALSE
