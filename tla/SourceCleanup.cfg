\* Two jobs in one folder, uploads at any time, one failure.
SPECIFICATION Spec
CONSTANTS
    m1 = m1
    m2 = m2
    m3 = m3
    m4 = m4
    junk = junk
    new = new
    other = other
    Dir <- Dirs
    Root <- Roots
    File <- Files
    Home <- Homes
    Media <- Medias
    Later = {new, other}
    Job <- Jobs
    Batch <- Batches
    None = None
    KeysKept = 1
    MaxFaults = 1
INVARIANTS
    TypeOK
    MediaKept
    OutsideKept
    CacheClean
    EmptiedGone
CHECK_DEADLOCK FALSE
