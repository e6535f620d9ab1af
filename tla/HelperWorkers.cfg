\* One host worker and up to two helpers, a task for them and one that is not.
SPECIFICATION FairSpec
CONSTANTS
    Item = {i1, i3}
    Eligible = {i1}
    Host = {h}
    Helper = {a, b}
    Limit = 2
    None = None
    StartFailures = 1
    MaxShutdowns = 2
INVARIANTS
    OnlyEligible
    StoppedForGood
PROPERTIES
    TasksTaken
    ShutdownEnds
CHECK_DEADLOCK FALSE
