\* Two stoppers, three generations, four tasks, one worker lost.
SPECIFICATION FairSpec
CONSTANTS
    Clients = {c1, c2}
    NoClient = NoClient
    LazyStart = TRUE
    MaxGen = 3
    MaxTasks = 4
    MaxDeaths = 1
INVARIANTS
    SettledInOrder
PROPERTIES
    ServiceSpec
    StopEndsWorker
    AcceptedIsSettled
CHECK_DEADLOCK FALSE
