CONSTANTS
    p1 = p1
    p2 = p2
    Producers = {p1, p2}
    InitWorkers = 2
    MaxWorkers = 3
    MaxTasks = 3
SPECIFICATION FairSpec
INVARIANTS NoneForgotten EachTaskOnce
PROPERTY PoolLive
CHECK_DEADLOCK FALSE
