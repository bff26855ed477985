CONSTANTS
    c1 = c1
    Chans = {c1}
    Wake = wake
    MaxTasks = 2
    MaxQuits = 1
SPECIFICATION FairSpec
PROPERTY LoopLive
CHECK_DEADLOCK FALSE
