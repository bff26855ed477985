CONSTANTS
    MaxTimers = 2
    Delays = {0, 1, 2}
    MaxTime = 3
    MaxEvents = 1
SPECIFICATION FairSpec
INVARIANTS TimersInOrder NoDrift
PROPERTIES CancelledNotCalled TimerCalled
CHECK_DEADLOCK FALSE
