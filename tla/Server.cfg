CONSTANTS
    k1 = k1
    k2 = k2
    Conns = {k1, k2}
    MaxIo = 2
    MaxMsgs = 1
    MaxEach = 1
SPECIFICATION FairSpec
INVARIANT ServerSafe
PROPERTIES ClosedIsErased OpenedOnce
CHECK_DEADLOCK FALSE
