CONSTANTS
    c1 = c1
    c2 = c2
    Chans = {c1, c2}
    Wake = wake
    MaxTasks = 2
    MaxQuits = 1
SYMMETRY Symmetry
SPECIFICATION Spec
INVARIANTS WakesUp ChannelsMapped CalledInOrder
PROPERTY NoCallbackAfterRemove
CHECK_DEADLOCK FALSE
