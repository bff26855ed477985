CONSTANTS
    MaxCalls = 2
    MaxCloses = 0
    Size = 2
    HighWaterMark = 0
SPECIFICATION Spec
INVARIANT PeerGetsWhatWasSent
CHECK_DEADLOCK FALSE
