CONSTANTS
    MaxCalls = 3
    MaxCloses = 1
    Size = 2
    HighWaterMark = 3
SPECIFICATION FairSpec
INVARIANTS SentInOrder GracefulCloseSendsAll CallbacksInOrder WriteArmed
PROPERTY CloseEnds
CHECK_DEADLOCK FALSE
