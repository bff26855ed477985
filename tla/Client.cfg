CONSTANTS
    MaxStarts = 3
    MaxRetries = 2
    Queries = {q1, q2}
    Names = {a, b}
    Ids = {1, 2}
    Answers <- MCAnswers
    Retries = 2
    Scan = 2
    MaxClock = 4
    None = None
SPECIFICATION MCSpec
INVARIANTS OneConnection AnswersRight OutstandingIsTimed
PROPERTIES KeepsTrying EveryQueryEnds
CHECK_DEADLOCK FALSE
