SPECIFICATION FairSpec
CONSTANTS
    Requests = {r1, r2, r3}
    Conns = {h1, h2, h3}
    max_conns_per_route = 1
    NoOne = NoOne
INVARIANTS LeasedForOwn EndsCleanly
PROPERTY EveryRequestEnds
CHECK_DEADLOCK FALSE
