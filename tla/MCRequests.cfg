\* A client two coroutines share; one and a half tokens fit into the bucket.
CONSTANTS
    Callers = {c1, c2}
    Unit = 2
    Full = 3
    Horizon = 6
    Second = 1
    MaxRetries = 3
    RetryAfters = {0, 3}
    NULL = NULL
SPECIFICATION Spec
INVARIANTS
    TypeOK
    Pace
PROPERTIES
    EveryRequestHasAToken
    RetriesRunOut
    RequestEnds
