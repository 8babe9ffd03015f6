\* Everything may go wrong.
CONSTANTS
    s1 = s1  s2 = s2  a1 = a1
    Requests = {s1, s2, a1}
    Streams = {s1, s2}
    Whole = {s2}
    PoolSize = 2
    ChanCap = 1
    MaxTokens = 3
    MayFail = TRUE
    MayLeave = TRUE
SPECIFICATION FairSpec
INVARIANTS
    StreamSafety
    InOrder
PROPERTIES
    ImplementsPool
    StreamsEnd
\* The requests are few: when all have ended nothing is left to do.
CHECK_DEADLOCK FALSE
