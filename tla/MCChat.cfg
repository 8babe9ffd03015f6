\* Two slots for three requests, two of them on the session; the two messages
\* exceed the budget together, and so may a summary.
CONSTANTS
    m1 = m1  m2 = m2  r1 = r1  r2 = r2  r3 = r3  q1 = q1  q2 = q2  q3 = q3
    Msgs = {m1, m2}
    SizeOf <- SizesOfMsgs
    SendsOf <- SentOnce
    MaxMsgs = 2
    Requests = {r1, r2, r3}
    Questions = {q1, q2, q3}
    Near <- Neighbours
    CacheSize = 2
    Asks <- AskedQuestions
    InSession = {r1, r2}
    PoolSize = 2
    Budget = 2
    SummarySizes = {1, 3}
    MaxDeletes = 1
    MaxFaults = 1
SPECIFICATION FairSpec
INVARIANTS
    ChatSafety
    AnsweredTwiceOnlyAtOnce
    DeletesWhatItRead
PROPERTIES
    ImplementsPool
    RequestsReturn
\* Every request may have been answered.
CHECK_DEADLOCK FALSE
