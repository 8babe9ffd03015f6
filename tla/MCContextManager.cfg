\* Two requests; the lock may go once under one of them, one message is sent
\* twice, and everything else may go wrong.
CONSTANTS
    m1 = m1  m2 = m2
    Msgs = {m1, m2}
    SizeOf <- SizesOfMsgs
    SendsOf <- SendsOfMsgs
    MaxMsgs = 2
    Requests = {r1, r2}
    Threshold = 3
    Target = 2
    SummarySizes = {1, 3}
    MaxStrays = 1
    MaxResends = 1
    MayFail = TRUE
    MayCrash = TRUE
SPECIFICATION FairSpec
INVARIANTS
    ContextSafety
    OneCompressor
    SessionIsKept
PROPERTY NobodyWaits
CHECK_DEADLOCK FALSE
