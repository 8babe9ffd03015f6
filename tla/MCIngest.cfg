\* Faults, hung calls and crashes everywhere, and two commands sent again: the
\* document may have three entries, and attempts by both workers at once. The system
\* stops when every job is over.
CONSTANTS
    d1 = d1  h1 = h1  h2 = h2  general = general
    Domains = {general}
    DomainOf <- DomainOfDocs
    Chunks <- ChunksOfDocs
    NoPoint = NoPoint
    MaxRetries = 3
    Docs = {d1}
    Registered = {d1}
    Workers = {w1, w2}
    MayFail = TRUE
    MayHang = TRUE
    MaxResends = 2
    MayCrash = TRUE
SPECIFICATION FairSpec
INVARIANTS
    IngestSafety
    IndexedIsComplete
PROPERTIES
    JobsEnd
    IndexedLostOnlyToLatecomers
    ImplementsLifecycle
CHECK_DEADLOCK FALSE
