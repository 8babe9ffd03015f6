\* Two documents one after the other; legs time out.
CONSTANTS
    d1 = d1  d2 = d2  h1 = h1  h2 = h2  general = general
    Domains = {general}
    DomainOf <- DomainOfDocs
    Chunks <- ChunksOfDocs
    NoPoint = NoPoint
    MaxRetries = 3
    Workers = {w1}
    Docs <- TwoDocs
    Registered <- TwoDocs
    Readers = {r1}
    MayFail = FALSE
    MayHang = FALSE
    MayCrash = FALSE
    MaxResends = 0
    MaxLapses = 1
SPECIFICATION FairRetrievalSpec
INVARIANT RetrievalSafety
PROPERTY StalenessEnds
