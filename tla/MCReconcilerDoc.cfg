\* No faults at all.
CONSTANTS
    d1 = d1  d2 = d2  h1 = h1  h2 = h2  h3 = h3  general = general  legal = legal
    Domains = {general, legal}
    DomainOf <- DomainOfDocs
    Chunks <- ChunksOfDocs
    NoPoint = NoPoint
    MaxRetries = 3
    PageSize = 2
    Rank <- RankOfPoints
    MaxAborts = 0
    Docs <- OneDoc
    Registered <- OneDoc
    Workers = {w1}
    MayFail = FALSE
    MayHang = FALSE
    MayCrash = FALSE
    MaxResends = 0
SPECIFICATION RecSpec
INVARIANT LiveChunksSpared
