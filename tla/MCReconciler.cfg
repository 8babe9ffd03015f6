\* One worker, which may crash, and the reconciler, one run of which may end
\* with an error; d2's rows are refused.
CONSTANTS
    d1 = d1  d2 = d2  h1 = h1  h2 = h2  h3 = h3  general = general  legal = legal
    Domains = {general, legal}
    DomainOf <- DomainOfDocs
    Chunks <- ChunksOfDocs
    NoPoint = NoPoint
    MaxRetries = 3
    PageSize = 2
    Rank <- RankOfPoints
    MaxAborts = 1
    Docs <- TwoDocs
    Registered <- OneDoc
    Workers = {w1}
    MayFail = FALSE
    MayHang = FALSE
    MayCrash = TRUE
    MaxResends = 0
SPECIFICATION FairRecSpec
INVARIANT ReconcilerSafety
PROPERTIES
    RunSkipsNothing
    Reconciles
