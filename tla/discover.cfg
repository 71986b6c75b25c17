CONSTANTS
    None = None
    NoRoute = NoRoute
    R1 = R1
    R2 = R2
    X = X
    Requests = {R1, R2}
    Caches <- CacheIds
    Callers <- MCCallers
    Scenarios <- MCScenarios
    Adventure <- Adventures
    Batch = 2
    MaxConcurrency = 2
    MaxPool = 7
    Zero = 5
    ZeroApart = 50
    DetourReject = 10
    Faults = {"osrm", "db", "pool"}
    MaxFaults = 1
    Lambda = 1663200
    MaxCuts = 64
    HexSize = 1000
    Sweep <- MCSweep
    Weight <- Weights
    NearestShown = 3
SPECIFICATION DiscoverySpec
INVARIANTS
    WaitingMeansFull
    CacheIsTransparent
    NeverOrphaned
    MassIsMaximal
    ExplainedAsClustered
PROPERTIES
    RequestsEnd
    QualityNeverFalls
