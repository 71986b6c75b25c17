CONSTANTS
    None = None
    P = P
    Q = Q
    A = A
    B = B
    Centroid = Centroid
    Snap = Snap
    User = User
    Infinity = 100000
    Sentinel = 20000
    Huge = 10000
    MaxLink = 4
    Colocate = 1
    MaxIterations = 6
    MaxRounds = 4
    Owned = {1, 2, 3, 4, 5, 6, 7, 9, 11, 12, 13, 14, 15}
    Requests <- MCRequests
    Stage <- Stages1
    Adventure <- Adventures1
    Linear = {A}
    Labs = {1, 2, 3, 4, 6, 9}
    Archived = {9}
    AugmentMax = 5
    Offering <- Offers1
    MaxLoopCaches = 5
    MaxFringe = 1
    OutlierFactor = 2
    FringeTrim = 4
    Alternatives <- MCAlternatives
    Via <- MCVia
    Alpha = 1
    MaxDetour = 5
    NudgeOverlap = 3
    NudgeLength = 5
    SevereOverlap = 5
    SevereDetour = 15
    Faults = {"osrm", "pool"}
SPECIFICATION ServiceSpec
INVARIANTS
    EveryCandidateAnswered
    LegsJoinTheirStops
    ClosureIsShortestWalk
    IsTour
    LocalOptimum
PROPERTIES
    AdventuresStayWhole
    OnceInBudget
