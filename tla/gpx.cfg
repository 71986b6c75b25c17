CONSTANTS
    None = None
    TicksPerMilli = 10
    Codes = {"A", "B"}
    Coords = {"p", "q", "s"}
    Files = {"old", "new", "solved", "wpts", "broken"}
    File <- TwoExports
    Options <- OptionsTicked
    Requests = {r1, r2}
    Faults = {"db", "crash"}
    MaxFaults = 1
SPECIFICATION FairSpec
INVARIANTS
    SolvedCoordinateSurvives
    DerivedFollowsLocation
    WaypointsOfOneFile
    SuccessMeansStored
PROPERTIES
    NewestExportWins
    RequestsAreAnswered
CHECK_DEADLOCK FALSE
