SPECIFICATION Spec
CONSTANTS
    a = a
    b = b
    A = A
    B = B
    None = None
    TicksPerMilli = 1
    Stages <- MCStages
    AdventureOf <- MCAdventureOf
    SequenceOf <- MCSequenceOf
    PlaceOf <- MCPlaceOf
    TitleOf <- MCTitleOf
    HasGuid = TRUE
    Areas <- MCAreas
    Files <- MCFiles
    Jobs <- MCJobs
    NameOf <- MCNameOf
    MaxEdits = 1
    MaxRequests = 1
    MaxFaults = 1
INVARIANTS
    IdsAreTrue
PROPERTIES
    StagesSurvive
CHECK_DEADLOCK FALSE
