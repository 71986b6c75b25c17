CONSTANTS
    None = None
    Caches = {1, 2}
    Locations = {1, 3}
    Versions = {1, 2}
    Answer <- AllRouted
    Owners = {"alice"}
    Owner <- OneOwner
    Radius = 1
    K = 3
    InitVersion = 1
    Faults = {"crash"}
    MaxFaults = 1
    MaxRestarts = 1
    Workers = {w1}
    MaxEdits = 2
    MaxRetriggers = 0
    MaxAttempts = 2
    MaxStalls = 1
    Requests = {}
    RequestSets = {}
    Batches <- AnyBatch
SPECIFICATION FairSpec
INVARIANTS
    DebtIsVisible
    VersionNamesExtract
PROPERTIES
    JobsFinish
CHECK_DEADLOCK FALSE
