CONSTANTS
    None = None
    Caches = {1, 2, 3}
    Locations = {1, 2}
    Versions = {1, 2}
    Answer <- Mixed
    Owners = {"alice"}
    Owner <- OneOwner
    Radius = 1
    K = 3
    InitVersion = 1
    Faults = {}
    MaxFaults = 0
    MaxRestarts = 1
    Workers = {w1}
    MaxEdits = 1
    MaxRetriggers = 0
    MaxAttempts = 2
    MaxStalls = 1
    Requests = {r1}
    RequestSets = {{1, 2}}
    Batches <- Everything
SPECIFICATION Spec
INVARIANTS
    ServedLegsAreTrue
PROPERTIES
    NoDowngradeWithinVersion
CHECK_DEADLOCK FALSE
