CONSTANTS
    None = None
    Caches = {1, 2, 3}
    Locations = {1, 2}
    Versions = {1, 2}
    Answer <- Mixed
    Owners = {"alice", "bob"}
    Owner <- TwoOwners
    Radius = 1
    K = 3
    InitVersion = 1
    Faults = {"db", "delete", "enqueue", "osrm"}
    MaxFaults = 1
    MaxRestarts = 1
    Workers = {w1}
    MaxEdits = 2
    MaxRetriggers = 1
    MaxAttempts = 1
    MaxStalls = 1
    Requests = {r1}
    RequestSets = {{1, 2}}
    Batches = {{1, 2}, {3}}
SPECIFICATION Spec
CONSTRAINT TwoAtMost
INVARIANTS
    SameOwnerLegs
PROPERTIES
    FollowsLifecycle
CHECK_DEADLOCK FALSE
