SPECIFICATION SpecEdits
CONSTANTS
    None = None
    Absent = Absent
    Loading = Loading
    Planned <- MCPlanned
    Bounds <- MCBounds
    Middle = 1
    MaxTimers = 2
    MaxAlternatives = 2
INVARIANTS
    EditsStayWithTheirPlan
CHECK_DEADLOCK FALSE
