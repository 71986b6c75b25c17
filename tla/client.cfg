SPECIFICATION Spec
CONSTANTS
    t1 = t1
    t2 = t2
    Tours = {t1, t2}
    Names = {"loop", "walk"}
    Slugs = {"s1"}
    None = None
    Gone = Gone
    Idle = Idle
    Asked = Asked
    Failed = Failed
    Areas = {"a", "b"}
    Knobs = {1, 2}
    Handmade = Handmade
    Starts <- MCStarts
    MaxOps = 4
CHECK_DEADLOCK FALSE
INVARIANTS
    UnflaggedPlanIsCurrent
    OverwritesItsOwn
PROPERTIES
    TourStaysShown
