SPECIFICATION FairSpec
CONSTANTS
    Procs = {p1, p2}
    Improvements = {i1, i2, i3}
    MaxSelected = 2
    MaxDispatched = 2
    MaxAttempts = 2
    MaxEvents = 2
INVARIANTS
    OneDispatch
PROPERTIES
    SuccessStands
    StopFences
    Served
CHECK_DEADLOCK FALSE
