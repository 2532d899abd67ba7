SPECIFICATION Spec
CONSTANTS
    k1 = k1
    k2 = k2
    Key = {k1, k2}
    max_events = 2
    window_seconds = 2
    MaxTime = 6
    MaxRequests = 6
SYMMETRY KeySymmetry
INVARIANTS TypeOK KeysPruned
PROPERTIES AdmitsExactly
CHECK_DEADLOCK FALSE
