SPECIFICATION Spec
CONSTANTS
    Keys = {k1, k2}
    Slots = 2
    Readers = {}
    Overlap = TRUE
    FlushMayFail = FALSE
    MaxPuts = 3
    MaxBatch = 2
    MaxMemtables = 3
INVARIANT AckedVisible
CHECK_DEADLOCK FALSE
