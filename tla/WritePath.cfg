SPECIFICATION Spec
CONSTANTS
    Keys = {k1, k2}
    Slots = 2
    Readers = {r1}
    Overlap = FALSE
    FlushMayFail = FALSE
    MaxPuts = 3
    MaxBatch = 2
    MaxMemtables = 4
SYMMETRY Symmetry
INVARIANTS AckedVisible GetsSeeAcked ScansMissNothing
PROPERTY ActsAsMap
