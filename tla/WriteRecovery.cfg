SPECIFICATION FairRSpec
CONSTANTS
    Keys = {k1, k2}
    Slots = 2
    Readers = {}
    Overlap = TRUE
    FlushMayFail = TRUE
    MaxPuts = 3
    MaxBatch = 2
    MaxMemtables = 3
    TornWrites = FALSE
    MaxCrashes = 1
    Torn = Torn
INVARIANTS WalCoversActive RecencyUntilCrash
PROPERTY FrozenLeaves
CHECK_DEADLOCK FALSE
