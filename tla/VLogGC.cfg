SPECIFICATION Spec
CONSTANTS
    Keys = {k1, k2}
    Collectors = {c1, c2}
    Client = client
    Batching = TRUE
    Deletes = TRUE
    Unsynced = TRUE
    TornWrites = TRUE
    MaxWrites = 3
    MaxFiles = 3
    MaxRotations = 1
    MaxCrashes = 1
INVARIANTS ReadsOwnKey PointersResolve NewestWinsUnlessRaced
SYMMETRY Symmetry
CHECK_DEADLOCK FALSE
