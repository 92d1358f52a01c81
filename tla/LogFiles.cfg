SPECIFICATION Spec
CONSTANTS
    Keys = {k1, k2}
    MAX_FILE_SIZE = 1
    BufferLimit = 2
    Torn = Torn
    ReadMovesPosition = FALSE
    Tolerated = {}
    MaxPuts = 3
    MaxQueue = 2
    MaxFailures = 1
    MaxRestarts = 2
INVARIANTS
    PointersResolve WalBehindValues AckedKept SyncedKept
SYMMETRY Symmetry
CONSTRAINT Defined
CHECK_DEADLOCK FALSE
