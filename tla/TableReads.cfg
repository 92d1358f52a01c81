SPECIFICATION Spec
CONSTANTS
    Keys <- MCKeys
    hash64 <- MChash64
    Builds = {TRUE, FALSE}
    TableKeys <- MCTableKeys
    WordBits = 4
    RotateBits = 3
    BitsPerKey = 3
    NumHashes = 2
    restart_interval = 2
    HeaderBytes = 3
    PointerBytes = 2
    OffsetBytes = 1
    BlockLimits = {14, 40}
    Threads = {t1, t2}
    CacheBytes = 30
    MaxReaders = 1
    MaxOps = 2
INVARIANTS
    GetExact ScanExact CachesAccounted
SYMMETRY Symmetry
CHECK_DEADLOCK FALSE
