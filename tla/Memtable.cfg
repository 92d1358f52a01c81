SPECIFICATION Spec
CONSTANTS
    N = 3
    Readers = {r1}
    K_MAX_HEIGHT = 3
    K_BLOCK_SIZE = 16
    Align = 2
    NodeBytes = 2
    PointerBytes = 1
    KeyBytes <- MCKeyBytes
    MaxPuts = 4
INVARIANTS
    LevelsNest GetIsLinearizable ScanIsComplete NodesDisjoint
PROPERTIES ActsAsMap
