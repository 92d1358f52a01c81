SPECIFICATION Spec
CONSTANTS
    Keys = {1, 2, 3}
    TopLevel = 2
    L0Trigger = 1
    MaxFlushes = 3
    MaxEntries = 4
    MaxFailures = 1
INVARIANTS LevelsDisjoint UpperIsNewer GetFindsNewest
CHECK_DEADLOCK FALSE
