SPECIFICATION FairSpec
CONSTANTS
    Writers = {w1}
    PoolThreads = {p1, p2}
    Slots = 1
    ScheduleAt = 2
    SlowAbove = 1
    HardAt = 3
    L0Trigger = 2
    MaxGcs = 1
    MaxRecords = 1
INVARIANTS OneCompaction BacklogBounded
PROPERTIES SlotWaitEnds WritesReturnOrStall
CHECK_DEADLOCK FALSE
