SPECIFICATION FairSpec
CONSTANTS
    w1 = w1
    w2 = w2
    gc = gc
    NoOne = NoOne
    Writers <- MCWriters
    GcWriters <- MCGcWriters
INVARIANTS
    TypeOK
    ExactlyOneOwner
    LeaderHeadsItsBatch
    CompletionTellsTheTruth
PROPERTIES
    CommitsSerially
    EveryRequestReturns
