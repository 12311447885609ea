SPECIFICATION FairSpec
CONSTANTS
    b1 = b1
    b2 = b2
    b3 = b3
    b4 = b4
    Batch <- MCBatch4
    MaxLimit = 4
    MinLimit = 2
    RecoverEvery = 2
    MaxRetries = 1
    MaxUncaught = 2
INVARIANTS
    TypeOK
    SlotsAreCalls
PROPERTIES
    RaisesAreEarned
    EveryBatchEnds
CHECK_DEADLOCK FALSE
