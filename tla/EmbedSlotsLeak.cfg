SPECIFICATION Spec
CONSTANTS
    b1 = b1
    b2 = b2
    b3 = b3
    b4 = b4
    Batch <- MCBatch4
    MaxLimit = 3
    MinLimit = 1
    RecoverEvery = 2
    MaxRetries = 1
    MaxUncaught = 1
INVARIANT
    SlotAlwaysFreed
CHECK_DEADLOCK FALSE
