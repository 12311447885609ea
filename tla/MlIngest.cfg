SPECIFICATION FairSpec
CONSTANTS
    r1 = r1
    r2 = r2
    c1 = c1
    c2 = c2
    None = None
    Request <- MCRequest
    Content <- MCContent
    Batches <- MCBatches
    Concurrency = 2
    BatchMax = 3
    MaxPuts = 3
    MaxRestarts = 1
INVARIANTS
    TypeOK
    CountedOnce
    FirstAcceptedWins
    NoSilentLoss
    VectorsFollowRows
PROPERTIES
    ImplementsLedger
    EveryLogSettles
CHECK_DEADLOCK FALSE
