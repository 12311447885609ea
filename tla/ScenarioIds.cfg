SPECIFICATION Spec
CONSTANTS
    MaxClusters = 2
    MinClusterSize = 3
    MaxRows = 6
    MaxLabel = 2
    MaxSim = 2
INVARIANTS
    TypeOK
    NoBlockingPair
    IdsBounded
    AsRecomputeAssumes
