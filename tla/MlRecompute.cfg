SPECIFICATION FairSpec
CONSTANTS
    r1 = r1
    r2 = r2
    r3 = r3
    j1 = j1
    j2 = j2
    Absent = Absent
    Outlier = Outlier
    NoJob = NoJob
    Request <- MCRequest2
    Job <- MCJob
    MaxClusters = 2
    MaxIndex = 3
    MaxPostFails = 1
    MaxFaults = 1
    MaxRestarts = 1
INVARIANTS
    TypeOK
    FreshUnlessLate
    NoDanglingScenario
    OnlineKnowsTable
PROPERTIES
    RestartConservative
    JobsEnd
CHECK_DEADLOCK FALSE
