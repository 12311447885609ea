SPECIFICATION Spec
CONSTANTS
    r1 = r1
    r2 = r2
    r3 = r3
    j1 = j1
    j2 = j2
    Absent = Absent
    Outlier = Outlier
    NoJob = NoJob
    Request <- MCRequest2
    Job <- MCJob
    MaxClusters = 2
    MaxIndex = 3
    MaxPostFails = 0
    MaxFaults = 0
    MaxRestarts = 1
PROPERTY
    OpenedIdIsNew
CHECK_DEADLOCK FALSE
