SPECIFICATION Spec
CONSTANTS
    R1 = R1
    R2 = R2
    Requests = {R1, R2}
    Batch <- MCBatch
    Old = Old
    OldRecords = {2}
    Stamp <- MCStamp
    Views = {v1}
    Page = 1
    Ttl = 2
    Timeout = 1
    Nothing = Nothing
INVARIANTS
    TypeOK
    NoRowSkipped
    ProgressHonest
    CacheFollows
