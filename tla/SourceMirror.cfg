SPECIFICATION FairSpec
CONSTANTS
    u = u
    v = v
    l = l
    a = a
    b = b
    c = c
    d = d
    t1 = t1
    t2 = t2
    j1 = j1
    q1 = q1
    q2 = q2
    q3 = q3
    q4 = q4
    Absent = Absent
    Online = Online
    Upload <- MCUpload
    Preloaded <- MCPreloaded
    Live <- MCLive
    Poller <- MCPoller
    Polled <- MCPolled
    Record <- MCRecord4
    Owner <- MCOwner4
    Stream <- MCStream
    Job <- MCJob
    MaxSources = 1
    MaxFaults = 1
INVARIANTS
    TypeOK
    MirrorJoins
    ClassifiedWasSent
PROPERTIES
    FailedUntilResumed
    ClassifiedGetsMirrored
    StreamsSettle
CHECK_DEADLOCK FALSE
