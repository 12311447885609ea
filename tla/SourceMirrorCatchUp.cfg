SPECIFICATION FairSpec
CONSTANTS
    u = u
    v = v
    l = l
    a = a
    b = b
    c = c
    d = d
    t1 = t1
    t2 = t2
    j1 = j1
    q1 = q1
    q2 = q2
    q3 = q3
    q4 = q4
    Absent = Absent
    Online = Online
    Upload <- MCUpload
    Preloaded <- MCPreloaded
    Live <- MCLive
    Poller <- MCPollerPages
    Polled <- MCPolledPages
    Record <- MCRecord3
    Owner <- MCOwner3
    Stream <- MCStream
    Job <- MCJob
    MaxSources = 1
    MaxFaults = 0
PROPERTY
    MirrorCatchesUp
CHECK_DEADLOCK FALSE
