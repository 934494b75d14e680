CONSTANTS
    c1 = c1
    c2 = c2
    t1 = t1
    t2 = t2
    b1 = b1
    b2 = b2
    Ctx = {c1}
    Thread = {t1, t2}
    Cbuf = {b1, b2}
    FileOf <- OneFileOf
    OwnerOf <- OneOwnerOf
    MaxJobs = 2
    MaxSeq = 3
    TimeoutMode = "quiet"
    CloseMode = "drained"
SPECIFICATION Spec
INVARIANTS
    TypeOK
    SeqAccounting
    CbufExclusive
    NumJobsExact
    CtxOutlivesJob
    DeviceProgramPinned
    DoneMeansRan
    FenceMeansDone
    IsrJobLive
CHECK_DEADLOCK FALSE
