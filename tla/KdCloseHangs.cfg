CONSTANTS
    c1 = c1
    c2 = c2
    t1 = t1
    t2 = t2
    b1 = b1
    b2 = b2
    Ctx = {c1}
    Thread = {t1, t2}
    Cbuf = {b1, b2}
    FileOf <- OneFileOf
    OwnerOf <- OneOwnerOf
    MaxJobs = 1
    MaxSeq = 1
    TimeoutMode = "quiet"
    CloseMode = "any"
SPECIFICATION FairSpec
PROPERTY ReleaseReturns
CHECK_DEADLOCK FALSE
