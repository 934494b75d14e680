CONSTANTS
    c1 = c1
    c2 = c2
    t1 = t1
    t2 = t2
    b1 = b1
    b2 = b2
    Ctx = {c1, c2}
    Thread = {t1, t2}
    Cbuf = {b1, b2}
    FileOf <- TwoFilesOf
    OwnerOf <- TwoOwnersOf
    MaxJobs = 1
    MaxSeq = 2
    TimeoutMode = "quiet"
    CloseMode = "drained"
SPECIFICATION FairSpec
PROPERTIES
    JobsRetire
    FencesReturn
CHECK_DEADLOCK FALSE
