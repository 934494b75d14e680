SPECIFICATION Spec
CONSTANTS
    v1 = v1
    v2 = v2
    Vpu = {v1, v2}
    FetchDepth = 4
    FwdDepth = 1
    HubDepth = 1
    VpuDepth = 1
    Faulty = {v1}
    Programs <- MCPrograms
    Images <- MCImages
INVARIANTS
    FifosFit
    SyncBarrier
    CompleteMeansDone
    EndIsTold
    QuietWhenIdle
PROPERTIES
    CommandsInOrder
    EveryProgramEnds
