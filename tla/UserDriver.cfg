SPECIFICATION MCSpec
CONSTANTS
    NrVpu = 2
    NrThr = 2
    BufLen <- MCBufLen
    Bindings <- MCBindings
    NrRes = 3
    MaxLen = 1
    Menu <- MCMenu
    Preludes <- MCPreludes
    MaxBuffers = 4
    ResLen = 2
    VpuMask <- Vpus
    Mac <- MCMac
    Act <- MCAct
    Program <- MCProgram
    InitialMemory <- MCMemory
    MaxCalls = 2
INVARIANTS
    CheckedInBounds
    VerdictsAgree
    ResultIsOwn
    VerifiedIsAccepted
    ProgramComputesStages
    ClientIdsLive
    BindsExact
PROPERTIES
    ProdIsSequential
    CallsReturn
CHECK_DEADLOCK FALSE
