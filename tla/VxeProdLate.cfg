SPECIFICATION ScSpec
CONSTANTS
    Threads = {0}
    RqdInDepth = 4
    RqdOutDepth = 4
    RsdWePow = 2
    RsdRsDepth = 8
    RsdOpPow = 4
    OpDepth = 16
    FmacDepth = 16
    NumReq = 32
    LsuRdDepth = 32
    LsuRsDepth = 32
    WeDepth = 16
    ChanDepth = 32
    MaxProducts = 1
    Scenarios = {"latest"}
PROPERTY
    ProductEnds
