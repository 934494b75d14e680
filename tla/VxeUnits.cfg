SPECIFICATION MCSpec
CONSTANTS
    Depth = 4
    Data = {d1, d2}
    Threads = {0, 7}
    RqdInDepth = 2
    RqdOutDepth = 2
    RsdWePow = 1
    RsdRsDepth = 2
    RsdOpPow = 2
    OpDepth = 4
    FmacDepth = 2
    NumReq = 4
    LsuRdDepth = 2
    LsuRsDepth = 2
    WeDepth = 2
    ChanDepth = 2
    MaxProducts = 2
    Scenarios = {"any", "late", "errors"}
INVARIANTS
    ProductsInOrder
    DoneMeansAccumulated
    QueuesFit
PROPERTIES
    FifoIsQueue
    Fifo2IsQueue
    ProductEnds
