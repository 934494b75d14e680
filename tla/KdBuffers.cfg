SPECIFICATION Spec
CONSTANTS
    t1 = t1
    t2 = t2
    o1 = o1
    o2 = o2
    o3 = o3
    o4 = o4
    Thread = {t1, t2}
    Object = {o1, o2, o3, o4}
    NumIds = 3
    MaxRes = 2
    MapMode = "once"
    MaxBinds = 2
    CloseMode = "tidy"
SYMMETRY Symmetry
INVARIANTS
    BindCounts
    PointersValid
    JobAddressesLocked
PROPERTIES
    JobFrozen
