SPECIFICATION Spec
CONSTANTS
    t1 = t1
    o1 = o1
    o2 = o2
    o3 = o3
    Thread = {t1}
    Object = {o1, o2, o3}
    NumIds = 3
    MaxRes = 1
    MapMode = "once"
    MaxBinds = 0
    CloseMode = "any"
SYMMETRY Symmetry
PROPERTY
    LockedNotDestroyed
