SPECIFICATION MCSpec
CONSTANTS
    a = a
    b = b
    None = None
    Ids = {i1, i2}
    Base = 1
    Peak = 2
    MaxReplicas = 2
    MaxEdits = 2
    MaxFaults = 1
INVARIANTS
    SettledReplicas
    
    CatalogIsFollowed
PROPERTIES
    ShrinkKeepsWanted
    ComesToRest
CHECK_DEADLOCK FALSE
