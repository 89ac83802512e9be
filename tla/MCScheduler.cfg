SPECIFICATION Spec
CONSTANTS
    i1 = i1
    i2 = i2
    w1 = w1
    w2 = w2
    Instances = {i1, i2}
    Workers = {w1, w2}
    Capacity <- OneEach
    Lag = TRUE
    MaxFaults = 1
    MaxAges = 1
    None = None
SYMMETRY InstanceSymmetry

    
PROPERTY DeletedStaysDeleted
CHECK_DEADLOCK FALSE
