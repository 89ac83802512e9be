SPECIFICATION FairSpec
CONSTANTS
    i1 = i1
    i2 = i2
    w1 = w1
    w2 = w2
    Instances = {i1}
    Workers = {w1, w2}
    Capacity <- OneEach
    Lag = FALSE
    MaxFaults = 1
    MaxAges = None
    None = None
PROPERTY PendingIsRetried
CHECK_DEADLOCK FALSE
