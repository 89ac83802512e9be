SPECIFICATION MCSpec
CONSTANTS
    k1 = k1
    k2 = k2
    Keys = {k1, k2}
    Objects = {o1}
    None = None
    CoalescePolicy = "default"
    DedupWindow = 1
    DedupMaxWait = 2
    BackoffBase = 1
    BackoffMax = 2
    Delays = {}
    MaxFailures = 0
    YieldBetweenGets = FALSE
INVARIANTS
    DeletedFirst
PROPERTIES
    DeletedSticky
    ImplementsMailbox
    HandedOut
