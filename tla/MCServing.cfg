SPECIFICATION MCSpec
CONSTANTS
    i1 = i1
    p1 = p1
    b1 = b1
    Instances = {i1}
    Ports = {p1}
    MaxFaults = 2
    MaxMoves = 2
    None = None
INVARIANTS
    KeptIsNotReaped
    
    StoppedDoesNotRun
    NotProvisional
PROPERTIES
    
    
    BenchmarksEnd
CHECK_DEADLOCK FALSE
