SPECIFICATION Spec
CONSTANTS
    Ids = {i1, i2}
    Base = 1
    Peak = 2
    MaxReplicas = 2
    MaxEdits = 3
    MaxFaults = 0
PROPERTY ManualChangeKept
CHECK_DEADLOCK FALSE
