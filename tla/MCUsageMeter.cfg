SPECIFICATION Spec
CONSTANTS
    A = A
    B = B
    Shapes = {A, B}
    Second = 2
    Hour = 2
    Grace = 1
    Overtakes = {}
    MaxTime = 3
    MaxMoves = 4
    MaxFaults <- OneEach
    None = None
SYMMETRY ShapeSymmetry
INVARIANTS
    RowWithinMark
    
    
CHECK_DEADLOCK FALSE
