SPECIFICATION Spec
CONSTANTS
    Names = {n1}
    Specs = {a, b}
    MaxChanges = 3
    MaxGaps = 0
    MaxRestarts = 0
    MaxFailures = 0
    None = None
INVARIANT OneActive
CHECK_DEADLOCK FALSE
