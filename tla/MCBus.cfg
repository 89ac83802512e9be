SPECIFICATION MCSpec
CONSTANTS
    i1 = i1
    i2 = i2
    w1 = w1
    Nobody = Nobody
    Servers = {"s1", "s2"}
    Ids = {1}
    MaxWrites = 3
    MaxFaults = 1
INVARIANTS
    LatestHasToken
    ClosedUnwinds
    NeverBehindItsWrite
    NothingLost
    StaleOnlyIfOverlapped
PROPERTIES
    UpdatesMonotone
    NewestReceived
    FreshInTheEnd
    UnplacedIsPlaced
CHECK_DEADLOCK FALSE
