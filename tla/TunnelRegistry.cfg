SPECIFICATION Spec
CONSTANTS
    MaxConns = 2
    MaxDrops = 0
INVARIANT AddressFollowsTunnel
CHECK_DEADLOCK FALSE
