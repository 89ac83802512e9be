SPECIFICATION MCSpec
CONSTANTS
    s1 = s1
    s2 = s2
    s3 = s3
    Servers = {s1, s2, s3}
    Ttl = 6
    Renew = 2
    Retry = 1
    MaxSpent = 8
    MaxFaults = 2
    None = None
INVARIANT OneLeaderInTime
PROPERTIES
    LeaderReturns
    
    DeadIsCleaned
