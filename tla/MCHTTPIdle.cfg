SPECIFICATION FairSpec
CONSTANTS
    c1 = c1
    c2 = c2
    s1 = s1
    s2 = s2
    None = None
    Connections <- MCConnections
    Sessions <- MCSessions
    Bucket <- MCBucket
    BucketCount = 2
    Timeout = 1
    MaxTime = 2
    MaxPackets = 3
PROPERTIES
    OnlyIdleSessionsLeave
\* packets and time are bounded
CHECK_DEADLOCK FALSE
