SPECIFICATION FairSpec
CONSTANTS
    f1 = f1
    f2 = f2
    f3 = f3
    b1 = b1
    b2 = b2
    None = None
    BucketCount = 2
    Blocks <- MCBlocks
    Timeout = 1
    Flows <- MCFlows
    Bucket <- MCBucket
    MaxTime = 2
    MaxPackets = 3
INVARIANTS
    PoolHoldsTheRest
    PacketsAccounted
PROPERTIES
    HandedOffIsFrozen
    OnlyIdleSessionsLeave
    IdleSessionsLeaveUnlessDrifted
\* the capture thread stops where the bucket array would move
CHECK_DEADLOCK FALSE
