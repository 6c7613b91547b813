SPECIFICATION FairSpec
CONSTANTS
    c1 = c1
    c2 = c2
    s1 = s1
    k1 = k1
    None = None
    Connections <- MCConnections
    Sessions <- MCSessions
    ConnectionIDs <- MCConnectionIDs
    Bucket <- MCBucket
    TransactionIDs = {1, 2}
    BucketCount = 2
    Timeout = 1
    MaxTime = 2
    MaxPackets = 4
INVARIANTS
    AnnouncesAreReported
PROPERTIES
    OnlyIdleTrackersLeave
    CaptureGetsOn
