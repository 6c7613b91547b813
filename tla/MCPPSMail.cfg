SPECIFICATION Spec
CONSTANTS
    b1 = b1
    b2 = b2
    None = None
    IPs <- MCIPs
    Networks <- MCNetworks
    Bucket <- MCBucket
    Blocks <- MCBlocks
    BucketCount = 2
    Timeout = 1
    Threshold = 1
    MailInterval = 2
    FlushInterval = 1
    MaxTime = 4
    MaxPackets = 3
PROPERTIES
    MailsSpaced
CHECK_DEADLOCK FALSE
