SPECIFICATION ArchiveSpec
CONSTANTS
    x = x
    y = y
    MaxTime = 2
    Files <- MCFiles
    File <- MCFile
    Timeout = 0
    MaxWrites = 3
    MaxCrashes = 1
    Faults <- MCFaults
    Characters <- MCCharacters
    MACs <- MCMACs
    HTTPSessions <- MCHTTPSessions
    Jobs <- MCJobs
    Commands <- MCCommands
    Meaning <- MCMeaning
    Deletions <- MCDeletions
    ReaderFaults <- MCReaderFaults
INVARIANTS
    NumberedWithoutGaps
    FlushedStaysOnDisk
    StoredIsKept
    DeadHandlesNeedAFailure
    ReadsEveryRecord
    OutputIsWhatWasCaptured
\* the model stops where the code's behaviour is undefined
CHECK_DEADLOCK FALSE
