SPECIFICATION FairSpec
CONSTANTS
    f1 = f1
    f2 = f2
    Flows <- MCFlows
    MaxCalls = 3
    MaxFlushes = 2
    Finishes = TRUE
    Refusals = TRUE
INVARIANTS
    ExactlyOnceInOrder
    FlushNotForgotten
PROPERTIES
    ImplementsRecordLog
    WakeupDrainsAll
\* the client may have made its last call, with the thread waiting
CHECK_DEADLOCK FALSE
