SPECIFICATION FairSpec
CONSTANTS
    f1 = f1
    f2 = f2
    Flows <- MCFlows
    MaxCalls = 2
    MaxFlushes = 2
    Finishes = FALSE
    Refusals = FALSE
PROPERTIES
    FlushReachesDisk
CHECK_DEADLOCK FALSE
