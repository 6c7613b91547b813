SPECIFICATION FairProcessSpec
CONSTANTS
    ModuleCounts <- MCModuleCounts
    MaxSigterms = 2
    Faults = TRUE
    SensorFiles <- MCSensorFiles
    ModuleFiles <- MCModuleFiles
    FilterAccepts <- MCFilterAccepts
    Frames <- MCFrames
    LoadFaults <- AllFaults
INVARIANTS
    PidFileRemoved
    PidFileBeforeParentReturns
    SessionsHaveConsumers
    PacketsReachTheirModules
    PayloadIsOfThisPacket
PROPERTIES
    LoweredCaptureStops
    ImplementsSensor
\* the sensor exits, and a handler can lock its own thread up
CHECK_DEADLOCK FALSE
