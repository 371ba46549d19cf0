SPECIFICATION FairSpec
CONSTANTS
    MaxTasks = 3
    Natives <- OneNative
    Statuses <- OneStatus
    Operations <- TimerOperations
    TickModulus = 6
    MaxTimeout = 2
INVARIANTS
    WaitsAreRegistered
    NoLineIsOverwritten
PROPERTIES
    NoEarlyWake
    ResponseReachesAsker
    TimedWaitsEnd
    RunnablesRun
