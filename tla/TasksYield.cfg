SPECIFICATION Spec
CONSTANTS
    MaxTasks = 3
    Natives <- OneNative
    Statuses <- OneStatus
    Operations <- TurnOperations
    TickModulus = 1
    MaxTimeout = 0
PROPERTIES
    ResponseReachesYielder
