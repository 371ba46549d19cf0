SPECIFICATION Spec
CONSTANTS
    MaxTasks = 3
    Reasons <- MCReasons
    Statuses <- MCStatuses
    FlagSets <- MCFlagSets
INVARIANTS
    WaitsAreRemembered
PROPERTIES
    ZombiesAreFinal
