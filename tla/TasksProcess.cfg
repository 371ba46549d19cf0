SPECIFICATION Spec
CONSTANTS
    MaxTasks = 4
    Natives <- TwoNatives
    Statuses <- TwoStatuses
    Operations <- ProcessOperations
    TickModulus = 1
    MaxTimeout = 0
INVARIANTS
    OneRunner
    WaitersHaveLiveChildren
    MemoryIsNotShared
PROPERTIES
    OrphansAreNotAdopted
    TreeSpec
    SchedulerSpec
    ApproachesEveryWaiter
