SPECIFICATION Spec
CONSTANTS
    Tasks <- MCTasks
    Names = {alpha, beta}
    MaxLength = 1
    MaxSerial = 3
INVARIANTS
    OwnersAreLive
    QueuedSenderIsLive
PROPERTIES
    HandlesAreFresh
    MessagesAreKept
