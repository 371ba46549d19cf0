SPECIFICATION SlotSpec
CONSTANTS
    WordSize = 8
    Slot = 2
    Limit = 6
    HeaderSize = 1
    Images <- HeaderImages
INVARIANTS StatesAreTrue EntriesAreCode ClearStaysInSlot
