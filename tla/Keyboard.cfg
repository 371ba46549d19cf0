SPECIFICATION Spec
CONSTANTS
    Lines <- TwoLines
    Bits <- OneBit
    Capacity = 2
INVARIANTS EventsTellTheMatrix
PROPERTIES TransitionsAreReal
