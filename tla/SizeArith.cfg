CONSTANTS
    SizeBits = 12
    IntBits = 6
SPECIFICATION Spec
INVARIANT CheckCoversRange
