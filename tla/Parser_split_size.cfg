SPECIFICATION Spec
CONSTANTS
    Streams <- ChunksOnly
    SizeBits = 8
    SplitSizes = TRUE
CHECK_DEADLOCK FALSE
INVARIANT NothingThrown
