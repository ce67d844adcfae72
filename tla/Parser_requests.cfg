SPECIFICATION FairSpec
CONSTANTS
    Streams <- OneForm
    SizeBits = 8
    SplitSizes = FALSE
CHECK_DEADLOCK FALSE
INVARIANTS TypeOK BodiesArrive NothingRejected NoMutualWait
PROPERTY ParseReturns
