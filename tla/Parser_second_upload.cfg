SPECIFICATION FairSpec
CONSTANTS
    Streams <- TwoForms
    SizeBits = 8
    SplitSizes = FALSE
CHECK_DEADLOCK FALSE
PROPERTY ParseReturns
