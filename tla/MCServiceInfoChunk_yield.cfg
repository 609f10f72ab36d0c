SPECIFICATION Spec
CONSTANTS
    short = short
    long = long
    Keys = {short, long}
    KeyLen <- MCKeyLen
    Lengths <- MCLengths
    MaxInfos = 2
    Mtus <- MCMtus
    MaxBlocks = 1
    Nil = Nil
CHECK_DEADLOCK FALSE
INVARIANT
    SentAfterYield
