SPECIFICATION FairSpec
CONSTANTS
    short = short
    long = long
    Keys = {short, long}
    KeyLen <- MCKeyLen
    Lengths <- MCLengths
    MaxInfos = 3
    Mtus <- MCMtus
    MaxBlocks = 1
    Nil = Nil
CHECK_DEADLOCK FALSE
INVARIANTS
    FitsMTU
    InOrder
    NothingLost
PROPERTIES
    RoundEnds
