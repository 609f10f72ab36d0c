SPECIFICATION FairSpec
CONSTANTS
    Replies <- MCReplies
    Names <- MCNames
    MaxRounds = 3
    MaxCalls = 2
CHECK_DEADLOCK FALSE
INVARIANTS
    HearEachOther
    StoppedWithModule
PROPERTIES
    CallEnds
