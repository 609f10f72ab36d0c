SPECIFICATION Spec
CONSTANTS
    Kinds <- MCKinds
    Lists <- MCLists
    Contents <- MCContents
    ChunkSize = 1
    MaxRounds = 9
    MaxCalls = 2
    MaxFaults = 1
    MaxEdits = 1
    Urls = {u1, u2}
    Bad = bad
    TimeoutSet = TRUE
    MaxOutput = 2
    MaxSignals = 1
    Nil = Nil
CHECK_DEADLOCK FALSE
INVARIANTS
    UndisturbedSucceeds
PROPERTIES
    ArrivesIntact
    OutputBeforeExit
    CompleteIsComplete
