SPECIFICATION FairSpec
CONSTANTS
    Scripts <- MCScripts
    Capacities = {0, 1, 3}
    MaxChunk = 2
CHECK_DEADLOCK FALSE
INVARIANTS
    InOrder
    ErrorArrivesOrBreak
    PanicsOnlyIfAbandoned
PROPERTIES
    BothEnd
