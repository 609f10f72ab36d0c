SPECIFICATION Spec
CONSTANTS
    Regs = {r1, r2}
    Lookups = {l1}
    Owners = {o1, o2}
    Guids = {g1}
    Nil = Nil
    TTLs = {1}
    Ticks = 2
    MaxTime = 3
    MaxEntries = 2
CHECK_DEADLOCK FALSE
SYMMETRY Symmetry
INVARIANTS
    TypeOK
    AcceptedStays
    OneChain
PROPERTIES
    RedirectsAreCurrent
