SPECIFICATION Spec20
CONSTANTS
    Attempts = {v1, v2}
    V200 = {v2}
    Devices = {d1}
    Guids = {g1, g2, g3}
    Keys = {k1, k2}
    Rvs = {rv1}
    Nil = Nil
    MaxEntries = 1
    MaxRounds = 3
    MaxModules = 2
    MaxRotations = 0
    AllowCredentialReuse = TRUE
    ErrorsReachServer = TRUE
    InitGuid <- MCInitGuid
    InitMfg = k1
    d1 = d1
    g1 = g1
    g2 = g2
    g3 = g3
    k1 = k1
    k2 = k2
    v1 = v1
    v2 = v2
CHECK_DEADLOCK FALSE
SYMMETRY Symmetry
INVARIANTS
    TypeOK20
    VoucherAuthentic
    ModulesStopped
PROPERTIES
    EndsAgree
    ImplementsOwnership
