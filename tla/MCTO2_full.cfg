SPECIFICATION Spec
CONSTANTS
    Attempts = {a1, a2}
    Devices = {d1}
    Guids = {g1, g2, g3}
    Keys = {k1, k2}
    Rvs = {rv1}
    Nil = Nil
    MaxEntries = 1
    MaxRounds = 2
    MaxModules = 1
    MaxRotations = 1
    AllowCredentialReuse = TRUE
    ErrorsReachServer = TRUE
    InitGuid <- MCInitGuid
    InitMfg = k1
    d1 = d1
    g1 = g1
    g2 = g2
    g3 = g3
    k1 = k1
    k2 = k2
CHECK_DEADLOCK FALSE
SYMMETRY Symmetry
INVARIANTS
    TypeOK
    VoucherAuthentic
    DeviceAcceptsItsVoucher
    StrandedOnlyByLostDone
PROPERTIES
    ImplementsOwnership
