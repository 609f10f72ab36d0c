SPECIFICATION Spec
CONSTANTS
    Calls = {c1, c2, c3}
    Devices = {d1, d2}
    Guids = {g1, g2, g3}
    Rvs = {rv1, rv2}
    MfgKey = mfg
    OwnerKey = owner
    AutoExtend = TRUE
    AutoTO0 = TRUE
    Nil = Nil
CHECK_DEADLOCK FALSE
SYMMETRY Symmetry
INVARIANTS
    CredentialBacked
    InitializedIsRegistered
    OrphansExplained
