SPECIFICATION Spec
CONSTANTS
    Callers = {c1, c2}
    Ids = {s1, s2}
    c1 = c1
    c2 = c2
    s1 = s1
    s2 = s2
    Protocols = {"DI", "TO2"}
    Fields = {"x509_chain", "guid", "mtu"}
    Values = {v1, zero}
    Zero = zero
    MaxRestarts = 1
SYMMETRY Symmetry
CHECK_DEADLOCK FALSE
INVARIANTS
    NoOrphans
PROPERTIES
    ContractHolds
