SPECIFICATION Spec
CONSTANTS
    Procs = {p1, p2, p3}
    MaxFirstStarts = 2
    p1 = p1
    p2 = p2
    p3 = p3
    KeyTypes <- MCKeyTypes
    CreateKeys <- MCCreateKeys
    Names = {"SECP384R1"}
SYMMETRY Symmetry
CHECK_DEADLOCK FALSE
INVARIANTS
    KeysAreFound
    DevicesAreServed
    LeafSpeaksForChain
PROPERTIES
    KeysNeverChange
