SPECIFICATION Spec
CONSTANTS
    k1 = k1
    k2 = k2
    Kids <- MCKids
    NoKid = NoKid
    UnhashableKid = UnhashableKid
    Absent = Absent
    KeyTypes <- MCKeyTypes
    KeyUses <- MCKeyUses
    Algorithms <- MCAlgorithms
    AllowedKeyTypes <- MCAllowedKeyTypes
    AllowedKeyUses <- MCAllowedKeyUses
    AllowedAlgorithms <- MCAllowedAlgorithms
    Bodies <- MCBodies
INVARIANTS
    ParseCorrect
CHECK_DEADLOCK FALSE
