SPECIFICATION MaterialSpec
CONSTANTS
    k1 = k1
    k2 = k2
    t1 = t1
    t2 = t2
    t3 = t3
    Kids <- MCKids
    NoKid = NoKid
    UnhashableKid = UnhashableKid
    Absent = Absent
    KeyTypes <- MCKeyTypes
    KeyUses <- MCKeyUses
    Algorithms <- MCAlgorithms
    AllowedKeyTypes <- MCAllowedKeyTypes
    AllowedKeyUses <- MCAllowedKeyUses
    AllowedAlgorithms <- MCAllowedAlgorithms
    Documents <- MCDuplicate
    Tasks = {t1, t2, t3}
    NoTask = NoTask
    Starter = Starter
    NoAnswer = NoAnswer
    Never = Never
    CacheTtl = 1
    MaxStale = 1
    MinForced = 1
    MaxTransit = 1
SYMMETRY TaskSymmetry
INVARIANTS
    LockInv
    MaterialInv
PROPERTIES
    FetchJustified
    ReplacementWindow
