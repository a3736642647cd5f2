SPECIFICATION AuthSpec
CONSTANTS
    k1 = k1
    k2 = k2
    t1 = t1
    t2 = t2
    api = api
    spa = spa
    write = write
    Kids <- MCKids
    NoKid = NoKid
    UnhashableKid = UnhashableKid
    Absent = Absent
    KeyTypes <- MCKeyTypes
    KeyUses <- MCKeyUses
    Algorithms <- MCAlgorithms
    AllowedKeyTypes <- MCAllowedKeyTypes
    AllowedKeyUses <- MCAllowedKeyUses
    AllowedAlgorithms <- MCAllowedAlgorithms
    Documents <- MCDocuments
    Tasks = {t1, t2}
    NoTask = NoTask
    Starter = Starter
    NoAnswer = NoAnswer
    Never = Never
    CacheTtl = 1
    MaxStale = 0
    MinForced = 1
    MaxTransit = 0
    Clients <- MCClients
    Audiences <- MCAudiences
    VerifierAlgorithms <- MCAllowedAlgorithms
    Scopes <- MCScopes
    Requests <- MCRequests
    NoToken = NoToken
    NoRequest = NoRequest
    MaxLife = 1
SYMMETRY TaskSymmetry
INVARIANTS
    AuthTypeOK
PROPERTIES
    AdmissionSound
    CacheRefusalJustified
