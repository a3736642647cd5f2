SPECIFICATION Spec
CONSTANTS
    a = a
    b = b
    r1 = r1
    r2 = r2
    r3 = r3
    acme = acme
    rejected = rejected
    noName = noName
    NoCall = NoCall
    Reqs = {r1, r2}
    Ids = {a}
    Calls <- MCRaces
    RejectedNames = {rejected}
    OversizedIds = {}
    PoolSize = 2
INVARIANTS
    TranslatedErrorReachesClient
CHECK_DEADLOCK FALSE
