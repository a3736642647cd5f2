SPECIFICATION Spec
CONSTANTS
    a = a
    b = b
    r1 = r1
    r2 = r2
    r3 = r3
    acme = acme
    rejected = rejected
    noName = noName
    NoCall = NoCall
    Reqs = {r1, r2, r3}
    Ids = {a, b}
    Calls <- MCCalls
    RejectedNames = {rejected}
    OversizedIds = {b}
    PoolSize = 2
SYMMETRY ReqSymmetry
INVARIANTS
    TypeOK
    OrgInv
    RequestInv
    LocksInv
    HoldersProceed
    FirstLoginOnce
    ConnectionsReturned
CHECK_DEADLOCK FALSE
