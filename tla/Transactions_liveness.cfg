SPECIFICATION LiveSpec
CONSTANTS
    a = a
    b = b
    r1 = r1
    r2 = r2
    r3 = r3
    acme = acme
    rejected = rejected
    noName = noName
    NoCall = NoCall
    Reqs = {r1, r2}
    Ids = {a, b}
    Calls <- MCCalls
    RejectedNames = {rejected}
    OversizedIds = {b}
    PoolSize = 2
PROPERTIES
    EveryRequestAnswered
    EveryTransactionEnds
    ImplementsService
CHECK_DEADLOCK FALSE
