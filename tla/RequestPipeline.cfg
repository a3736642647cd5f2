SPECIFICATION PipelineLiveSpec
CONSTANTS
    a = a
    r1 = r1
    r2 = r2
    NoCall = NoCall
    Reqs = {r1, r2}
    Ids = {a}
    Calls <- MCCalls
    RejectedNames <- MCRejected
    OversizedIds = {}
    PoolSize = 1
    Text <- MCText
    length <- MCLength
    strip <- MCStrip
    nfc <- MCNfc
    casefold <- MCCasefold
    db_nfc <- MCDbNfc
    db_casefold <- MCDbCasefold
    btrim <- MCBtrim
    ORG_NAME_MIN_LEN <- MCMinLen
    ORG_NAME_MAX_LEN <- MCMaxLen
    Requests <- MCRequests
    NoRequest = NoRequest
    Unreadable = Unreadable
    Nameless = Nameless
    Refused = Refused
INVARIANTS
    PipelineTypeOK
    EffectNeedsAdmission
    StatusTellsEffect
    OneSpellingStored
    TableRefusesOddNamesOnly
PROPERTIES
    EveryRequestSent
CHECK_DEADLOCK FALSE
