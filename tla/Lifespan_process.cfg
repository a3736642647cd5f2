SPECIFICATION LiveSpec
CONSTANTS
    Configurations <- MCConfigurations
    CacheAlgorithms <- MCCacheAlgorithms
    MaxRequests = 2
    MaxKills = 1
INVARIANTS
    TypeOK
    ServingIsComplete
    ReleasedOnExit
PROPERTIES
    ServesWhenDependenciesStay
    ProcessEnds
