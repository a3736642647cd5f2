SPECIFICATION LiveSpec
CONSTANTS
    Configurations <- MCLowest
    CacheAlgorithms <- MCCacheAlgorithms
    MaxRequests = 1
    MaxKills = 0
PROPERTIES
    AcceptedSettingsServe
