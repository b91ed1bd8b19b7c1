SPECIFICATION FairSpec
CONSTANTS
    CacheKeys = {"day-model", "week-model"}
    Metrics = {"requests", "tokens"}
    MaxClients = 2
    MaxGeneration = 5
    MaxAccounts = 1
INVARIANTS
    TypeOK
    ShownFits
PROPERTIES
    LoadingEnds
CHECK_DEADLOCK FALSE
