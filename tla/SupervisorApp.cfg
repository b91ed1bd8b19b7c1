SPECIFICATION Spec
CONSTANTS
    MaxLaunches = 2
    MaxLifecycles = 2
    MaxBoots = 2
    MaxRapidFailures = 2
    ZombieIsRunning = TRUE
    Commands = {"start", "stop", "restart", "update", "quit", "kill"}
INVARIANTS
    TypeOK
    OutageIsExplained
    NoRecycledPid
    SingleGateway
    OwnGatewayIsTracked
PROPERTIES
    ForgottenOnlyWhenDead
    ImplementsService
CHECK_DEADLOCK FALSE
