SPECIFICATION Spec
CONSTANTS
    MaxLaunches = 2
    MaxLifecycles = 1
    MaxBoots = 1
    MaxRapidFailures = 2
    ZombieIsRunning = TRUE
    Commands = {"stop"}
INVARIANTS
    StopIsFinal
