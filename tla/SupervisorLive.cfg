SPECIFICATION FairSpec
CONSTANTS
    MaxLaunches = 2
    MaxLifecycles = 2
    MaxBoots = 1
    MaxRapidFailures = 2
    ZombieIsRunning = TRUE
    Commands = {"start", "stop", "restart"}
PROPERTIES
    OutageEnds
    CommandsAnswer
