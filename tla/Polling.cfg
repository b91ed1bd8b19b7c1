SPECIFICATION FairSpec
CONSTANTS
    MaxClients = 2
    Slots = {1, 2}
    MaxChanges = 2
    MaxFailures = 1
    MaxEvents = 2
INVARIANTS
    ShownIsOfTheConnection
PROPERTIES
    NothingStepsBack
    DisabledStays
    SettlesOnCurrent
CHECK_DEADLOCK FALSE
