SPECIFICATION ConsoleSpec
CONSTANTS
    s1 = s1
    s2 = s2
    MaxClients = 2
    Slots = {s1, s2}
    MaxChanges = 0
    MaxFailures = 1
    MaxEvents = 2
    MaxReadFailures = 1
SYMMETRY SlotSymmetry
INVARIANTS
    ConsoleTypeOK
    OnlyOwnValuesSaved
CHECK_DEADLOCK FALSE
