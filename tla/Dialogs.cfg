CONSTANTS
    Sessions = {s1, s2}
    NoSession = NoSession
    Models = {m1, m2}
    MaxClients = 2
    MaxReads = 2
    MaxEvents = 5
    MaxFailures = 1
SPECIFICATION FairSpec
INVARIANTS
    TypeOK
    ShownIsCurrent
    PanelTellsTruth
PROPERTIES OutcomeIsNoticed
CHECK_DEADLOCK FALSE
