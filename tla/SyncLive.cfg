CONSTANTS
    NTargets = 2
    Units = {u}
    Values = {x, y}
    NoText = NoText
    Runs = {service}
    Service = service
    Nobody = Nobody
    MaxRev = 2
    MaxEdits = 1
    MaxStarts = 0
    MaxFaults = 2
SPECIFICATION FairSpec
PROPERTIES Converges
