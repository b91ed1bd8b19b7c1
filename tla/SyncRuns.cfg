CONSTANTS
    NTargets = 1
    Units = {u}
    Values = {x, y}
    NoText = NoText
    Runs = {service, manual}
    Service = service
    Nobody = Nobody
    MaxRev = 2
    MaxEdits = 1
    MaxStarts = 1
    MaxFaults = 1
SPECIFICATION Spec
SYMMETRY Symmetry
INVARIANTS TypeOK CleanMeansSynced
PROPERTIES OwnTextKept
