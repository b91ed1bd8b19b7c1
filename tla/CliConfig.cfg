SPECIFICATION Spec
CONSTANTS
    Paths = {p1, p2}
    Texts = {t1, bad}
    Malformed = {bad}
    Gens = {g1}
    Missing = Missing
    Empty = Empty
    NoGen = NoGen
    NoRecord = NoRecord
    Troubles = {"fail", "crash", "race"}
SYMMETRY Symmetry
INVARIANTS TypeOK UserSettingsKept NoStrandedFile BackupOutlivesRecord
PROPERTIES RestorePutsBack
