SPECIFICATION Spec
CONSTANTS
    a1 = a1
    a2 = a2
    u1 = u1
    u2 = u2
    Apps = {a1, a2}
    UserKeys = {u1, u2}
    NoKey = NoKey
    MaxEdits = 2
    MaxFaults = 1
SYMMETRY KeySymmetry
INVARIANTS
    TypeOK
    NotLockedOut
    ConsoleKeyOpens
    EditsKept
CHECK_DEADLOCK FALSE
