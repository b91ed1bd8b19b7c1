CONSTANTS
    Instances = {i1, i2, i3}
    Accounts = {a1, a2}
    Lists = {l1}
    NoAccount = NoAccount
    GatewayFails = TRUE
SPECIFICATION Spec
SYMMETRY Symmetry
INVARIANTS TypeOK SessionKeepsItsBinding OneSessionPerAccount ReleasedAfterExit
PROPERTIES ImplementsAccountPool
CHECK_DEADLOCK FALSE
