CONSTANTS
    Row = {r1}
    Instance = {i1, i2}
    Faults = {}
SPECIFICATION CompSpec
INVARIANTS
    CreditedOnce
CHECK_DEADLOCK FALSE
