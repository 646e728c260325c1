CONSTANTS
    Row = {r1}
    Instance = {i1, i2}
    Faults = {"lost_answer"}
SPECIFICATION CompFairSpec
INVARIANTS
    SettledIsCredited
PROPERTIES
    EventuallyCompensated
CHECK_DEADLOCK FALSE
