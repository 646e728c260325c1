CONSTANTS
    Event = {e1, e2}
    Instance = {i1, i2}
    MaxAttempts = 3
SPECIFICATION FairSpec
INVARIANTS
    RefundIsReal
PROPERTIES
    FrozenIsHandled
CHECK_DEADLOCK FALSE
