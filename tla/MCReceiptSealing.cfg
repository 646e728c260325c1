CONSTANTS
    Job = {j1}
    Instance = {i1, i2}
    Amount = {1, 2}
    MaxAttempts = 4
SPECIFICATION FairSpec
INVARIANTS
    ReceiptHasItsJob
PROPERTIES
    EventuallyDecided
CHECK_DEADLOCK FALSE
