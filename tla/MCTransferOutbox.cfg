CONSTANTS
    Row = {r1, r2}
    Worker = {w1, w2}
    MaxAttempts = 3
    Overlap = FALSE
SPECIFICATION FairSpec
PROPERTIES
    TransferPromise
    EventuallyResolved
CHECK_DEADLOCK FALSE
