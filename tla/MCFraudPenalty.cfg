CONSTANTS
    Worker = {w1, w2}
    MaxAttempts = 3
    Overlap = FALSE
SPECIFICATION FairSpec
INVARIANTS
    BuyerWaitsForDebit
PROPERTIES
    DebitPromise
    EventuallyResolved
CHECK_DEADLOCK FALSE
