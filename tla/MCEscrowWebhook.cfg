CONSTANTS
    Budget = 5
    Commission = 1
    PurchaseAmounts <- MCPurchaseAmounts
    RefundAmounts <- MCRefundAmounts
    MaxFailures = 1
    MaxCaptureIds = 2
    MaxConcurrent = 2
    MaxTimeouts = 1
    RouteEdges <- MCRouteEdges
SPECIFICATION LiveSpec
INVARIANTS
    LedgerBalanced
    ReleasePaysOnce
    CaptureIsReal
    RefundIsHighWater
PROPERTIES
    TerminalEscrowImmutable
    AccountPromise
    CaptureEventuallyBooked
