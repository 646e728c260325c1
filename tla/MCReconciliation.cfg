CONSTANTS
    Budget = 5
    Commission = 1
    PurchaseAmounts <- MCPurchaseAmounts
    RefundAmounts <- MCRefundAmounts
    MaxFailures = 1
    MaxCaptureIds = 1
    MaxConcurrent = 1
    MaxTimeouts = 0
    RouteEdges <- MCRouteEdges
SPECIFICATION ReconFairSpec
CHECK_DEADLOCK FALSE
INVARIANTS
    AlarmsAreRight
PROPERTIES
    CaptureEventuallyKnown
