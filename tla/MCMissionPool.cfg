CONSTANTS
    Request = {r1, r2}
    Faults = {"lost_answer"}
    MaxRetries = 1
SPECIFICATION PoolFairSpec
INVARIANTS
    HoldIsTracked
PROPERTIES
    EscrowRowKept
    TakenIsKept
    OrphanResolved
    UnbegunReservationEnds
CHECK_DEADLOCK FALSE
