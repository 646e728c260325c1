CONSTANTS
    Request = {r1, r2}
    Budget = 10
    Commission = 1
    Amounts = {0, 10, 12, 13, 16}
SYMMETRY Symmetric
SPECIFICATION DeskSpec
INVARIANTS
    EscrowFollowsStripe
    MissionFollowsMoney
    DisputedHasCase
    CardIsCovered
PROPERTIES
    EndIsFinal
    LedgerPromise
CHECK_DEADLOCK FALSE
