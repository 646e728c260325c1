CONSTANTS
    w1 = w1
    w2 = w2
    p1 = p1
    p2 = p2
    Penalty = {p1, p2}
    Worker = {w1, w2}
    MaxFeeAttempts = 2
    BatchLimit = 2
SPECIFICATION FeeFairSpec
INVARIANTS
    DebitsAreRight
    SuspendedAtLast
PROPERTIES
    ComesToRest
