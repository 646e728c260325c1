SPECIFICATION ClientSpec

CONSTANTS
    t1 = t1
    t2 = t2
    c1 = c1
    c2 = c2
    v1 = v1
    v2 = v2
    f1 = f1
    f2 = f2
    Token = {t1, t2}
    Call = {c1, c2}
    MaxLists = 2
    MaxOps = 1
    Kills = 1
    Verifier = {v1, v2}
    MaxAttempts = 2
    MaxCodes = 2
    Fetch = {f1, f2}
    MaxMoves = 4
    h1 = h1
    h2 = h2
    Hit = {h1, h2}
    MaxHits = 2
    Window = 4
    MaxLag = 1

INVARIANTS
    MemoryMatchesStore
    EntryIsBounded
    DarkIsDone

PROPERTIES
    NoPunishment
    ScreensNeverGoBack
    ComesToKnow

CHECK_DEADLOCK FALSE
