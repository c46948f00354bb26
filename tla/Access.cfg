CONSTANTS
    Parts = {"reuse", "library", "call"}
    r1 = r1
    r2 = r2
    r3 = r3
    Runs <- MCRuns
    MaxForced = 1
    Cutoffs = {10, 11, 12}
    PerDay = 4
    Close = 3
    MaxAge = 2
    Parsers = {1, 2}
    Schemes = {"lei"}
    Documents = {1, 2, 3}
    Tickets = {"t1"}
    Redeemers = {"p1", "p2"}
    Limit = 1
    Resolution = 2
    MaxTime = 2
    Callers = {"c1", "c2", "c3"}
    Slots = 2
    Window = 3
    Rate = 2
    MaxAttempts = 3
    InitialBackoff = 1
    BackoffFactor = 2
    MaxBackoff = 2
    JitterPercent = 50
    MinTotalWait = 3
    Deadline = 6
    LatestStart = 0
    MaxNow = 8
SPECIFICATION MCSpec
INVARIANTS ReusedIsRecent ReusedCellIsWhole PagesComplete ServedOnce WaitsWithinDeadline PacerHolds
PROPERTIES GivesUpLate
SYMMETRY Symmetry
CHECK_DEADLOCK FALSE
