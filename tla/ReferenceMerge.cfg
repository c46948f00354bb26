CONSTANTS
    t1 = t1
    t2 = t2
    r1 = r1
    r2 = r2
    Lei = "lei"
    Cik = "cik"
    Ticks <- MCTicks
    Uses <- MCUses
    MaxTime = 2
    MaxLaunches = 2
    MaxProofs = 1
    MaxRuns = 1
    Parts = {"identity"}
    OverlapSession = 2
    Runs = {r1}
    MaxSession = 2
    MaxSplits = 0
    Lookback = 1
    MaxLag = 1
    SplitSize = 7
    JumpLimit = 4
    MaxMove = 5
SPECIFICATION MCSpec
PROPERTY ProofMerges
CHECK_DEADLOCK FALSE
