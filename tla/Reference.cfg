CONSTANTS
    t1 = t1
    t2 = t2
    r1 = r1
    r2 = r2
    Lei = "lei"
    Cik = "cik"
    Ticks <- MCTicks
    Uses <- MCUses
    MaxTime = 2
    MaxLaunches = 2
    MaxProofs = 1
    MaxRuns = 2
    Parts = {"identity", "prices", "overlap"}
    OverlapSession = 3
    Runs <- MCRuns
    MaxSession = 5
    MaxSplits = 2
    Lookback = 2
    MaxLag = 1
    SplitSize = 7
    JumpLimit = 4
    MaxMove = 5
SPECIFICATION MCSpec
INVARIANTS ResolvesToOne CapturedIdContinues ValueOnOneBasis
SYMMETRY Symmetry
CHECK_DEADLOCK FALSE
