SPECIFICATION MCSpec
CONSTANTS
    r1 = r1
    r2 = r2
    f2 = f2
    Runs = {r1, r2, f2}
    Forced = {f2}
    Cutoff <- MCCutoff
    CellCount = 1
    Ticks = {t1, t2}
    Releases = {v1, v2}
    FirstRelease = v1
    NoRun = NoRun
    NoRelease = NoRelease
    NoRow = NoRow
    MaxLaunches = 3
    MaxDeploys = 0
    Symbols = {1, 2, 3, 4, 5}
    MaxBroken = 1
    ListingLag = 1
    RefreshEvery = 2
    Credits = 2
    MaxRetries = 1
    MaxLag = 8
    MaxFaults = 1
INVARIANT
    WithinLag
PROPERTIES
    EveryTickEnds
    EverySymbolRefreshed
CHECK_DEADLOCK FALSE
