SPECIFICATION Spec
CONSTANTS
    r1 = r1
    r2 = r2
    f2 = f2
    Runs = {r1, r2}
    Forced = {}
    Cutoff <- MCCutoff
    CellCount = 1
    Ticks = {t1, t2}
    Releases = {v1, v2}
    FirstRelease = v1
    NoRun = NoRun
    NoRelease = NoRelease
    NoRow = NoRow
    MaxLaunches = 3
    MaxDeploys = 1
SYMMETRY TickSymmetry
INVARIANT
    HeadIsFreshest
CHECK_DEADLOCK FALSE
