SPECIFICATION Spec
CONSTANTS
    r1 = r1
    r2 = r2
    f2 = f2
    Runs = {r1, r2, f2}
    Forced = {f2}
    Cutoff <- MCCutoff
    CellCount = 2
    Ticks = {t1, t2}
    Releases = {v1, v2}
    FirstRelease = v1
    NoRun = NoRun
    NoRelease = NoRelease
    NoRow = NoRow
    MaxLaunches = 3
    MaxDeploys = 1
SYMMETRY TickSymmetry
INVARIANTS
    HeadChain
    HeadIsPublished
    ShortfallNeverServed
    NoRecapture
    CaptureIsBindable
PROPERTIES
    AppendOnly
    ImplementsRegistry
CHECK_DEADLOCK FALSE
