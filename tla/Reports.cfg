CONSTANTS
    Ops = {"o1", "o2"}
    Questions = {1, 2}
    Kinds = {"purity", "supply", "backfill", "own"}
    Configurations <- MCConfigurations
    Pinned = "pinned"
    MaxLaunches = 2
    MaxCalls = 3
    MaxFaults = 1
SPECIFICATION MCSpec
INVARIANTS AnsweredOnce
PROPERTIES ReplayIsStable EveryOpEnds ReportsFollowHead RedIsRetried
CHECK_DEADLOCK FALSE
