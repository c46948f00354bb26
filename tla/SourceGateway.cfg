CONSTANTS
    p1 = p1
    p2 = p2
    p3 = p3
    k1 = k1
    NoKey = NoKey
    Procs <- MCProcs
    Forced <- MCNone
    Keys <- MCKey
    Budget = 2
    Calls = 2
    Window = 2
    MaxWait = 3
    DayLength = 4
    MaxTime = 4
    Finals <- MCFinal
    MaxCalls = 3
    MaxFaults = 1
SPECIFICATION Spec
INVARIANTS BudgetOvershoot WindowOvershoot
SYMMETRY Symmetry
CHECK_DEADLOCK FALSE
