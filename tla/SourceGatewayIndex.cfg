CONSTANTS
    p1 = p1
    p2 = p2
    p3 = p3
    k1 = k1
    NoKey = NoKey
    Procs <- MCThree
    Forced <- MCForced
    Keys <- MCKey
    Finals <- MCFinals
    Budget = 6
    Calls = 6
    Window = 1
    MaxWait = 1
    DayLength = 2
    MaxTime = 0
    MaxCalls = 3
    MaxFaults = 1
SPECIFICATION Spec
INVARIANT RepeatsBounded
SYMMETRY Symmetry
CHECK_DEADLOCK FALSE
