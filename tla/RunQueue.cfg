CONSTANTS
    t1 = t1
    t2 = t2
    r1 = r1
    w1 = w1
    w2 = w2
    Ticks <- MCTicks
    Reports <- MCReports
    Waiters <- MCWaiters
    Addressed <- MCAddressed
    Slots = 2
    WaitLimit = 1
    MaxRestarts = 1
SPECIFICATION FairSpec
PROPERTY QueueMoves
CHECK_DEADLOCK FALSE
