\* Programs whose locks nest without and with cycles.
CONSTANTS
    a = a
    b = b
    c = c
    t1 = t1
    t2 = t2
    t3 = t3
    NoOne = NoOne
    Mutables <- ThreeMutables
    Threads <- ThreeThreads
    Initial <- MCInitial
    Orders <- MCOrders
    MaxCalls = 3
SPECIFICATION FairSpec
CHECK_DEADLOCK FALSE
INVARIANTS
    TypeOK
    NoDeadlock
    LatestNotLost
PROPERTIES
    RefinesCells
    CallsReturn
