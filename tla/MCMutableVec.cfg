\* Two receivers, created and dropped at any time.
CONSTANTS
    r1 = r1
    r2 = r2
    x = x
    y = y
    Receivers <- TwoReceivers
    Values <- TwoValues
    MaxLen = 3
    MaxQueue = 1
SPECIFICATION Spec
CHECK_DEADLOCK FALSE
SYMMETRY Symmetry
INVARIANTS
    TypeOK
    DiffsApply
    ViewsAgree
PROPERTIES
    LoopsReachGoal
