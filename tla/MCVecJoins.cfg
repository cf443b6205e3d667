\* Every combinator, without what they get wrong.
CONSTANTS
    Joins <- AllJoins
    Values <- MCValues
    Keys = {1, 2}
    PartValues = {1, 2}
    RightValues = {3}
    Keep = {2}
    MaxLen = 2
    MaxPart = 2
    MaxDelayed = 4
    MaxQueue = 2
    MaxQueued = 2
    Awkward = {}
SPECIFICATION Spec
CHECK_DEADLOCK FALSE
INVARIANTS
    TypeOK
    OutputFollowsInputs
    EndIsTold
