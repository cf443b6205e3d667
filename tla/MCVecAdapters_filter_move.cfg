\* A filter whose input sends Moves.
CONSTANTS
    Values <- MCValues
    Image <- MCImage
    Keep = {2}
    Rank <- TwoRanks
    MaxLen = 3
    MaxQueue = 1
    Moves = TRUE
    Adapters = {"filter"}
SPECIFICATION Spec
CHECK_DEADLOCK FALSE
INVARIANTS
    OutputFollowsInput
