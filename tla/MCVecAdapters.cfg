\* Every adapter, without Moves for filter.
CONSTANTS
    Values <- MCValues
    Image <- MCImage
    Keep = {2}
    Rank <- TwoRanks
    MaxLen = 3
    MaxQueue = 1
    Moves = FALSE
    Adapters = {"map", "filter", "sort", "enumerate", "len", "is_empty", "to_signal_map", "sum"}
SPECIFICATION FairSpec
CHECK_DEADLOCK FALSE
INVARIANTS
    TypeOK
    OutputFollowsInput
PROPERTIES
    EventuallyTaken
