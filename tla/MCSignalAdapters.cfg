\* Every combinator.
CONSTANTS
    Kinds <- AllKinds
    Values = {1, 2, 3}
    Target = 2
    Keep = {2, 3}
    Image <- MCImage
    NoValue = NoValue
SPECIFICATION FairSpec
CHECK_DEADLOCK FALSE
INVARIANTS
    TypeOK
    AsleepUpToDate
    EndsRight
PROPERTIES
    ReturnsNews
    EventuallyEnds
