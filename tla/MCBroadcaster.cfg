\* One thread, and several threads.
CONSTANTS
    c1 = c1
    c2 = c2
    NoOne = NoOne
    Children <- TwoChildren
    MaxVersion = 3
    Modes = {"single", "threads"}
SPECIFICATION FairSpec
CHECK_DEADLOCK FALSE
INVARIANTS
    TypeOK
    EpochTellsValue
PROPERTIES
    RefinesCell
    SingleCatchesUp
