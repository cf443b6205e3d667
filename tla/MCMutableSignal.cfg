\* One thread, and several threads.
CONSTANTS
    h1 = h1
    h2 = h2
    s1 = s1
    s2 = s2
    NoOne = NoOne
    Handles <- TwoHandles
    Signals <- TwoSignals
    MaxVersion = 3
    Modes = {"single", "threads"}
    Repolls = TRUE
SPECIFICATION FairSpec
CHECK_DEADLOCK FALSE
INVARIANTS
    TypeOK
    LatestNotLost
    SendersCountsHandles
    FirstPollReturnsValue
    NoLostWakeup
    EndsWithLatest
PROPERTIES
    RefinesCell
    SingleCatchesUp
