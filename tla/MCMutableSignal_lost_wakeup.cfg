\* Calls of several threads overlap: a wake-up is lost.
CONSTANTS
    h1 = h1
    h2 = h2
    s1 = s1
    s2 = s2
    NoOne = NoOne
    Handles <- TwoHandles
    Signals <- OneSignal
    MaxVersion = 3
    Modes = {"threads"}
    Repolls = TRUE
SPECIFICATION FairSpec
CHECK_DEADLOCK FALSE
PROPERTIES
    EventuallyLatest
