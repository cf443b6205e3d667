\* One thread, and several threads.
CONSTANTS
    Steps = 8
    Modes = {"single", "threads"}
SPECIFICATION FairSpec
CHECK_DEADLOCK FALSE
INVARIANTS
    TypeOK
PROPERTIES
    EventuallyDone
