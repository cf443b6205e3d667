\* One thread, and several threads whose calls overlap, close among them.
CONSTANTS
    a = a
    b = b
    c = c
    Senders <- ThreeSenders
    MaxSent = 3
    UsizeModulus = 8
    Modes = {"single", "threads"}
SPECIFICATION FairSpec
CHECK_DEADLOCK FALSE
INVARIANTS
    TypeOK
    SendersCounted
PROPERTIES
    RefinesCell
    SingleCatchesUp
