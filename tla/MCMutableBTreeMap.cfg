\* Two readers of any kind, created and dropped at any time.
CONSTANTS
    r1 = r1
    r2 = r2
    x = x
    y = y
    Receivers <- TwoReceivers
    Values <- TwoValues
    Keys = {1, 2, 3}
    WatchKey = 2
    Image <- MCImage
    Kinds = {"map", "map_value", "keys", "entries", "watch"}
    MaxQueue = 1
SPECIFICATION Spec
CHECK_DEADLOCK FALSE
SYMMETRY Symmetry
INVARIANTS
    TypeOK
    ReadersAgree
