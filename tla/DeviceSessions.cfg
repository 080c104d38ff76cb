SPECIFICATION SessionsSpec

CONSTANTS
    None = None
    c1 = c1
    c2 = c2
    d1 = d1
    d2 = d2
    a = a
    key1 = key1
    v1 = v1
    v2 = v2
    w1 = w1
    w2 = w2
    Top = 3
    MaxProbes = 10
    MaxJabWrites = 2
    MaxJabTouches = 1
    MaxJabSittings = 1
    Levels = {c1, c2}
    Attempts = 2
    Stash = 1
    MaxOps = 2
    MaxStirs = 1
    LgDevs = {d1, d2}
    LgKinds <- Receivers
    LgSlots = 3
    MaxLgOps = 3
    MaxLgStirs = 1

CHECK_DEADLOCK FALSE

INVARIANTS
    TypeOK
    PageSettles

PROPERTIES
    HeadsetWritesGoHome
    PairingIsHonest
    OperationsEnd
