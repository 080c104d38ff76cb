SPECIFICATION Spec

CONSTANTS
    LgDevs = {d1, d2}
    LgKinds <- Unifying
    LgSlots = 3
    None = None
    MaxLgOps = 3
    MaxLgStirs = 1
    d1 = d1
    d2 = d2

CHECK_DEADLOCK FALSE

PROPERTIES
    CancelIsForgotten
