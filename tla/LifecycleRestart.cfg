SPECIFICATION Spec
CONSTANTS
    Devices = {u1}
    Slots = {d1, d2}
    Sweeps = {s1}
    Rows <- HeadsetRows
    Movable = {u1}
    Rebooters = {u1}
    MaxMoves = 2
    MaxSpawned = 1
    Patient = TRUE
    StaleOpens = FALSE
    node1 = node1
    node2 = node2
    Gone = Gone
    NoPath = NoPath
    None = None
    d1 = d1
    d2 = d2
    s1 = s1
    u1 = u1
SYMMETRY SlotSymmetry
INVARIANTS
    OpenIsLive
    TasksAreTheirDevices
    ButtonIsTruthful
