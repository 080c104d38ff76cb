SPECIFICATION CalmSpec
CONSTANTS
    Devices = {u1}
    Slots = {d1, d2}
    Sweeps = {s1, s2}
    Rows <- UsbRows
    Movable = {u1}
    Rebooters = {}
    MaxMoves = 2
    MaxSpawned = 1
    Patient = TRUE
    StaleOpens = TRUE
    node1 = node1
    node2 = node2
    Gone = Gone
    NoPath = NoPath
    None = None
    d1 = d1
    d2 = d2
    s1 = s1
    s2 = s2
    u1 = u1
SYMMETRY SlotAndSweepSymmetry
INVARIANTS
    TypeOK
    OpenIsLive
    BusyIsOpening
    TasksAreTheirDevices
    ButtonIsTruthful
    
    OneConnectAtATime

    
