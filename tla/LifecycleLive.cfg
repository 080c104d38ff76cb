SPECIFICATION FairSpec
CONSTANTS
    Devices = {u1}
    Slots = {d1, d2}
    Sweeps = {s1}
    Rows <- OneRow
    Movable = {u1}
    Rebooters = {}
    MaxMoves = 1
    MaxSpawned = 1
    Patient = TRUE
    StaleOpens = TRUE
    node1 = node1
    node2 = node2
    Gone = Gone
    NoPath = NoPath
    None = None
    d1 = d1
    d2 = d2
    s1 = s1
    u1 = u1
PROPERTIES
    BusyEnds
    SweepsEnd
