SPECIFICATION Spec

CONSTANTS
    Devices = {a, b}
    Keys = {key1, key2}
    Values = {v1, v2}
    Writers = {w1, w2}
    WritesWith <- NoOthers
    Exclusive = {}
    Restarting = {}
    Refreshes <- NoOthers
    Reshaping = {}
    Locking = {a}
    Patient = TRUE
    TimesOut = TRUE
    MaxEdits = 1
    MaxMoves = 2
    MaxTurns = 0
    key1 = key1
    key2 = key2
    a = a
    b = b
    v1 = v1
    v2 = v2
    w1 = w1
    w2 = w2
    None = None

SYMMETRY ValueAndWriterSymmetry

CHECK_DEADLOCK FALSE

INVARIANTS
    WritesReachTheirPage
