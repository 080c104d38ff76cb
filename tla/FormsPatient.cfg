SPECIFICATION Spec
CONSTANTS
    Devices = {a}
    Keys = {key1, key2, key3}
    key3 = key3
    Values = {v1, v2}
    Writers = {w1, w2}
    WritesWith <- TwoTogether
    Exclusive = {}
    Restarting = {}
    Refreshes <- NoOthers
    Reshaping = {}
    Locking = {a}
    Patient = TRUE
    TimesOut = FALSE
    MaxEdits = 2
    MaxMoves = 1
    MaxTurns = 1
    key1 = key1
    key2 = key2
    a = a
    v1 = v1
    v2 = v2
    w1 = w1
    w2 = w2
    None = None

SYMMETRY ValueAndWriterSymmetry

CHECK_DEADLOCK FALSE

INVARIANTS
    WritesAreHeld
    PendingIsReleased
    TruthAtRest
