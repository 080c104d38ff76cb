SPECIFICATION FairSpec
CONSTANTS
    Devices = {a}
    Keys = {key1, key2}
    Values = {v1, v2}
    Writers = {w1}
    WritesWith <- Together
    Exclusive = {}
    Restarting = {key2}
    Refreshes <- FirstMovesSecond
    Reshaping = {key1}
    Locking = {a}
    Patient = FALSE
    TimesOut = TRUE
    MaxEdits = 1
    MaxMoves = 1
    MaxTurns = 1
    key1 = key1
    key2 = key2
    a = a
    v1 = v1
    v2 = v2
    w1 = w1
    None = None

CHECK_DEADLOCK FALSE

INVARIANTS
    TypeOK
    PendingIsReleased

PROPERTIES
    PendingEnds
    PageSettles
