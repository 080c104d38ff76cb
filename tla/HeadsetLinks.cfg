SPECIFICATION LinksSpec

CONSTANTS
    None = None
    Nothing = Nothing
    Unread = Unread
    l1 = l1
    l2 = l2
    f1 = f1
    f2 = f2
    Links = {l1, l2}
    Numbers = 4
    Backlog = 1
    MaxRequests = 3
    MaxStirs = 2
    Fields = {f1, f2}
    Levels = {0, 1}
    Default = 0
    Held = {1}
    MaxOperations = 2
    MaxTroubles = 1

CHECK_DEADLOCK FALSE

INVARIANTS
    LinksTypeOK
    RepliesAreOwn
    
    AloneUntilReopened
    LastWordIsTheTruth
    WriteLands

PROPERTIES
    WriteKeepsTheOthers
    
    ViewFollowsInOrder
