SPECIFICATION PagesSpec

CONSTANTS
    None = None
    Poll = Poll
    w1 = w1
    w2 = w2
    c1 = c1
    a1 = a1
    Mons = {m1, m2}
    Ports = {p1, p2}
    Sweeps = {s1, s2}
    RzKinds <- Mice
    Dpis = {1, 2}
    Binds = {"b1", "b2"}
    MaxRzOps = 3
    MaxRzStirs = 1
    CrWriters = {w1}
    MaxCrOps = 3
    MaxCrStirs = 1
    Links = {"usb", "ble"}
    Retries = 3
    MaxEbOps = 4
    MaxEbStirs = 1
    SkKinds = {"fido", "yubikey"}
    Creds = {c1}
    Accts = {a1}
    FullTries = 2
    MaxSkOps = 2
    MaxSkStirs = 1
    MaxTicks = 1
    UvWriters = {w1, w2}
    MaxUvOps = 2
    MaxUvStirs = 1
    MaxDmOps = 2
    MaxDmStirs = 1
    Machines <- Plugged
    Switched = {"yubikeys", "logitech_peripherals"}
    MaxMoves = 2
    MaxSweeps = 2
    Sources = {"fetch", "installer"}
    Writers = {"user", "fetch"}
    MaxVfJobs = 3
    MaxVfStirs = 2
    m1 = m1
    m2 = m2
    p1 = p1
    p2 = p2
    s1 = s1
    s2 = s2

SYMMETRY Symmetry

CHECK_DEADLOCK FALSE

INVARIANTS
    TypeOK
    
    EachThingHasItsRow
    


    
    
