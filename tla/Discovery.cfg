SPECIFICATION FairSpec
CONSTANTS
    d1 = d1
    d2 = d2
    a1 = a1
    a2 = a2
    Devices = {d1, d2}
    Addrs = {a1, a2, a3}
    FirstAddr <- Addresses
    Announcing = {d2}
    Scanning = {d1}
    Tasks = {t1, t2}
    MaxAnnouncements = 1
    MaxProbes = 1
    MaxMoves = 1
    MaxScans = 1
    Expiring = {d1}
    Nil = Nil
INVARIANTS
    SelfListedOnlyOnRequest
    ListedWasNotified
    ScanNowTellsWhatItFound
PROPERTIES
    EchoesEnd
CHECK_DEADLOCK FALSE
