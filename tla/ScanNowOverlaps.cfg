SPECIFICATION FairSpec
CONSTANTS
    u1 = u1
    h1 = h1
    u2 = u2
    h2 = h2
    Loops = {u1, h1, u2, h2}
    Kind <- TwoPairs
    FirstLoops = {u1, h1}
    Requests = {r1, r2}
    Untimed = {}
    DialFails = TRUE
    MaxPauses = 1
    MaxSurplus = 1
INVARIANTS
    RunningMeansALoop
    
PROPERTIES
    BackgroundEnds
    AutoScanEnds
CHECK_DEADLOCK FALSE
