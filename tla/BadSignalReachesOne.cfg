SPECIFICATION Spec
CONSTANTS
    u1 = u1
    h1 = h1
    u2 = u2
    h2 = h2
    Loops = {u1, h1, u2, h2}
    Kind <- TwoPairs
    FirstLoops = {u1, h1}
    Requests = {r1}
    Untimed = {}
    DialFails = FALSE
    MaxPauses = 1
    MaxSurplus = 1
INVARIANTS
    SignalReachesAll
CHECK_DEADLOCK FALSE
