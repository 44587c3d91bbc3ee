SPECIFICATION FairSpec
CONSTANTS
    s1 = s1
    p1 = p1
    p2 = p2
    Sessions = {s1}
    Prepares = {p1, p2}
    Confirms = {c1, c2}
    Downloads = {d1}
    SessionOf <- BothForOne
    NoPrepare = NoPrepare
INVARIANTS
    TypeOK
    RegisteredChannelHasReader
    PendingIsFound
    AgreedSessionStaysConfirmed
    PausedForDownloads
PROPERTIES
    ImplementsConsent
    PrepareIsAnswered
CHECK_DEADLOCK FALSE
