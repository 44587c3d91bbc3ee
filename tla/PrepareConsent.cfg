SPECIFICATION FairSpec
CONSTANTS
    d1 = d1
    p1 = p1
    p2 = p2
    Prepares = {p1, p2}
    Answers = {a1, a2}
    Devices = {d1}
    From <- FromOne
    Configurations <- AskOrSave
    NoPrepare = NoPrepare
INVARIANTS
    TypeOK
    ReplyTellsSession
    ChannelWhileWaiting
PROPERTIES
    ImplementsConsent
    PrepareIsAnswered
CHECK_DEADLOCK FALSE
