SPECIFICATION FairSpec
CONSTANTS
    Sessions = {s1}
    Files = {f1, f2}
    Calls = {b1, b2}
    Cancels = {c1}
    Expiry = TRUE
    NoSession = NoSession
    NoFile = NoFile
INVARIANTS
    TypeOK
    PauseIsGivenBack
    ResultIsHonest
PROPERTIES
    CallIsAnswered
CHECK_DEADLOCK FALSE
