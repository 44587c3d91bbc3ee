SPECIFICATION Spec
CONSTANTS
    f1 = f1
    f2 = f2
    n1 = n1
    n2 = n2
    n3 = n3
    Files = {f1, f2}
    Names <- AllNames
    Sessions = {s1}
    Uploads = {u1}
    Cancels = {c1}
    Numbered <- OwnNames
    Repeats = FALSE
    Strays = FALSE
    DoNotMakeSessionFolder = FALSE
    Expiry = FALSE
    Nil = Nil
    NoUpload = NoUpload
INVARIANTS
    PausedOnlyDuringTransfers
CHECK_DEADLOCK FALSE
