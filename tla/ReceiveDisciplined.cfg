SPECIFICATION FairSpec
CONSTANTS
    f1 = f1
    f2 = f2
    n1 = n1
    n2 = n2
    n3 = n3
    Files = {f1, f2}
    Names <- AllNames
    Sessions = {s1, s2}
    Uploads = {u1, u2, u3}
    Cancels = {}
    Numbered <- OwnNames
    Repeats = FALSE
    Strays = FALSE
    DoNotMakeSessionFolder = FALSE
    Expiry = FALSE
    Nil = Nil
    NoUpload = NoUpload
INVARIANTS
    EndAccountsForFiles
    ScanPauseBalanced
PROPERTIES
    UploadEndIsSent
    ScanResumes
CHECK_DEADLOCK FALSE
