SPECIFICATION Spec
CONSTANTS
    f1 = f1
    f2 = f2
    n1 = n1
    n2 = n2
    n3 = n3
    Files = {f1, f2}
    Names = {n1, n2, n3}
    Sessions = {s1}
    Uploads = {u1, u2}
    Cancels = {}
    Numbered <- SameName
    Repeats = FALSE
    Strays = FALSE
    DoNotMakeSessionFolder = TRUE
    Expiry = FALSE
    Nil = Nil
    NoUpload = NoUpload
INVARIANTS
    SavedFilesHaveOwnPaths
CHECK_DEADLOCK FALSE
