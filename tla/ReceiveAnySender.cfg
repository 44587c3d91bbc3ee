SPECIFICATION Spec
CONSTANTS
    f1 = f1
    f2 = f2
    n1 = n1
    n2 = n2
    n3 = n3
    Files = {f1, f2}
    Names = {n1, n2, n3}
    Sessions = {s1}
    Uploads = {u1, u2}
    Cancels = {c1}
    Numbered <- OneIsTheOthersCopy
    Repeats = TRUE
    Strays = TRUE
    DoNotMakeSessionFolder = TRUE
    Expiry = TRUE
    Nil = Nil
    NoUpload = NoUpload
SYMMETRY UploadSymmetry
INVARIANTS
    OneUploadEnd
    CancelledStaysClosed
    SavedFileWasKnown
    LateUploadWritesNothing
    FailedWholeUploadIsRemoved
    SavedFileOnDisk
PROPERTIES
    ImplementsPromise
CHECK_DEADLOCK FALSE
