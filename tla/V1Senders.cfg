SPECIFICATION V1Spec
CONSTANTS
    a1 = a1
    a2 = a2
    f1 = f1
    f2 = f2
    f3 = f3
    Files = {f1, f2, f3}
    Names <- AllNames
    Sessions = {s1, s2}
    Uploads = {u1, u2, u3}
    Cancels = {c1}
    Addrs = {a1, a2}
    FilesOf <- TwoAndOne
    Numbered <- OwnNames
    Repeats = FALSE
    Strays = FALSE
    Expiry = FALSE
    Overlap = FALSE
    DoNotMakeSessionFolder = FALSE
    Nil = Nil
    NoUpload = NoUpload
SYMMETRY UploadSymmetry
INVARIANTS
    V1StaysWithItsSender
    V1UploadReachesItsSession
CHECK_DEADLOCK FALSE
