--------------------------- MODULE ReceiveSession ---------------------------
(***************************************************************************)
(* The receiving side of a transfer, protocol v2: what prepare-upload,     *)
(* upload and cancel do to the session caches of                           *)
(* api/models/session_model.go and tool/ttl.go, to the upload folder, and  *)
(* to the scan pause counter of boardcast/config.go.                       *)
(*                                                                         *)
(* Every HTTP request runs in a goroutine of its own.  The caches are      *)
(* guarded by a lock that is held for one cache function at a time, so a   *)
(* handler is a sequence of steps, one per cache function, file system     *)
(* call or counter update, and the steps of different requests interleave. *)
(* A request keeps its local variables in its record (req, cancel,         *)
(* ending); pc names the call it makes next.                               *)
(*                                                                         *)
(* A file goes to a folder of its session or, with DoNotMakeSessionFolder, *)
(* under the first free one of its numbered names to the upload folder.    *)
(* A numbered name may be the name of another file.                        *)
(***************************************************************************)
EXTENDS Integers, FiniteSets

CONSTANTS
    Sessions,           \* session ids: random UUIDs, each given out at most once
    Files,              \* file ids
    Names,              \* file names
    Numbered,           \* the name each file is offered under, number 1, and
                        \* those NextAvailablePath makes of it: base-2.ext, ...
    Uploads,            \* upload requests
    Cancels,            \* cancel requests
    Repeats,            \* TRUE: senders may send a file more than once
    Strays,             \* TRUE: senders may offer nothing, and send what they
                        \* did not offer
    Expiry,             \* TRUE: cache entries may reach their time to live
    DoNotMakeSessionFolder,  \* TRUE: all sessions share the upload folder
    Nil,                \* a missing map entry
    NoUpload            \* no upload has written the path

\* How many of its names a file may need: each upload makes one file at most.
Copies == 1 .. Cardinality(Uploads)

Stats == [total : Nat, success : Nat, failed : Nat]

ASSUME ConstantsAssumption ==
    /\ IsFiniteSet(Sessions)
    /\ IsFiniteSet(Files)
    /\ IsFiniteSet(Uploads)
    /\ Numbered \in [Files \X Copies -> Names]
    /\ {Repeats, Strays, Expiry, DoNotMakeSessionFolder} \subseteq BOOLEAN
    /\ \A fs \in SUBSET Files : fs # Nil
    /\ Nil \notin Sessions
    /\ Nil \notin Files
    /\ NoUpload \notin Uploads

VARIABLES
    prepare,         \* how far each session's prepare-upload handler is
    offer,           \* the files its request lists
    sessionCache,    \* tool.SessionCache: sessions that were joined
    uploadSessions,  \* the files still to be received, or Nil
    uploadValidated, \* sessions an upload has found valid
    sessionContexts, \* sessions that have a context
    cancelled,       \* sessions whose context was cancelled
    uploadStats,     \* the tally of each session, or Nil
    fileSavePaths,   \* the files whose save path is recorded
    scanPauseCount,  \* the reference counter of paused scans
    disk,            \* which upload created the file now at a path
    req,             \* the upload requests
    cancel,          \* the cancel requests
    ending           \* the goroutine an upload starts when a session is complete

caches == <<sessionCache, uploadSessions, uploadValidated, sessionContexts,
            cancelled, uploadStats, fileSavePaths>>
vars == <<prepare, offer, caches, scanPauseCount, disk, req, cancel, ending>>

-----------------------------------------------------------------------------
(* Types and initial state *)

\* A path is a folder and a name; Nil stands for the upload folder.
Paths == (Sessions \cup {Nil}) \X Names

ASSUME NilAssumption == Nil \notin Paths /\ Nil \notin Stats

UploadPC == {"idle", "query", "validate", "lookup", "check", "context", "info",
             "path", "create", "copy", "finish", "save", "mark", "resume", "done"}

Outcome == {"none", "refused", "failed", "saved"}

Request == [pc : UploadPC, sid : Sessions \cup {Nil}, fid : Files \cup {Nil},
            hasFileInfo : BOOLEAN, ctx : {"none", "session", "background"},
            path : {Nil} \cup Paths, whole : BOOLEAN, late : BOOLEAN, outcome : Outcome,
            stats : {Nil} \cup Stats]

CancelRequest == [pc : {"idle", "remove", "destroy", "again", "done"},
                  sid : Sessions \cup {Nil}, found : BOOLEAN]

EndTask == [pc : {"none", "notify", "cleanup", "remove", "done"},
            paths : SUBSET Files]

TypeOK ==
    /\ prepare \in [Sessions -> {"none", "accepted", "ready"}]
    /\ offer \in [Sessions -> SUBSET Files]
    /\ sessionCache \subseteq Sessions
    /\ uploadSessions \in [Sessions -> {Nil} \cup SUBSET Files]
    /\ uploadValidated \subseteq Sessions
    /\ sessionContexts \subseteq Sessions
    /\ cancelled \subseteq Sessions
    /\ uploadStats \in [Sessions -> {Nil} \cup Stats]
    /\ fileSavePaths \in [Sessions -> SUBSET Files]
    /\ scanPauseCount \in Int
    /\ disk \in [Paths -> Uploads \cup {NoUpload}]
    /\ req \in [Uploads -> Request]
    /\ \A u \in Uploads :
         req[u].pc # "idle" => req[u].sid \in Sessions /\ req[u].fid \in Files
    /\ cancel \in [Cancels -> CancelRequest]
    /\ \A c \in Cancels : cancel[c].pc # "idle" => cancel[c].sid \in Sessions
    /\ ending \in [Uploads -> EndTask]
    /\ \A u \in Uploads :
         ending[u].pc # "none" => req[u].pc = "done" /\ req[u].stats \in Stats

Init ==
    /\ prepare = [s \in Sessions |-> "none"]
    /\ offer = [s \in Sessions |-> {}]
    /\ sessionCache = {}
    /\ uploadSessions = [s \in Sessions |-> Nil]
    /\ uploadValidated = {}
    /\ sessionContexts = {}
    /\ cancelled = {}
    /\ uploadStats = [s \in Sessions |-> Nil]
    /\ fileSavePaths = [s \in Sessions |-> {}]
    /\ scanPauseCount = 0
    /\ disk = [p \in Paths |-> NoUpload]
    /\ req = [u \in Uploads |->
                [pc |-> "idle", sid |-> Nil, fid |-> Nil, hasFileInfo |-> FALSE,
                 ctx |-> "none", path |-> Nil, whole |-> FALSE, late |-> FALSE,
                 outcome |-> "none", stats |-> Nil]]
    /\ cancel = [c \in Cancels |-> [pc |-> "idle", sid |-> Nil, found |-> FALSE]]
    /\ ending = [u \in Uploads |-> [pc |-> "none", paths |-> {}]]

-----------------------------------------------------------------------------
(* The cache functions *)

\* LookupFileInfo: the file is one the session still expects.
Pending(s, f) == uploadSessions[s] # Nil /\ f \in uploadSessions[s]

\* IsSessionCancelled: a session without a context counts as cancelled.
IsSessionCancelled(s) == s \notin sessionContexts \/ s \in cancelled

\* ctx.Err() != nil, on the context the upload has got hold of.
CtxDone(u) == req[u].ctx = "session" /\ req[u].sid \in cancelled

\* DefaultOnUpload's targetPath: uploadDir and the k-th name of the file.
Target(u, k) ==
    <<IF DoNotMakeSessionFolder THEN Nil ELSE req[u].sid, Numbered[<<req[u].fid, k>>]>>

\* What NextAvailablePath returns: the first path that does not exist.
IsNextAvailable(u, k) ==
    /\ disk[Target(u, k)] = NoUpload
    /\ \A j \in 1 .. k - 1 : disk[Target(u, j)] # NoUpload

\* Faulty variant: a session that an upload has validated is left alone.
RemoveUploadSessionIfUnused(s) ==
    IF s \in uploadValidated THEN UNCHANGED caches
    ELSE /\ uploadSessions' = [uploadSessions EXCEPT ![s] = Nil]
         /\ fileSavePaths' = [fileSavePaths EXCEPT ![s] = {}]
         /\ cancelled' = cancelled \cup ({s} \cap sessionContexts)
         /\ sessionContexts' = sessionContexts \ {s}
         /\ UNCHANGED <<sessionCache, uploadValidated, uploadStats>>

\* RemoveUploadSession: one critical section.  The tally and tool.SessionCache
\* are left alone, and a context that is gone is not cancelled.
RemoveUploadSession(s) ==
    /\ uploadSessions' = [uploadSessions EXCEPT ![s] = Nil]
    /\ uploadValidated' = uploadValidated \ {s}
    /\ fileSavePaths' = [fileSavePaths EXCEPT ![s] = {}]
    /\ cancelled' = cancelled \cup ({s} \cap sessionContexts)
    /\ sessionContexts' = sessionContexts \ {s}
    /\ UNCHANGED <<sessionCache, uploadStats>>

\* The tally MarkFileUploadedAndCheckComplete works on: a session that has
\* none gets one over the files still pending.
StatsBefore(s) ==
    IF uploadStats[s] = Nil
    THEN [total |-> Cardinality(uploadSessions[s]), success |-> 0, failed |-> 0]
    ELSE uploadStats[s]

\* Faulty variant: every upload counts as a success.
StatsAfterSuccessOnly(s, success) == [StatsBefore(s) EXCEPT !.success = @ + 1]

StatsAfter(s, success) ==
    LET st == StatsBefore(s)
    IN  IF success THEN [st EXCEPT !.success = @ + 1] ELSE [st EXCEPT !.failed = @ + 1]

\* The reference counter of boardcast/config.go.  Faulty variant: ResumeScan is called
\* for a saved file only.
PauseScan == scanPauseCount' = scanPauseCount + 1

ResumeScanIfSaved(u) ==
    scanPauseCount' = scanPauseCount - (IF req[u].outcome = "saved" THEN 1 ELSE 0)
ResumeScan(u) == scanPauseCount' = scanPauseCount - 1

-----------------------------------------------------------------------------
(* POST /prepare-upload, once the PIN and the user have let it through.    *)
(* Nobody knows the session id before the reply.                           *)

\* The end of DefaultOnPrepareUpload: JoinSession, CreateSessionContext,
\* CacheUploadSession.
PrepareAccept(s, fs) ==
    /\ prepare[s] = "none"
    /\ ~Strays => fs # {}
    /\ prepare' = [prepare EXCEPT ![s] = "accepted"]
    /\ offer' = [offer EXCEPT ![s] = fs]
    /\ sessionCache' = sessionCache \cup {s}
    /\ sessionContexts' = sessionContexts \cup {s}
    /\ uploadSessions' = [uploadSessions EXCEPT ![s] = fs]
    /\ UNCHANGED <<uploadValidated, cancelled, uploadStats, fileSavePaths,
                   scanPauseCount, disk, req, cancel, ending>>

\* The end of HandlePrepareUpload: PauseScan, InitSessionStats, the reply.
PrepareRespond(s) ==
    /\ prepare[s] = "accepted"
    /\ prepare' = [prepare EXCEPT ![s] = "ready"]
    /\ PauseScan
    /\ uploadStats' = [uploadStats EXCEPT
         ![s] = [total |-> Cardinality(offer[s]), success |-> 0, failed |-> 0]]
    /\ UNCHANGED <<offer, sessionCache, uploadSessions, uploadValidated,
                   sessionContexts, cancelled, fileSavePaths, disk, req, cancel,
                   ending>>

-----------------------------------------------------------------------------
(* POST /upload: HandleUpload and DefaultOnUpload                          *)

At(u, pc) == req[u].pc = pc

\* What a sender may send.  Without Repeats and Strays it is a disciplined one,
\* which sends each file it offered once, as UserUploadBatch does.
MaySend(s, f) ==
    /\ ~Strays => f \in offer[s]
    /\ ~Repeats => \A v \in Uploads : ~(req[v].sid = s /\ req[v].fid = f)

\* A cancel request for the session was answered with 200.
CancelAnswered(s) == \E c \in Cancels : /\ cancel[c].pc = "done"
                                        /\ cancel[c].found
                                        /\ cancel[c].sid = s

\* DefaultOnUpload returns an error.
Fail(u) == req' = [req EXCEPT ![u].pc = "mark", ![u].outcome = "failed"]

\* os.Remove takes away whatever is at the path.  Faulty variant: it is left out.
RemovePathSkipped(u) == UNCHANGED disk
RemovePath(u) == disk' = [disk EXCEPT ![req[u].path] = NoUpload]

\* The request arrives: IsSessionValidated.  late is a history field.
UploadArrive(u, s, f) ==
    /\ At(u, "idle")
    /\ prepare[s] = "ready"
    /\ MaySend(s, f)
    /\ req' = [req EXCEPT
         ![u].pc = IF s \in uploadValidated THEN "lookup" ELSE "query",
         ![u].sid = s, ![u].fid = f, ![u].late = CancelAnswered(s)]
    /\ UNCHANGED <<prepare, offer, caches, scanPauseCount, disk, cancel, ending>>

\* QuerySessionIsValid, or 409.
UploadQuery(u) ==
    /\ At(u, "query")
    /\ \/ /\ req[u].sid \in sessionCache
          /\ req' = [req EXCEPT ![u].pc = "validate"]
       \/ /\ req[u].sid \notin sessionCache
          /\ req' = [req EXCEPT ![u].pc = "done", ![u].outcome = "refused"]
    /\ UNCHANGED <<prepare, offer, caches, scanPauseCount, disk, cancel, ending>>

\* MarkSessionValidated
UploadValidate(u) ==
    /\ At(u, "validate")
    /\ uploadValidated' = uploadValidated \cup {req[u].sid}
    /\ req' = [req EXCEPT ![u].pc = "lookup"]
    /\ UNCHANGED <<prepare, offer, sessionCache, uploadSessions, sessionContexts,
                   cancelled, uploadStats, fileSavePaths, scanPauseCount, disk,
                   cancel, ending>>

\* The controller's own LookupFileInfo.
UploadLookup(u) ==
    /\ At(u, "lookup")
    /\ req' = [req EXCEPT ![u].pc = "check",
                          ![u].hasFileInfo = Pending(req[u].sid, req[u].fid)]
    /\ UNCHANGED <<prepare, offer, caches, scanPauseCount, disk, cancel, ending>>

UploadCheck(u) ==
    /\ At(u, "check")
    /\ \/ /\ IsSessionCancelled(req[u].sid)
          /\ Fail(u)
       \/ /\ ~IsSessionCancelled(req[u].sid)
          /\ req' = [req EXCEPT ![u].pc = "context"]
    /\ UNCHANGED <<prepare, offer, caches, scanPauseCount, disk, cancel, ending>>

\* GetSessionContext; a missing one becomes context.Background().
UploadGetContext(u) ==
    /\ At(u, "context")
    /\ req' = [req EXCEPT ![u].pc = "info",
         ![u].ctx = IF req[u].sid \in sessionContexts THEN "session" ELSE "background"]
    /\ UNCHANGED <<prepare, offer, caches, scanPauseCount, disk, cancel, ending>>

\* DefaultOnUpload's LookupFileInfo.
UploadFileInfo(u) ==
    /\ At(u, "info")
    /\ \/ /\ Pending(req[u].sid, req[u].fid)
          /\ req' = IF DoNotMakeSessionFolder THEN [req EXCEPT ![u].pc = "path"]
                    ELSE [req EXCEPT ![u].pc = "create", ![u].path = Target(u, 1)]
       \/ /\ ~Pending(req[u].sid, req[u].fid)
          /\ Fail(u)
    /\ UNCHANGED <<prepare, offer, caches, scanPauseCount, disk, cancel, ending>>

\* With DoNotMakeSessionFolder: NextAvailablePath asks os.Stat for the path.
UploadChoosePath(u) ==
    /\ At(u, "path")
    /\ \E k \in Copies : /\ IsNextAvailable(u, k)
                         /\ req' = [req EXCEPT ![u].pc = "create",
                                               ![u].path = Target(u, k)]
    /\ UNCHANGED <<prepare, offer, caches, scanPauseCount, disk, cancel, ending>>

\* MkdirAll, the path checks and os.Create, which truncates a file that is
\* there; each of them may fail and leave no file of its own.
UploadCreate(u) ==
    /\ At(u, "create")
    /\ \/ /\ disk' = [disk EXCEPT ![req[u].path] = u]
          /\ req' = [req EXCEPT ![u].pc = "copy"]
       \/ /\ Fail(u)
          /\ UNCHANGED disk
    /\ UNCHANGED <<prepare, offer, caches, scanPauseCount, cancel, ending>>

\* CopyWithContext reaches the end of the body: the whole file, or a body that
\* the size and hash checks will refuse.
UploadCopied(u) ==
    /\ At(u, "copy")
    /\ \E whole \in BOOLEAN :
         req' = [req EXCEPT ![u].pc = "finish", ![u].whole = whole]
    /\ UNCHANGED <<prepare, offer, caches, scanPauseCount, disk, cancel, ending>>

\* CopyWithContext breaks off: on a cancelled context the file is removed, on
\* any other read or write error the part that was written stays.
UploadBroken(u) ==
    /\ At(u, "copy")
    /\ Fail(u)
    /\ IF CtxDone(u) THEN RemovePath(u) ELSE UNCHANGED disk
    /\ UNCHANGED <<prepare, offer, caches, scanPauseCount, cancel, ending>>

\* The size and hash checks.  Faulty variant: there are none.
BodyUnchecked(u) == TRUE
BodyAccepted(u) == req[u].whole

\* The context check after the copy, then size and hash.
UploadFinish(u) ==
    /\ At(u, "finish")
    /\ \/ /\ CtxDone(u)
          /\ RemovePath(u)
          /\ Fail(u)
       \/ /\ ~CtxDone(u)
          /\ ~BodyAccepted(u)
          /\ Fail(u)
          /\ UNCHANGED disk
       \/ /\ ~CtxDone(u)
          /\ BodyAccepted(u)
          /\ req' = [req EXCEPT ![u].pc = "save"]
          /\ UNCHANGED disk
    /\ UNCHANGED <<prepare, offer, caches, scanPauseCount, cancel, ending>>

\* SetFileSavePath, which makes the session's map if there is none.
UploadSave(u) ==
    /\ At(u, "save")
    /\ fileSavePaths' = [fileSavePaths EXCEPT ![req[u].sid] = @ \cup {req[u].fid}]
    /\ req' = [req EXCEPT ![u].pc = "mark", ![u].outcome = "saved"]
    /\ UNCHANGED <<prepare, offer, sessionCache, uploadSessions, uploadValidated,
                   sessionContexts, cancelled, uploadStats, scanPauseCount, disk,
                   cancel, ending>>

\* What MarkFileUploadedAndCheckComplete leaves pending, and stores; the last file
\* takes the entry away.  Faulty variants: a failed file stays pending, a failed
\* file is put back, the last file leaves an empty map behind.
LeftKeepsFailed(u) ==
    IF req[u].outcome = "saved" THEN uploadSessions[req[u].sid] \ {req[u].fid}
    ELSE uploadSessions[req[u].sid]
LeftRestoresFailed(u) ==
    IF req[u].outcome = "saved" THEN uploadSessions[req[u].sid] \ {req[u].fid}
    ELSE uploadSessions[req[u].sid] \cup {req[u].fid}
LeftAfter(u) == uploadSessions[req[u].sid] \ {req[u].fid}

EntryKept(files) == files
Entry(files) == IF files = {} THEN Nil ELSE files

\* MarkFileUploadedAndCheckComplete on a session that expects files: the tally,
\* then the pending files.  The last file takes the entry away.
MarkFile(u) ==
    LET s    == req[u].sid
        left == LeftAfter(u)
        st   == StatsAfter(s, req[u].outcome = "saved")
    IN  /\ uploadSessions[s] # Nil
        /\ uploadStats' = [uploadStats EXCEPT ![s] = st]
        /\ uploadSessions' = [uploadSessions EXCEPT ![s] = Entry(left)]
        /\ req' = IF left = {}
                  THEN [req EXCEPT ![u].pc = "resume", ![u].stats = st]
                  ELSE [req EXCEPT ![u].pc = "done"]

\* Faulty variant: the emptied map is stored again.
MarkUnknownRestores(u) ==
    /\ uploadSessions[req[u].sid] = Nil
    /\ req' = [req EXCEPT ![u].pc = "resume"]
    /\ uploadSessions' = [uploadSessions EXCEPT ![req[u].sid] = {}]
    /\ UNCHANGED uploadStats

\* The same on a session without an entry: isLast, and no tally.
MarkUnknown(u) ==
    /\ uploadSessions[req[u].sid] = Nil
    /\ req' = [req EXCEPT ![u].pc = "resume"]
    /\ UNCHANGED <<uploadStats, uploadSessions>>

\* A saved file without file info is answered with 500 and not marked.
UploadMark(u) ==
    /\ At(u, "mark")
    /\ IF req[u].outcome = "saved" /\ ~req[u].hasFileInfo
       THEN /\ req' = [req EXCEPT ![u].pc = "done"]
            /\ UNCHANGED <<uploadStats, uploadSessions>>
       ELSE MarkFile(u) \/ MarkUnknown(u)
    /\ UNCHANGED <<prepare, offer, sessionCache, uploadValidated, sessionContexts,
                   cancelled, fileSavePaths, scanPauseCount, disk, cancel, ending>>

\* Without a tally there is no notification.  Faulty variant: it is not asked for.
EndsAlways(u) == TRUE
EndsSession(u) == req[u].stats # Nil

\* isLast: ResumeScan, and with a tally the goroutine that ends the session.
UploadResume(u) ==
    /\ At(u, "resume")
    /\ ResumeScan(u)
    /\ req' = [req EXCEPT ![u].pc = "done"]
    /\ ending' = IF EndsSession(u) THEN [ending EXCEPT ![u].pc = "notify"]
                 ELSE ending
    /\ UNCHANGED <<prepare, offer, caches, disk, cancel>>

-----------------------------------------------------------------------------
(* The goroutine that ends a complete session *)

\* GetSessionSavePaths and the upload_end notification made from it.
EndNotify(u) ==
    /\ ending[u].pc = "notify"
    /\ ending' = [ending EXCEPT ![u].pc = "cleanup",
                                ![u].paths = fileSavePaths[req[u].sid]]
    /\ UNCHANGED <<prepare, offer, caches, scanPauseCount, disk, req, cancel>>

\* CleanupSessionStats
EndCleanup(u) ==
    /\ ending[u].pc = "cleanup"
    /\ uploadStats' = [uploadStats EXCEPT ![req[u].sid] = Nil]
    /\ ending' = [ending EXCEPT ![u].pc = "remove"]
    /\ UNCHANGED <<prepare, offer, sessionCache, uploadSessions, uploadValidated,
                   sessionContexts, cancelled, fileSavePaths, scanPauseCount, disk,
                   req, cancel>>

EndRemove(u) ==
    /\ ending[u].pc = "remove"
    /\ RemoveUploadSession(req[u].sid)
    /\ ending' = [ending EXCEPT ![u].pc = "done"]
    /\ UNCHANGED <<prepare, offer, scanPauseCount, disk, req, cancel>>

-----------------------------------------------------------------------------
(* POST /cancel: HandleCancel and DefaultOnCancel *)

\* QuerySessionIsValid: an unknown session is answered with 500.
CancelArrive(c, s) ==
    /\ cancel[c].pc = "idle"
    /\ prepare[s] = "ready"
    /\ \/ /\ s \in sessionCache
          /\ cancel' = [cancel EXCEPT
               ![c] = [pc |-> "remove", sid |-> s, found |-> TRUE]]
       \/ /\ s \notin sessionCache
          /\ cancel' = [cancel EXCEPT
               ![c] = [pc |-> "done", sid |-> s, found |-> FALSE]]
    /\ UNCHANGED <<prepare, offer, caches, scanPauseCount, disk, req, ending>>

\* RemoveUploadSession: DefaultOnCancel's, then the controller's own.
CancelRemove(c) ==
    /\ cancel[c].pc \in {"remove", "again"}
    /\ RemoveUploadSession(cancel[c].sid)
    /\ cancel' = [cancel EXCEPT
         ![c].pc = IF cancel[c].pc = "remove" THEN "destroy" ELSE "done"]
    /\ UNCHANGED <<prepare, offer, scanPauseCount, disk, req, ending>>

\* DestorySession
CancelDestroy(c) ==
    /\ cancel[c].pc = "destroy"
    /\ sessionCache' = sessionCache \ {cancel[c].sid}
    /\ cancel' = [cancel EXCEPT ![c].pc = "again"]
    /\ UNCHANGED <<prepare, offer, uploadSessions, uploadValidated, sessionContexts,
                   cancelled, uploadStats, fileSavePaths, scanPauseCount, disk, req,
                   ending>>

-----------------------------------------------------------------------------
(* An entry of one cache reaches its time to live.  The caches expire entry *)
(* by entry, each on its own.                                               *)

ExpireEntry(s) ==
    \/ /\ s \in sessionCache
       /\ sessionCache' = sessionCache \ {s}
       /\ UNCHANGED <<uploadSessions, uploadValidated, sessionContexts, cancelled,
                      uploadStats, fileSavePaths>>
    \/ /\ uploadSessions[s] # Nil
       /\ uploadSessions' = [uploadSessions EXCEPT ![s] = Nil]
       /\ UNCHANGED <<sessionCache, uploadValidated, sessionContexts, cancelled,
                      uploadStats, fileSavePaths>>
    \/ /\ s \in uploadValidated
       /\ uploadValidated' = uploadValidated \ {s}
       /\ UNCHANGED <<sessionCache, uploadSessions, sessionContexts, cancelled,
                      uploadStats, fileSavePaths>>
    \/ /\ s \in sessionContexts
       /\ sessionContexts' = sessionContexts \ {s}
       /\ UNCHANGED <<sessionCache, uploadSessions, uploadValidated, cancelled,
                      uploadStats, fileSavePaths>>
    \/ /\ uploadStats[s] # Nil
       /\ uploadStats' = [uploadStats EXCEPT ![s] = Nil]
       /\ UNCHANGED <<sessionCache, uploadSessions, uploadValidated, sessionContexts,
                      cancelled, fileSavePaths>>
    \/ /\ fileSavePaths[s] # {}
       /\ fileSavePaths' = [fileSavePaths EXCEPT ![s] = {}]
       /\ UNCHANGED <<sessionCache, uploadSessions, uploadValidated, sessionContexts,
                      cancelled, uploadStats>>

Expire(s) ==
    /\ Expiry
    /\ prepare[s] = "ready"
    /\ ExpireEntry(s)
    /\ UNCHANGED <<prepare, offer, scanPauseCount, disk, req, cancel, ending>>

-----------------------------------------------------------------------------
(* The specification *)

PrepareStep(s) == PrepareRespond(s) \/ \E fs \in SUBSET Files : PrepareAccept(s, fs)

\* What the server does for an upload that has arrived.
UploadStep(u) ==
    \/ UploadQuery(u)  \/ UploadValidate(u)   \/ UploadLookup(u)
    \/ UploadCheck(u)  \/ UploadGetContext(u) \/ UploadFileInfo(u)
    \/ UploadChoosePath(u)
    \/ UploadCreate(u) \/ UploadCopied(u)     \/ UploadBroken(u)
    \/ UploadFinish(u) \/ UploadSave(u)       \/ UploadMark(u)
    \/ UploadResume(u)

EndStep(u) == EndNotify(u) \/ EndCleanup(u) \/ EndRemove(u)

CancelStep(c) == CancelRemove(c) \/ CancelDestroy(c)

Next ==
    \/ \E s \in Sessions : PrepareStep(s) \/ Expire(s)
    \/ \E u \in Uploads :
         \/ \E s \in Sessions, f \in Files : UploadArrive(u, s, f)
         \/ UploadStep(u)
         \/ EndStep(u)
    \/ \E c \in Cancels :
         \/ \E s \in Sessions : CancelArrive(c, s)
         \/ CancelStep(c)

Spec == Init /\ [][Next]_vars

\* The Go scheduler runs every goroutine on, and a connection delivers the body
\* or breaks: a handler that has started does not stop half way.  No request
\* has to arrive.
Fairness ==
    /\ \A s \in Sessions : WF_vars(PrepareRespond(s))
    /\ \A u \in Uploads : WF_vars(UploadStep(u)) /\ WF_vars(EndStep(u))
    /\ \A c \in Cancels : WF_vars(CancelStep(c))

FairSpec == Spec /\ Fairness

-----------------------------------------------------------------------------
(* Properties *)

Ended(u) == ending[u].pc # "none"
Notified(u) == ending[u].pc \in {"cleanup", "remove", "done"}
ReportedSaved(u) == req[u].pc \in {"resume", "done"} /\ req[u].outcome = "saved"
Receiving(s) == prepare[s] = "ready" /\ uploadSessions[s] # Nil

\* A session is ended at most once: of all the uploads of a session, retried,
\* duplicated or late ones included, only one finds itself the last of a session
\* with a tally and sends upload_end (MarkFileUploadedAndCheckComplete).
OneUploadEnd ==
    \A u, v \in Uploads : Ended(u) /\ Ended(v) /\ req[u].sid = req[v].sid => u = v

\* The controller and DefaultOnUpload each look the file up, at different times.
\* A file that the second lookup found was known to the first, so no file is
\* saved and then answered with "File info not found" and left unmarked.
SavedFileWasKnown ==
    \A u \in Uploads : req[u].outcome = "saved" => req[u].hasFileInfo

\* A session whose context was cancelled stays closed: no upload that was under
\* way when RemoveUploadSession ran puts its pending files or its context back.
CancelledStaysClosed ==
    \A s \in cancelled : uploadSessions[s] = Nil /\ s \notin sessionContexts

\* An upload that arrives after a cancel was answered with 200 never creates a
\* file in the session's folder.
LateUploadWritesNothing ==
    \A u \in Uploads :
      req[u].late => ~req[u].whole /\ \A p \in DOMAIN disk : disk[p] # u

\* A body that came through whole and is reported as failed (the session was
\* cancelled while it was copied) does not stay on disk.
FailedWholeUploadIsRemoved ==
    \A u \in Uploads :
      req[u].whole /\ req[u].outcome = "failed" => disk[req[u].path] # u

\* A file that is reported as saved, and whose path no other upload has, is on disk,
\* whole, whatever cancels, ends or expires the session around it.
SavedFileOnDisk ==
    \A u \in Uploads :
      /\ ReportedSaved(u)
      /\ \A v \in Uploads : req[v].path = req[u].path => v = u
      => disk[req[u].path] = u /\ req[u].whole

\* The numbers of upload_end fit each other: every file of the session counts
\* once, as success or failure, and each success has its path in savePaths.
EndAccountsForFiles ==
    \A u \in Uploads : Notified(u) =>
      LET st == req[u].stats
      IN  /\ st.total = Cardinality(offer[req[u].sid])
          /\ st.success + st.failed = st.total
          /\ st.success = Cardinality(ending[u].paths)

\* The pause counter counts the sessions that are being received, and those whose
\* last upload is about to call ResumeScan.
ScanPauseBalanced ==
    scanPauseCount = Cardinality({s \in Sessions : Receiving(s)})
                     + Cardinality({u \in Uploads : At(u, "resume")})

\* IsScanPaused is true only while something is being received: a session with
\* pending files, or a request that has not been answered.
PausedOnlyDuringTransfers ==
    scanPauseCount > 0 =>
      \/ \E s \in Sessions : Receiving(s)
      \/ \E u \in Uploads : req[u].pc \notin {"idle", "done"}
      \/ \E c \in Cancels : cancel[c].pc \notin {"idle", "done"}

\* Two files that are reported as saved to the upload folder never share a path:
\* NextAvailablePath takes a name that is free.
SavedFilesHaveOwnPaths ==
    DoNotMakeSessionFolder =>
      \A u, v \in Uploads :
        ReportedSaved(u) /\ ReportedSaved(v) /\ req[u].path = req[v].path => u = v

\* Every file of the session has been sent at least once.
AllSent(s) == prepare[s] = "ready" /\ offer[s] # {} /\
              \A f \in offer[s] : \E u \in Uploads : req[u].sid = s /\ req[u].fid = f

\* Once every file of a session has been sent, upload_end follows, whatever
\* becomes of the single uploads.
UploadEndIsSent ==
    \A s \in Sessions : AllSent(s) ~> \E u \in Uploads : req[u].sid = s /\ Notified(u)

\* When the files of all sessions that were started have been sent, the pause
\* counter comes back to zero and scanning goes on.
ScanResumes ==
    <>[](\A s \in Sessions : AllSent(s) \/ prepare[s] = "none")
      => <>[](scanPauseCount = 0)

-----------------------------------------------------------------------------
(* What a sender is promised: UploadPromise.                               *)

\* The uploads that took the last pending file of the session.
Last(s) == {u \in Uploads : req[u].sid = s /\ req[u].stats # Nil}

EndTold(s) == \E u \in Uploads : req[u].sid = s /\ Notified(u)

Life(s) == IF prepare[s] = "none" THEN "none"
           ELSE IF uploadSessions[s] # Nil THEN "open"
           ELSE IF EndTold(s) THEN "told"
           ELSE IF Last(s) # {} THEN "complete"
           ELSE "removed"

Left(s) == IF uploadSessions[s] = Nil THEN {} ELSE uploadSessions[s]

Promise == INSTANCE UploadPromise WITH
    life <- [s \in Sessions |-> Life(s)],
    left <- [s \in Sessions |-> Left(s)],
    last <- [s \in Sessions |-> Last(s)]

\* The files of a session leave it one at a time and never come back.  The upload
\* that leaves none, and it alone, completes the session, and upload_end is told
\* once, after that.  A session that a cancel or its time to live took away while
\* files were left is never completed and its end is never told, whatever uploads
\* were under way in it (MarkFileUploadedAndCheckComplete, HandleUpload,
\* RemoveUploadSession).
ImplementsPromise == Promise!Spec

-----------------------------------------------------------------------------
(* The inductive invariant behind OneUploadEnd, SavedFileWasKnown,         *)
(* CancelledStaysClosed, LateUploadWritesNothing,                          *)
(* FailedWholeUploadIsRemoved and SavedFileOnDisk.                         *)

Closed(s) == uploadSessions[s] = Nil /\ s \notin sessionContexts

\* Requests are about sessions whose id was given out, and such a session never
\* gets an entry again that it has lost.
SessionsInv ==
    /\ \A u \in Uploads : req[u].pc # "idle" => prepare[req[u].sid] = "ready"
    /\ \A c \in Cancels : cancel[c].pc # "idle" => prepare[cancel[c].sid] = "ready"
    /\ \A s \in sessionContexts \cup cancelled : prepare[s] # "none"
    /\ \A s \in cancelled : Closed(s)
    /\ \A c \in Cancels : cancel[c].found /\ cancel[c].pc \in {"destroy", "again", "done"}
                            => Closed(cancel[c].sid)

\* An upload that took the last pending file is the only one of its session.
LastInv ==
    /\ \A u \in Uploads : req[u].stats # Nil =>
         req[u].pc \in {"resume", "done"} /\ uploadSessions[req[u].sid] = Nil
    /\ \A u \in Uploads : Ended(u) => req[u].stats # Nil
    /\ \A u, v \in Uploads :
         req[u].stats # Nil /\ req[v].stats # Nil /\ req[u].sid = req[v].sid => u = v

\* A file that is pending at the second lookup was pending at the first.
KnownInv ==
    \A u \in Uploads :
      /\ req[u].pc \in {"check", "context", "info"} /\ Pending(req[u].sid, req[u].fid)
           => req[u].hasFileInfo
      /\ req[u].pc \in {"path", "create", "copy", "finish", "save"} => req[u].hasFileInfo
      /\ req[u].outcome = "saved" 
           => req[u].hasFileInfo /\ req[u].pc \in {"mark", "resume", "done"}

\* A late upload finds its session closed and does not get past UploadCheck.
LateInv ==
    \A u \in Uploads :
      /\ req[u].late => req[u].pc # "idle" /\ Closed(req[u].sid)
      /\ req[u].late \/ req[u].pc = "idle" =>
           /\ req[u].pc \notin {"context", "info", "path", "create", "copy", "finish", "save"}
           /\ ~req[u].whole
           /\ \A p \in DOMAIN disk : disk[p] # u

\* No other upload goes to the same path.
OwnPath(u) == \A v \in Uploads : req[v].path = req[u].path => v = u

\* A path is chosen once, before the file is created; what is on disk there is an
\* upload's that has chosen it, and the only one's that has for as long as it has not
\* failed.
DiskInv ==
    \A u \in Uploads :
      /\ req[u].pc \in {"idle", "query", "validate", "lookup", "check", "context", "info",
                        "path"} => req[u].path = Nil
      /\ req[u].pc \in {"create", "copy", "finish", "save"} => req[u].path \in Paths
      /\ req[u].outcome # "none" => req[u].pc \in {"mark", "resume", "done"}
      /\ req[u].whole => /\ req[u].pc \in {"finish", "save", "mark", "resume", "done"}
                         /\ req[u].path \in Paths
      /\ req[u].pc = "save" \/ req[u].outcome = "saved" => req[u].whole
      /\ \A p \in Paths : disk[p] = u => req[u].path = p
      /\ req[u].whole /\ req[u].outcome = "failed" => disk[req[u].path] # u
      /\ (req[u].pc \in {"copy", "finish", "save"} \/ req[u].outcome = "saved")
           /\ OwnPath(u) => disk[req[u].path] = u

IInv == TypeOK /\ SessionsInv /\ LastInv /\ KnownInv /\ LateInv /\ DiskInv

=============================================================================
