------------------------ MODULE ReceiveSessionProofs ------------------------
(***************************************************************************)
(* Invariants of ReceiveSession, for every number of sessions, files and   *)
(* requests, every sender, and with or without expiry; that it implements  *)
(* UploadPromise; and, for disciplined senders, that its counts are right. *)
(***************************************************************************)
EXTENDS ReceiveSession, FiniteSetTheorems, TLAPS

-----------------------------------------------------------------------------
(* Type correctness *)

\* A tally stays a tally: Cardinality is a number on sets of files.
LEMMA StatsTyped ==
    ASSUME TypeOK, NEW s \in Sessions, NEW success \in BOOLEAN,
           uploadSessions[s] # Nil
    PROVE  StatsAfter(s, success) \in Stats
<1>1. uploadSessions[s] \subseteq Files
  BY DEF TypeOK
<1>2. Cardinality(uploadSessions[s]) \in Nat
  BY <1>1, ConstantsAssumption, FS_Subset, FS_CardinalityType
<1>3. StatsBefore(s) \in Stats
  BY <1>2 DEF TypeOK, StatsBefore, Stats
<1>4. QED
  BY <1>3 DEF StatsAfter, Stats

\* The number of files prepare-upload offers is a natural number.
LEMMA OfferTyped ==
    ASSUME TypeOK, NEW s \in Sessions
    PROVE  Cardinality(offer[s]) \in Nat
BY ConstantsAssumption, FS_Subset, FS_CardinalityType DEF TypeOK

\* RemoveUploadSession keeps the type of every cache.
LEMMA RemoveTyped ==
    ASSUME TypeOK, NEW s \in Sessions, RemoveUploadSession(s)
    PROVE  /\ uploadSessions' \in [Sessions -> {Nil} \cup SUBSET Files]
           /\ uploadValidated' \subseteq Sessions
           /\ fileSavePaths' \in [Sessions -> SUBSET Files]
           /\ cancelled' \subseteq Sessions
           /\ sessionContexts' \subseteq Sessions
           /\ sessionCache' \subseteq Sessions
           /\ uploadStats' \in [Sessions -> {Nil} \cup Stats]
BY DEF TypeOK, RemoveUploadSession

\* There is room for the number of every upload.
LEMMA CopiesTyped ==
    ASSUME NEW u \in Uploads
    PROVE  1 \in Copies
<1>1. Cardinality(Uploads) \in Nat /\ Cardinality(Uploads) # 0
  BY ConstantsAssumption, FS_CardinalityType, FS_EmptySet
<1>2. QED
  BY <1>1 DEF Copies

\* A target path is a path.
LEMMA TargetTyped ==
    ASSUME NEW u \in Uploads, req[u].sid \in Sessions, req[u].fid \in Files
    PROVE  /\ Target(u, 1) \in Paths
           /\ \A k \in Copies : Target(u, k) \in Paths
<1>1. \A k \in Copies : Numbered[<<req[u].fid, k>>] \in Names
  BY ConstantsAssumption
<1>2. QED
  BY <1>1, CopiesTyped DEF Target, Paths

\* Each way in which an upload's record is updated keeps it one.
LEMMA RequestTyped ==
    ASSUME NEW r \in Request, NEW pc \in UploadPC
    PROVE  /\ [r EXCEPT !.pc = pc] \in Request
           /\ \A o \in Outcome : [r EXCEPT !.pc = pc, !.outcome = o] \in Request
           /\ \A p \in Paths : [r EXCEPT !.pc = pc, !.path = p] \in Request
           /\ \A b \in BOOLEAN : [r EXCEPT !.pc = pc, !.hasFileInfo = b] \in Request
           /\ \A b \in BOOLEAN : [r EXCEPT !.pc = pc, !.whole = b] \in Request
           /\ \A x \in {"session", "background"} : [r EXCEPT !.pc = pc, !.ctx = x] \in Request
           /\ \A st \in Stats : [r EXCEPT !.pc = pc, !.stats = st] \in Request
           /\ \A s \in Sessions, f \in Files, b \in BOOLEAN :
                [r EXCEPT !.pc = pc, !.sid = s, !.fid = f, !.late = b] \in Request
  BY DEF Request

\* The request is about the same file of the same session.
SameTarget(u) == /\ req'[u].sid = req[u].sid
                 /\ req'[u].fid = req[u].fid
                 /\ req'[u].late = req[u].late

\* What every step of an upload has in common: it changes its own record only,
\* and that one keeps its target.
LEMMA UploadFrame ==
    ASSUME TypeOK, NEW u \in Uploads, UploadStep(u)
    PROVE  /\ req[u].pc \notin {"idle", "done"}
           /\ req' \in [Uploads -> Request]
           /\ req'[u].pc # "idle"
           /\ SameTarget(u)
           /\ \A v \in Uploads \ {u} : req'[v] = req[v]
<1>0. req[u] \in Request /\ req \in [Uploads -> Request]
  BY DEF TypeOK
<1> DEFINE Updated(r) == req' = [req EXCEPT ![u] = r]
<1>1. ASSUME NEW r \in Request, Updated(r), r.sid = req[u].sid, r.fid = req[u].fid, r.late = req[u].late,
             r.pc # "idle"
      PROVE  /\ req' \in [Uploads -> Request]
             /\ req'[u].pc # "idle"
             /\ SameTarget(u)
             /\ \A v \in Uploads \ {u} : req'[v] = req[v]
  BY <1>0, <1>1 DEF SameTarget
<1>2. req[u].pc \notin {"idle", "done"}
  BY DEF At, UploadStep, UploadQuery, UploadValidate, UploadLookup, UploadCheck, UploadGetContext, UploadFileInfo, UploadChoosePath, UploadCreate, UploadCopied, UploadBroken, UploadFinish, UploadSave, UploadMark, UploadResume
<1> DEFINE
      Pc(pc)     == [req[u] EXCEPT !.pc = pc]
      PcO(pc, o) == [req[u] EXCEPT !.pc = pc, !.outcome = o]
      PcP(p) == [req[u] EXCEPT !.pc = "create", !.path = p]
      PcH(b) == [req[u] EXCEPT !.pc = "check", !.hasFileInfo = b]
      PcW(b) == [req[u] EXCEPT !.pc = "finish", !.whole = b]
      PcC(x) == [req[u] EXCEPT !.pc = "info", !.ctx = x]
      PcS(st) == [req[u] EXCEPT !.pc = "resume", !.stats = st]
      Keeps(r) == r \in Request /\ r.sid = req[u].sid /\ r.fid = req[u].fid /\ r.late = req[u].late
<1>3. /\ \A pc \in UploadPC : Keeps(Pc(pc)) /\ Pc(pc).pc = pc
      /\ \A pc \in UploadPC, o \in Outcome : Keeps(PcO(pc, o)) /\ PcO(pc, o).pc = pc
      /\ \A p \in Paths : Keeps(PcP(p)) /\ PcP(p).pc = "create"
      /\ \A b \in BOOLEAN : Keeps(PcH(b)) /\ PcH(b).pc = "check"
      /\ \A b \in BOOLEAN : Keeps(PcW(b)) /\ PcW(b).pc = "finish"
      /\ \A x \in {"session", "background"} : Keeps(PcC(x)) /\ PcC(x).pc = "info"
      /\ \A st \in Stats : Keeps(PcS(st)) /\ PcS(st).pc = "resume"
  <2>1. {"check", "create", "finish", "info", "resume"} \subseteq UploadPC
    BY DEF UploadPC
  <2>2. DOMAIN req[u] = {"pc", "sid", "fid", "hasFileInfo", "ctx", "path", "whole", "late",
                         "outcome", "stats"}
    BY <1>0 DEF Request
  <2>3. \A pc \in UploadPC : Keeps(Pc(pc)) /\ Pc(pc).pc = pc
    BY <1>0, <2>2, RequestTyped
  <2>4. \A pc \in UploadPC, o \in Outcome : Keeps(PcO(pc, o)) /\ PcO(pc, o).pc = pc
    BY <1>0, <2>2, RequestTyped
  <2>5. \A b \in BOOLEAN : Keeps(PcH(b)) /\ PcH(b).pc = "check"
    BY <1>0, <2>1, <2>2, RequestTyped
  <2>6. \A b \in BOOLEAN : Keeps(PcW(b)) /\ PcW(b).pc = "finish"
    BY <1>0, <2>1, <2>2, RequestTyped
  <2>7. \A x \in {"session", "background"} : Keeps(PcC(x)) /\ PcC(x).pc = "info"
    BY <1>0, <2>1, <2>2, RequestTyped
  <2>8. \A st \in Stats : Keeps(PcS(st)) /\ PcS(st).pc = "resume"
    BY <1>0, <2>1, <2>2, RequestTyped
  <2>9. \A p \in Paths : Keeps(PcP(p)) /\ PcP(p).pc = "create"
    BY <1>0, <2>1, <2>2, RequestTyped
  <2>10. QED
    BY <2>3, <2>4, <2>5, <2>6, <2>7, <2>8, <2>9
<1>4. \/ \E pc \in UploadPC \ {"idle"} : Updated(Pc(pc))
      \/ \E pc \in UploadPC \ {"idle"}, o \in Outcome : Updated(PcO(pc, o))
      \/ \E b \in BOOLEAN : Updated(PcH(b)) \/ Updated(PcW(b))
      \/ \E p \in Paths : Updated(PcP(p))
      \/ \E x \in {"session", "background"} : Updated(PcC(x))
      \/ \E st \in Stats : Updated(PcS(st))
  <2>1. CASE UploadQuery(u)
    BY <2>1 DEF UploadQuery, UploadPC, Outcome
  <2>2. CASE UploadValidate(u)
    BY <2>2 DEF UploadValidate, UploadPC
  <2>3. CASE UploadLookup(u)
    BY <2>3 DEF UploadLookup, Pending
  <2>4. CASE UploadCheck(u)
    BY <2>4 DEF UploadCheck, Fail, UploadPC, Outcome
  <2>5. CASE UploadGetContext(u)
    BY <2>5 DEF UploadGetContext
  <2>6. CASE UploadFileInfo(u)
    <3>1. Target(u, 1) \in Paths
      BY <1>2, TargetTyped DEF TypeOK
    <3>2. QED
      BY <2>6, <3>1 DEF UploadFileInfo, Fail, UploadPC, Outcome
  <2>7. CASE UploadCreate(u)
    BY <2>7 DEF UploadCreate, Fail, UploadPC, Outcome
  <2>8. CASE UploadCopied(u)
    BY <2>8 DEF UploadCopied
  <2>9. CASE UploadBroken(u)
    BY <2>9 DEF UploadBroken, Fail, UploadPC, Outcome
  <2>10. CASE UploadFinish(u)
    BY <2>10 DEF UploadFinish, Fail, UploadPC, Outcome
  <2>11. CASE UploadSave(u)
    BY <2>11 DEF UploadSave, UploadPC, Outcome
  <2>12. CASE UploadMark(u)
    <3>1. req[u].sid \in Sessions
      BY <1>2 DEF TypeOK
    <3>2. CASE Updated(Pc("done")) \/ Updated(Pc("resume"))
      BY <3>2 DEF UploadPC
    <3>3. CASE uploadSessions[req[u].sid] # Nil /\ MarkFile(u)
      BY <3>1, <3>3, StatsTyped DEF MarkFile, UploadPC
    <3>4. QED
      BY <2>12, <3>2, <3>3 DEF UploadMark, MarkFile, MarkUnknown
  <2>13. CASE UploadResume(u)
    BY <2>13 DEF UploadResume, UploadPC
  <2>14. CASE UploadChoosePath(u)
    <3>1. \A k \in Copies : Target(u, k) \in Paths
      BY <1>2, TargetTyped DEF TypeOK
    <3>2. QED
      BY <2>14, <3>1 DEF UploadChoosePath
  <2>15. QED
    BY <2>1, <2>2, <2>3, <2>4, <2>5, <2>6, <2>7, <2>8, <2>9, <2>10, <2>11, <2>12, <2>13,
       <2>14 DEF UploadStep
<1> HIDE DEF Pc, PcO, PcP, PcH, PcW, PcC, PcS
<1>5. PICK r : Updated(r) /\ Keeps(r) /\ r.pc # "idle"
  BY <1>3, <1>4 DEF UploadPC
<1>6. QED
  BY <1>1, <1>2, <1>5

\* No step of any request leaves the types.
LEMMA TypeCorrectStep == TypeOK /\ [Next]_vars => TypeOK'
<1> SUFFICES ASSUME TypeOK, [Next]_vars PROVE TypeOK'
  OBVIOUS
<1>1. ASSUME NEW s \in Sessions, NEW fs \in SUBSET Files, PrepareAccept(s, fs)
      PROVE  TypeOK'
  BY <1>1 DEF TypeOK, PrepareAccept
<1>2. ASSUME NEW s \in Sessions, PrepareRespond(s)
      PROVE  TypeOK'
  BY <1>2, OfferTyped DEF TypeOK, PrepareRespond, Stats, PauseScan
<1>3. ASSUME NEW s \in Sessions, Expire(s)
      PROVE  TypeOK'
  BY <1>3 DEF TypeOK, Expire, ExpireEntry
<1>4. ASSUME NEW u \in Uploads, NEW s \in Sessions, NEW f \in Files, UploadArrive(u, s, f)
      PROVE  TypeOK'
  <2> DEFINE pc == IF s \in uploadValidated THEN "lookup" ELSE "query"
             r  == [req[u] EXCEPT !.pc = pc, !.sid = s, !.fid = f,
                                  !.late = CancelAnswered(s)]
  <2>1. req[u] \in Request /\ req[u].pc = "idle" /\ ending[u].pc = "none"
    BY <1>4 DEF TypeOK, UploadArrive, At
  <2>2. pc \in UploadPC /\ CancelAnswered(s) \in BOOLEAN
    BY DEF UploadPC, CancelAnswered
  <2>3. r \in Request
    BY <2>1, <2>2, RequestTyped
  <2>4. r.sid = s /\ r.fid = f
    BY <2>1 DEF Request
  <2>5. req' = [req EXCEPT ![u] = r]
    BY <1>4 DEF UploadArrive
  <2> HIDE DEF r, pc
  <2>6. UNCHANGED <<prepare, offer, caches, scanPauseCount, disk, cancel, ending>>
    BY <1>4 DEF UploadArrive
  <2>7. QED
    BY <2>1, <2>3, <2>4, <2>5, <2>6 DEF TypeOK, caches
<1>5. ASSUME NEW u \in Uploads, UploadStep(u)
      PROVE  TypeOK'
  <2>1. /\ req[u].sid \in Sessions /\ req[u].fid \in Files /\ ending[u].pc = "none"
        /\ req' \in [Uploads -> Request]
        /\ SameTarget(u)
        /\ \A v \in Uploads \ {u} : req'[v] = req[v]
    BY <1>5, UploadFrame DEF TypeOK
  <2>2. \A v \in Uploads :
          req'[v].pc # "idle" => req'[v].sid \in Sessions /\ req'[v].fid \in Files
    BY <2>1 DEF TypeOK, SameTarget
  <2>3. /\ ending' \in [Uploads -> EndTask]
        /\ \A v \in Uploads :
             ending'[v].pc # "none" => req'[v].pc = "done" /\ req'[v].stats \in Stats
    <3>1. CASE UploadResume(u)
      <4>1. req[u].stats \in {Nil} \cup Stats
        BY DEF TypeOK, Request
      <4>2. req'[u].pc = "done" /\ req'[u].stats = req[u].stats
        BY <3>1 DEF UploadResume, TypeOK, Request
      <4>3. QED
        BY <2>1, <3>1, <4>1, <4>2 DEF TypeOK, UploadResume, EndsSession, EndTask
    <3>2. CASE ~UploadResume(u)
      <4>1. ending' = ending
        BY <1>5, <3>2 DEF UploadStep, UploadQuery, UploadValidate, UploadLookup,
              UploadCheck, UploadGetContext, UploadFileInfo, UploadChoosePath, UploadCreate, UploadCopied,
              UploadBroken, UploadFinish, UploadSave, UploadMark
      <4>2. QED
        BY <2>1, <4>1 DEF TypeOK
    <3>3. QED
      BY <3>1, <3>2
  <2>5. /\ prepare' = prepare /\ offer' = offer /\ cancel' = cancel
        /\ sessionCache' = sessionCache /\ sessionContexts' = sessionContexts
        /\ cancelled' = cancelled
    BY <1>5 DEF UploadStep, UploadQuery, UploadValidate, UploadLookup, UploadCheck,
          UploadGetContext, UploadFileInfo, UploadChoosePath, UploadCreate, UploadCopied, UploadBroken,
          UploadFinish, UploadSave, UploadMark, UploadResume, caches
  <2>6. /\ uploadValidated' \subseteq Sessions
        /\ fileSavePaths' \in [Sessions -> SUBSET Files]
        /\ scanPauseCount' \in Int
    BY <1>5, <2>1 DEF TypeOK, UploadStep, UploadQuery, UploadValidate, UploadLookup,
          UploadCheck, UploadGetContext, UploadFileInfo, UploadChoosePath, UploadCreate, UploadCopied,
          UploadBroken, UploadFinish, UploadSave, UploadMark, UploadResume, ResumeScan,
          caches
  <2>7. disk' \in [Paths -> Uploads \cup {NoUpload}]
    BY <1>5 DEF TypeOK, UploadStep, UploadQuery, UploadValidate, UploadLookup,
          UploadCheck, UploadGetContext, UploadFileInfo, UploadChoosePath, UploadCreate, UploadCopied,
          UploadBroken, UploadFinish, UploadSave, UploadMark, UploadResume, RemovePath
  <2>8. /\ uploadSessions' \in [Sessions -> {Nil} \cup SUBSET Files]
        /\ uploadStats' \in [Sessions -> {Nil} \cup Stats]
    <3>1. CASE UploadMark(u)
      <4>1. CASE MarkFile(u)
        BY <2>1, <4>1, StatsTyped DEF TypeOK, MarkFile, LeftAfter, Entry
      <4>2. CASE UNCHANGED <<uploadStats, uploadSessions>>
        BY <4>2 DEF TypeOK
      <4>3. QED
        BY <3>1, <4>1, <4>2 DEF UploadMark, MarkUnknown
    <3>2. CASE ~UploadMark(u)
      BY <1>5, <3>2 DEF TypeOK, UploadStep, UploadQuery, UploadValidate, UploadLookup,
            UploadCheck, UploadGetContext, UploadFileInfo, UploadChoosePath, UploadCreate, UploadCopied,
            UploadBroken, UploadFinish, UploadSave, UploadResume, caches
    <3>3. QED
      BY <3>1, <3>2
  <2>9. QED
    BY <2>1, <2>2, <2>3, <2>5, <2>6, <2>7, <2>8 DEF TypeOK
<1>6. ASSUME NEW u \in Uploads, EndStep(u)
      PROVE  TypeOK'
  <2>1. req[u].sid \in Sessions /\ ending[u].pc # "none"
    BY <1>6 DEF TypeOK, EndStep, EndNotify, EndCleanup, EndRemove
  <2>2. CASE EndNotify(u)
    BY <2>1, <2>2 DEF TypeOK, EndNotify, caches, EndTask
  <2>3. CASE EndCleanup(u)
    BY <2>1, <2>3 DEF TypeOK, EndCleanup, EndTask
  <2>4. CASE EndRemove(u)
    BY <2>1, <2>4, RemoveTyped DEF TypeOK, EndRemove, EndTask
  <2>5. QED
    BY <1>6, <2>2, <2>3, <2>4 DEF EndStep
<1>7. ASSUME NEW c \in Cancels, NEW s \in Sessions, CancelArrive(c, s)
      PROVE  TypeOK'
  <2>1. PICK r \in CancelRequest : r.sid = s /\ cancel' = [cancel EXCEPT ![c] = r]
    BY <1>7 DEF CancelArrive, CancelRequest
  <2>2. UNCHANGED <<prepare, offer, caches, scanPauseCount, disk, req, ending>>
    BY <1>7 DEF CancelArrive
  <2>3. QED
    BY <2>1, <2>2 DEF TypeOK, caches
<1>8. ASSUME NEW c \in Cancels, CancelStep(c)
      PROVE  TypeOK'
  <2>1. cancel[c].sid \in Sessions /\ cancel[c].pc # "idle"
    BY <1>8 DEF TypeOK, CancelStep, CancelRemove, CancelDestroy
  <2>2. CASE CancelRemove(c)
    BY <2>1, <2>2, RemoveTyped DEF TypeOK, CancelRemove, CancelRequest
  <2>3. CASE CancelDestroy(c)
    BY <2>1, <2>3 DEF TypeOK, CancelDestroy, CancelRequest
  <2>4. QED
    BY <1>8, <2>2, <2>3 DEF CancelStep
<1>9. CASE UNCHANGED vars
  BY <1>9 DEF TypeOK, vars, caches
<1>10. QED
  BY <1>1, <1>2, <1>3, <1>4, <1>5, <1>6, <1>7, <1>8, <1>9 DEF Next, PrepareStep

\* TypeOK holds in every reachable state.
THEOREM TypeCorrect == Spec => []TypeOK
<1>1. Init => TypeOK
  BY DEF Init, TypeOK, Request, CancelRequest, EndTask, UploadPC, Outcome
<1>2. QED
  BY <1>1, TypeCorrectStep, PTL DEF Spec

-----------------------------------------------------------------------------
(* The inductive invariant *)

\* A session that was started only ever loses: pending files, its entry, its
\* context.
LEMMA SessionsShrink ==
    ASSUME TypeOK, SessionsInv, [Next]_vars, NEW s \in Sessions, prepare[s] # "none"
    PROVE  /\ prepare'[s] # "none"
           /\ prepare[s] = "ready" => prepare'[s] = "ready"
           /\ uploadSessions[s] = Nil => uploadSessions'[s] = Nil
           /\ \A f \in Files : Pending(s, f)' => Pending(s, f)
           /\ s \in sessionContexts' => s \in sessionContexts
<1>1. ASSUME NEW t \in Sessions, NEW fs \in SUBSET Files, PrepareAccept(t, fs)
      PROVE  /\ prepare' = [prepare EXCEPT ![t] = "accepted"] /\ t # s
             /\ uploadSessions'[s] = uploadSessions[s]
             /\ s \in sessionContexts' => s \in sessionContexts
  BY <1>1 DEF PrepareAccept, TypeOK
<1>2. ASSUME NEW t \in Sessions, PrepareRespond(t)
      PROVE  /\ prepare' = [prepare EXCEPT ![t] = "ready"]
             /\ UNCHANGED <<uploadSessions, sessionContexts>>
  BY <1>2 DEF PrepareRespond
<1>3. ASSUME NEW t \in Sessions, RemoveUploadSession(t)
      PROVE  /\ uploadSessions'[s] \in {Nil, uploadSessions[s]}
             /\ s \in sessionContexts' => s \in sessionContexts
  BY <1>3 DEF RemoveUploadSession, TypeOK
<1>4. ASSUME NEW t \in Sessions, ExpireEntry(t)
      PROVE  /\ uploadSessions'[s] \in {Nil, uploadSessions[s]}
             /\ s \in sessionContexts' => s \in sessionContexts
  BY <1>4 DEF ExpireEntry, TypeOK
<1>5. ASSUME NEW u \in Uploads, MarkFile(u)
      PROVE  /\ uploadSessions[s] = Nil => uploadSessions'[s] = Nil
             /\ \A f \in Files : Pending(s, f)' => Pending(s, f)
  BY <1>5 DEF MarkFile, LeftAfter, Entry, Pending, TypeOK
<1>6. ASSUME NEW u \in Uploads, UploadStep(u)
      PROVE  /\ prepare' = prepare /\ sessionContexts' = sessionContexts
             /\ uploadSessions' = uploadSessions \/ MarkFile(u)
  BY <1>6 DEF UploadStep, UploadQuery, UploadValidate, UploadLookup, UploadCheck,
        UploadGetContext, UploadFileInfo, UploadChoosePath, UploadCreate, UploadCopied, UploadBroken,
        UploadFinish, UploadSave, UploadMark, MarkUnknown, UploadResume, caches
<1>7. ASSUME NEW u \in Uploads, EndStep(u)
      PROVE  /\ prepare' = prepare
             /\ \/ UNCHANGED <<uploadSessions, sessionContexts>>
                \/ \E t \in Sessions : RemoveUploadSession(t)
  BY <1>7 DEF EndStep, EndNotify, EndCleanup, EndRemove, caches, TypeOK
<1>8. ASSUME NEW c \in Cancels, CancelStep(c)
      PROVE  /\ prepare' = prepare
             /\ \/ UNCHANGED <<uploadSessions, sessionContexts>>
                \/ \E t \in Sessions : RemoveUploadSession(t)
  BY <1>8 DEF CancelStep, CancelRemove, CancelDestroy, TypeOK
<1>9. ASSUME UNCHANGED <<prepare, caches>>
      PROVE  UNCHANGED <<prepare, uploadSessions, sessionContexts>>
  BY <1>9 DEF caches
<1>10. CASE \E u \in Uploads, t \in Sessions, f \in Files : UploadArrive(u, t, f)
  BY <1>9, <1>10 DEF UploadArrive, Pending
<1>11. CASE \E c \in Cancels, t \in Sessions : CancelArrive(c, t)
  BY <1>9, <1>11 DEF CancelArrive, Pending
<1>12. CASE UNCHANGED vars
  BY <1>9, <1>12 DEF vars, Pending
<1>13. CASE \E u \in Uploads : UploadStep(u)
  BY <1>5, <1>6, <1>13 DEF Pending
<1>14. CASE (\E u \in Uploads : EndStep(u)) \/ (\E c \in Cancels : CancelStep(c))
  BY <1>3, <1>7, <1>8, <1>14 DEF Pending
<1>15. CASE \E t \in Sessions : Expire(t)
  BY <1>4, <1>15 DEF Expire, Pending
<1>16. CASE \E t \in Sessions : PrepareStep(t)
  BY <1>1, <1>2, <1>16 DEF PrepareStep, Pending, TypeOK
<1>17. QED
  BY <1>10, <1>11, <1>12, <1>13, <1>14, <1>15, <1>16 DEF Next

\* The five kinds of steps, seen from the requests.
Quiet == /\ UNCHANGED <<req, cancel, disk>>
         /\ \A u \in Uploads : Ended(u)' => Ended(u)

\* A step is one of an upload, an arrival, a cancel, or it leaves the requests'
\* records, and what the invariants say of them, alone.
LEMMA StepKinds ==
    ASSUME TypeOK, [Next]_vars
    PROVE  \/ Quiet
           \/ \E u \in Uploads, s \in Sessions, f \in Files : UploadArrive(u, s, f)
           \/ \E u \in Uploads : UploadStep(u)
           \/ \E c \in Cancels, s \in Sessions : CancelArrive(c, s)
           \/ \E c \in Cancels : CancelStep(c)
<1>1. CASE UNCHANGED vars
  BY <1>1 DEF vars, Quiet, Ended
<1>2. CASE \E s \in Sessions : PrepareStep(s)
  BY <1>2 DEF PrepareStep, PrepareAccept, PrepareRespond, Quiet, Ended
<1>3. CASE \E s \in Sessions : Expire(s)
  BY <1>3 DEF Expire, Quiet, Ended
<1>4. CASE \E u \in Uploads : EndStep(u)
  BY <1>4 DEF EndStep, EndNotify, EndCleanup, EndRemove, Quiet, Ended, TypeOK, EndTask
<1>5. QED
  BY <1>1, <1>2, <1>3, <1>4 DEF Next

\* A step changes the record of one upload at most.
LEMMA RequestCases ==
    ASSUME TypeOK, [Next]_vars, NEW u \in Uploads
    PROVE  \/ req'[u] = req[u]
           \/ \E s \in Sessions, f \in Files : UploadArrive(u, s, f)
           \/ UploadStep(u)
<1>1. (\E v \in Uploads, s \in Sessions, f \in Files : v # u /\ UploadArrive(v, s, f))
        => req'[u] = req[u]
  BY DEF UploadArrive, TypeOK
<1>2. (\E v \in Uploads : v # u /\ UploadStep(v)) => req'[u] = req[u]
  BY UploadFrame
<1>3. (\E c \in Cancels : CancelStep(c) \/ \E s \in Sessions : CancelArrive(c, s))
        => req'[u] = req[u]
  BY DEF CancelStep, CancelRemove, CancelDestroy, CancelArrive
<1>4. Quiet => req'[u] = req[u]
  BY DEF Quiet
<1>5. QED
  BY <1>1, <1>2, <1>3, <1>4, StepKinds

\* A session is ended by the last upload's UploadResume and by nothing else.
LEMMA EndedCases ==
    ASSUME TypeOK, [Next]_vars, NEW u \in Uploads, Ended(u)'
    PROVE  Ended(u) \/ (UploadResume(u) /\ EndsSession(u))
<1>1. (\E v \in Uploads, s \in Sessions, f \in Files : UploadArrive(v, s, f)) => Ended(u)
  BY DEF UploadArrive, Ended
<1>2. (\E c \in Cancels : CancelStep(c) \/ \E s \in Sessions : CancelArrive(c, s)) => Ended(u)
  BY DEF CancelStep, CancelRemove, CancelDestroy, CancelArrive, Ended
<1>3. ASSUME NEW v \in Uploads, UploadStep(v), ~UploadResume(v)
      PROVE  Ended(u)
  BY <1>3 DEF Ended, UploadStep, UploadQuery, UploadValidate, UploadLookup, UploadCheck,
        UploadGetContext, UploadFileInfo, UploadChoosePath, UploadCreate, UploadCopied, UploadBroken,
        UploadFinish, UploadSave, UploadMark
<1>4. ASSUME NEW v \in Uploads, UploadResume(v)
      PROVE  Ended(u) \/ (v = u /\ EndsSession(u))
  BY <1>4 DEF Ended, UploadResume, TypeOK
<1>5. QED
  BY <1>1, <1>2, <1>3, <1>4, StepKinds DEF Quiet

\* Closed in the next state.
ClosedNext(s) == uploadSessions'[s] = Nil /\ s \notin sessionContexts'

\* A context is cancelled only together with the removal of the whole session.
LEMMA CancelledGrows ==
    ASSUME TypeOK, SessionsInv, [Next]_vars, NEW s \in Sessions
    PROVE  /\ s \in cancelled' => s \in cancelled \/ (s \in sessionContexts /\ ClosedNext(s))
           /\ s \in sessionContexts' => s \in sessionContexts \/ prepare'[s] # "none"
<1>1. ASSUME NEW t \in Sessions, RemoveUploadSession(t)
      PROVE  /\ s \in cancelled' => s \in cancelled \/ (s \in sessionContexts /\ ClosedNext(s))
             /\ s \in sessionContexts' => s \in sessionContexts
  BY <1>1 DEF RemoveUploadSession, TypeOK, Closed, ClosedNext
<1>2. CASE \E u \in Uploads : UploadStep(u)
  BY <1>2 DEF UploadStep, UploadQuery, UploadValidate, UploadLookup, UploadCheck,
        UploadGetContext, UploadFileInfo, UploadChoosePath, UploadCreate, UploadCopied, UploadBroken,
        UploadFinish, UploadSave, UploadMark, UploadResume, caches
<1>3. CASE \E u \in Uploads : EndStep(u)
  BY <1>1, <1>3 DEF EndStep, EndNotify, EndCleanup, EndRemove, caches, TypeOK
<1>4. CASE \E c \in Cancels : CancelStep(c)
  BY <1>1, <1>4 DEF CancelStep, CancelRemove, CancelDestroy, TypeOK
<1>5. CASE \E t \in Sessions : Expire(t)
  BY <1>5 DEF Expire, ExpireEntry
<1>6. CASE \E t \in Sessions : PrepareStep(t)
  BY <1>6 DEF PrepareStep, PrepareAccept, PrepareRespond, TypeOK
<1>7. CASE \/ UNCHANGED vars
           \/ \E u \in Uploads, t \in Sessions, f \in Files : UploadArrive(u, t, f)
           \/ \E c \in Cancels, t \in Sessions : CancelArrive(c, t)
  BY <1>7 DEF vars, caches, UploadArrive, CancelArrive
<1>8. QED
  BY <1>2, <1>3, <1>4, <1>5, <1>6, <1>7 DEF Next

\* A session of a known id that has lost its entry and its context never gets
\* either of them back.
LEMMA StaysClosed ==
    ASSUME TypeOK, SessionsInv, [Next]_vars, NEW s \in Sessions, prepare[s] # "none", Closed(s)
    PROVE  ClosedNext(s)
BY SessionsShrink DEF Closed, ClosedNext

\* Requests keep to sessions that were given out, and removed sessions stay
\* removed.
LEMMA SessionsStep ==
    ASSUME TypeOK, SessionsInv, [Next]_vars
    PROVE  SessionsInv'
<1>1. ASSUME NEW u \in Uploads, req'[u].pc # "idle"
      PROVE  prepare'[req'[u].sid] = "ready"
  <2>1. CASE req[u].pc # "idle" /\ req'[u].sid = req[u].sid
    BY <2>1, SessionsShrink DEF TypeOK, SessionsInv
  <2>2. CASE \E s \in Sessions, f \in Files : UploadArrive(u, s, f)
    <3>1. PICK s \in Sessions, f \in Files : UploadArrive(u, s, f)
      BY <2>2
    <3>2. req'[u].sid = s /\ prepare[s] = "ready" /\ prepare' = prepare
      BY <3>1 DEF UploadArrive, TypeOK, Request
    <3>3. QED
      BY <3>2
  <2>3. CASE UploadStep(u)
    BY <2>1, <2>3, UploadFrame DEF SameTarget
  <2>4. CASE req'[u] = req[u]
    BY <1>1, <2>1, <2>4
  <2>5. QED
    BY <2>2, <2>3, <2>4, RequestCases
<1>2. ASSUME NEW c \in Cancels
      PROVE  \/ cancel'[c] = cancel[c]
             \/ \E s \in Sessions : CancelArrive(c, s)
             \/ CancelStep(c)
  <2>1. (\E u \in Uploads : UploadStep(u)) => cancel' = cancel
    BY DEF UploadStep, UploadQuery, UploadValidate, UploadLookup, UploadCheck,
        UploadGetContext, UploadFileInfo, UploadChoosePath, UploadCreate, UploadCopied, UploadBroken,
        UploadFinish, UploadSave, UploadMark, UploadResume
  <2>2. (\E u \in Uploads, s \in Sessions, f \in Files : UploadArrive(u, s, f))
          => cancel' = cancel
    BY DEF UploadArrive
  <2>3. \A d \in Cancels : d # c /\ (CancelStep(d) \/ \E s \in Sessions : CancelArrive(d, s))
          => cancel'[c] = cancel[c]
    BY DEF CancelStep, CancelRemove, CancelDestroy, CancelArrive, TypeOK
  <2>4. Quiet => cancel' = cancel
    BY DEF Quiet
  <2>5. QED
    BY <2>1, <2>2, <2>3, <2>4, StepKinds
<1>3. ASSUME NEW c \in Cancels
      PROVE  /\ cancel'[c].pc # "idle" => prepare'[cancel'[c].sid] = "ready"
             /\ cancel'[c].found /\ cancel'[c].pc \in {"destroy", "again", "done"}
                  => ClosedNext(cancel'[c].sid)
  <2> DEFINE s == cancel[c].sid
  <2>0. cancel[c] \in CancelRequest /\ (cancel[c].pc # "idle" => s \in Sessions)
    BY DEF TypeOK
  <2>1. CASE cancel'[c] = cancel[c]
    <3>1. CASE cancel[c].pc = "idle"
      BY <2>1, <3>1
    <3>2. CASE cancel[c].pc # "idle"
      <4>1. prepare[s] = "ready" /\ prepare'[s] = "ready"
        BY <2>0, <3>2, SessionsShrink DEF SessionsInv
      <4>2. Closed(s) => ClosedNext(s)
        BY <2>0, <3>2, <4>1, StaysClosed
      <4>3. cancel'[c].sid = s
        BY <2>1
      <4>4. ClosedNext(cancel'[c].sid) <=> ClosedNext(s)
        BY <4>3 DEF Closed, ClosedNext
      <4>5. QED
        BY <2>1, <4>1, <4>2, <4>4 DEF SessionsInv
    <3>3. QED
      BY <3>1, <3>2
  <2>2. CASE \E t \in Sessions : CancelArrive(c, t)
    <3>1. PICK t \in Sessions : CancelArrive(c, t)
      BY <2>2
    <3>2. /\ cancel'[c].sid = t
          /\ cancel'[c].found => cancel'[c].pc = "remove"
          /\ prepare'[t] = "ready"
      BY <3>1 DEF CancelArrive, TypeOK
    <3>3. QED
      BY <3>2
  <2>3. CASE CancelStep(c)
    <3>1. cancel[c].pc # "idle" /\ cancel'[c].sid = s /\ s \in Sessions
      BY <2>0, <2>3 DEF CancelStep, CancelRemove, CancelDestroy, TypeOK, CancelRequest
    <3>2. prepare[s] = "ready" /\ prepare'[s] = "ready"
      BY <3>1, SessionsShrink DEF SessionsInv
    <3>3. cancel'[c].found => ClosedNext(s)
      <4>1. CASE CancelRemove(c)
        BY <3>1, <4>1 DEF CancelRemove, RemoveUploadSession, Closed, ClosedNext, TypeOK
      <4>2. CASE CancelDestroy(c)
        <5>1. cancel'[c].found => cancel[c].found /\ cancel[c].pc = "destroy"
          BY <2>0, <4>2 DEF CancelDestroy, TypeOK, CancelRequest
        <5>2. cancel'[c].found => Closed(s)
          BY <5>1 DEF SessionsInv
        <5>3. QED
          BY <3>1, <3>2, <5>2, StaysClosed
      <4>3. QED
        BY <2>3, <4>1, <4>2 DEF CancelStep
    <3>4. ClosedNext(cancel'[c].sid) <=> ClosedNext(s)
      BY <3>1 DEF Closed, ClosedNext
    <3>5. QED
      BY <3>1, <3>2, <3>3, <3>4
  <2>4. QED
    BY <1>2, <2>1, <2>2, <2>3
<1>4. ASSUME NEW s \in sessionContexts' \cup cancelled'
      PROVE  prepare'[s] # "none"
  <2>1. s \in Sessions
    BY TypeCorrectStep DEF TypeOK
  <2>2. \/ s \in sessionContexts \cup cancelled
        \/ prepare'[s] # "none"
    BY <1>4, <2>1, CancelledGrows
  <2>3. s \in sessionContexts \cup cancelled => prepare[s] # "none"
    BY DEF SessionsInv
  <2>4. QED
    BY <2>1, <2>2, <2>3, SessionsShrink
<1>5. ASSUME NEW s \in cancelled'
      PROVE  ClosedNext(s)
  <2>1. s \in Sessions
    BY TypeCorrectStep DEF TypeOK
  <2>2. s \in cancelled => prepare[s] # "none" /\ Closed(s)
    BY DEF SessionsInv
  <2>3. QED
    BY <1>5, <2>1, <2>2, CancelledGrows, StaysClosed
<1>6. QED
  BY <1>1, <1>3, <1>4, <1>5 DEF SessionsInv, Closed, ClosedNext

\* The tally of the last upload is set once, when the entry of its session goes.
LEMMA LastStep ==
    ASSUME TypeOK, SessionsInv, LastInv, [Next]_vars
    PROVE  LastInv'
<1>1. ASSUME NEW u \in Uploads, req[u].stats # Nil,
             req'[u] = req[u] \/ (req'[u].sid = req[u].sid /\ req'[u].stats = req[u].stats
                                  /\ req'[u].pc = "done")
      PROVE  req'[u].pc \in {"resume", "done"} /\ uploadSessions'[req'[u].sid] = Nil
  <2>1. req[u].sid \in Sessions /\ prepare[req[u].sid] # "none"
        /\ uploadSessions[req[u].sid] = Nil /\ req[u].pc \in {"resume", "done"}
    BY <1>1 DEF TypeOK, SessionsInv, LastInv
  <2>2. QED
    BY <1>1, <2>1, SessionsShrink
<1>2. ASSUME NEW u \in Uploads, UploadStep(u)
      PROVE  \/ req'[u].stats = req[u].stats /\ (req[u].stats # Nil => req'[u].pc = "done")
             \/ /\ MarkFile(u) /\ req'[u].pc = "resume"
                /\ uploadSessions[req[u].sid] # Nil /\ uploadSessions'[req[u].sid] = Nil
  <2>0. req[u].pc # "idle" /\ req[u] \in Request /\ req[u].sid \in Sessions
        /\ (req[u].stats # Nil => req[u].pc \in {"resume", "done"})
    BY <1>2, UploadFrame DEF TypeOK, LastInv
  <2>1. CASE UploadMark(u)
    BY <2>0, <2>1 DEF UploadMark, MarkFile, MarkUnknown, LeftAfter, Entry, At, TypeOK, Request
  <2>2. CASE UploadResume(u)
    BY <2>0, <2>2 DEF UploadResume, TypeOK, Request
  <2>3. CASE ~UploadMark(u) /\ ~UploadResume(u)
    BY <1>2, <2>0, <2>3 DEF UploadStep, UploadQuery, UploadValidate, UploadLookup, UploadCheck,
        UploadGetContext, UploadFileInfo, UploadChoosePath, UploadCreate, UploadCopied, UploadBroken,
        UploadFinish, UploadSave, Fail, At, TypeOK, Request
  <2>4. QED
    BY <2>1, <2>2, <2>3
<1>3. ASSUME NEW u \in Uploads, req'[u].stats # Nil
      PROVE  /\ req'[u].pc \in {"resume", "done"}
             /\ uploadSessions'[req'[u].sid] = Nil
             /\ req'[u].sid = req[u].sid
             /\ \/ req[u].stats # Nil
                \/ UploadStep(u) /\ uploadSessions[req[u].sid] # Nil
  <2>1. CASE req'[u] = req[u]
    BY <1>1, <1>3, <2>1
  <2>2. CASE \E s \in Sessions, f \in Files : UploadArrive(u, s, f)
    <3>1. req'[u].stats = req[u].stats /\ req[u].pc = "idle"
      BY <2>2 DEF UploadArrive, At, TypeOK, Request
    <3>2. QED
      BY <1>3, <3>1 DEF LastInv
  <2>3. CASE UploadStep(u)
    <3>1. req'[u].sid = req[u].sid
      BY <2>3, UploadFrame DEF SameTarget
    <3>2. QED
      BY <1>1, <1>2, <1>3, <2>3, <3>1
  <2>4. QED
    BY <2>1, <2>2, <2>3, RequestCases
<1>4. ASSUME NEW u \in Uploads, Ended(u)'
      PROVE  req'[u].stats # Nil
  <2>1. req[u].stats # Nil /\ req[u].pc # "idle"
    BY <1>4, EndedCases DEF LastInv, EndsSession
  <2>2. CASE \E s \in Sessions, f \in Files : UploadArrive(u, s, f)
    BY <2>1, <2>2 DEF UploadArrive, At
  <2>3. CASE UploadStep(u)
    <3>1. uploadSessions[req[u].sid] = Nil
      BY <2>1 DEF LastInv
    <3>2. QED
      BY <1>2, <2>1, <2>3, <3>1
  <2>4. QED
    BY <2>1, <2>2, <2>3, RequestCases
<1>5. ASSUME NEW u \in Uploads, NEW v \in Uploads, u # v,
             req'[u].stats # Nil, req'[v].stats # Nil, req'[u].sid = req'[v].sid
      PROVE  FALSE
  <2>1. req[u].sid = req[v].sid
    BY <1>3, <1>5
  <2>2. ~(UploadStep(u) /\ UploadStep(v) /\ req[u].stats = Nil /\ req[v].stats = Nil)
    BY <1>5, UploadFrame
  <2>3. req[u].stats # Nil \/ req[v].stats # Nil
    BY <1>3, <1>5, <2>2
  <2>4. uploadSessions[req[u].sid] = Nil
    BY <2>1, <2>3 DEF LastInv
  <2>5. req[u].stats # Nil /\ req[v].stats # Nil
    BY <1>3, <1>5, <2>1, <2>4
  <2>6. QED
    BY <1>5, <2>1, <2>5 DEF LastInv
<1>6. QED
  BY <1>3, <1>4, <1>5 DEF LastInv

\* Between the two lookups of an upload a file may cease to be pending, never
\* become so.
LEMMA KnownStep ==
    ASSUME TypeOK, SessionsInv, KnownInv, [Next]_vars
    PROVE  KnownInv'
<1> SUFFICES ASSUME NEW u \in Uploads
             PROVE  /\ req'[u].pc \in {"check", "context", "info"}
                       /\ Pending(req[u].sid, req[u].fid)' => req'[u].hasFileInfo
                    /\ req'[u].pc \in {"path", "create", "copy", "finish", "save"}
                         => req'[u].hasFileInfo
                    /\ req'[u].outcome = "saved"
                         => req'[u].hasFileInfo /\ req'[u].pc \in {"mark", "resume", "done"}
  BY DEF KnownInv
<1> DEFINE s == req[u].sid
           f == req[u].fid
           PendingNext == uploadSessions'[s] # Nil /\ f \in uploadSessions'[s]
<1>1. req[u] \in Request /\ req \in [Uploads -> Request]
  BY DEF TypeOK
<1>2. ASSUME req[u].pc # "idle", PendingNext
      PROVE  Pending(s, f)
  <2>1. s \in Sessions /\ f \in Files /\ prepare[s] # "none"
    BY <1>2 DEF TypeOK, SessionsInv
  <2>2. QED
    BY <1>2, <2>1, SessionsShrink DEF Pending
<1>3. CASE req'[u] = req[u]
  <2>1. Pending(req[u].sid, req[u].fid)' <=> PendingNext
    BY <1>3 DEF Pending
  <2>2. QED
    BY <1>2, <1>3, <2>1 DEF KnownInv
<1>4. CASE \E t \in Sessions, g \in Files : UploadArrive(u, t, g)
  BY <1>1, <1>4 DEF UploadArrive, At, KnownInv, Request
<1>5. CASE UploadStep(u)
  <2>1. req[u].pc # "idle" /\ req'[u].sid = s /\ req'[u].fid = f
    BY <1>5, UploadFrame DEF SameTarget
  <2>2. Pending(req[u].sid, req[u].fid)' <=> PendingNext
    BY <2>1 DEF Pending
  <2>3. Pending(req[u].sid, req[u].fid)' => Pending(s, f)
    BY <1>2, <2>1, <2>2
  <2>4. CASE UploadQuery(u) \/ UploadValidate(u)
    BY <1>1, <2>4 DEF UploadQuery, UploadValidate, At, KnownInv, Request
  <2>5. CASE UploadLookup(u)
    BY <1>1, <2>3, <2>5 DEF UploadLookup, At, KnownInv, Request
  <2>6. CASE UploadCheck(u) \/ UploadGetContext(u)
    BY <1>1, <2>3, <2>6 DEF UploadCheck, UploadGetContext, Fail, At, KnownInv, Request
  <2>7. CASE UploadFileInfo(u)
    BY <1>1, <2>3, <2>7 DEF UploadFileInfo, Fail, At, KnownInv, Request
  <2>8. CASE UploadChoosePath(u) \/ UploadCreate(u) \/ UploadCopied(u)
            \/ UploadBroken(u)
    BY <1>1, <2>8 DEF UploadChoosePath, UploadCreate, UploadCopied, UploadBroken, Fail, At, KnownInv, Request
  <2>9. CASE UploadFinish(u) \/ UploadSave(u)
    BY <1>1, <2>9 DEF UploadFinish, UploadSave, Fail, At, KnownInv, Request
  <2>10. CASE UploadMark(u) \/ UploadResume(u)
    BY <1>1, <2>10 DEF UploadMark, MarkFile, MarkUnknown, UploadResume, At, KnownInv, Request
  <2>11. QED
    BY <1>5, <2>4, <2>5, <2>6, <2>7, <2>8, <2>9, <2>10 DEF UploadStep
<1>6. QED
  BY <1>3, <1>4, <1>5, RequestCases

\* A late upload meets a closed session, so UploadCheck turns it away before it
\* creates a file.
LEMMA LateStep ==
    ASSUME TypeOK, SessionsInv, LateInv, [Next]_vars
    PROVE  LateInv'
<1> SUFFICES ASSUME NEW u \in Uploads
             PROVE  /\ req'[u].late => req'[u].pc # "idle" /\ ClosedNext(req'[u].sid)
                    /\ req'[u].late \/ req'[u].pc = "idle" =>
                         /\ req'[u].pc \notin {"context", "info", "path", "create",
                                               "copy", "finish", "save"}
                         /\ ~req'[u].whole
                         /\ \A p \in DOMAIN disk' : disk'[p] # u
  BY DEF LateInv, Closed, ClosedNext
<1>1. req[u] \in Request /\ req \in [Uploads -> Request]
  BY DEF TypeOK
<1>2. ASSUME req[u].late
      PROVE  ClosedNext(req[u].sid)
  <2>1. req[u].sid \in Sessions /\ prepare[req[u].sid] # "none" /\ Closed(req[u].sid)
    BY <1>2 DEF LateInv, SessionsInv, TypeOK
  <2>2. QED
    BY <2>1, StaysClosed
<1>3. ASSUME \A p \in DOMAIN disk : disk[p] # u, ~UploadCreate(u)
      PROVE  \A p \in DOMAIN disk' : disk'[p] # u
  <2>1. ASSUME NEW v \in Uploads, UploadStep(v)
        PROVE  \/ disk' = disk
               \/ v # u /\ disk' = [disk EXCEPT ![req[v].path] = v]
               \/ disk' = [disk EXCEPT ![req[v].path] = NoUpload]
    BY <1>3, <2>1 DEF UploadStep, UploadQuery, UploadValidate, UploadLookup, UploadCheck,
        UploadGetContext, UploadFileInfo, UploadChoosePath, UploadCreate, UploadCopied, UploadBroken,
        UploadFinish, UploadSave, UploadMark, UploadResume, RemovePath
  <2>2. CASE \E v \in Uploads : UploadStep(v)
    BY <1>3, <2>1, <2>2, ConstantsAssumption DEF TypeOK
  <2>3. CASE ~\E v \in Uploads : UploadStep(v)
    <3>1. disk' = disk
      BY <2>3, StepKinds DEF Quiet, UploadArrive, CancelArrive, CancelStep, CancelRemove,
            CancelDestroy
    <3>2. QED
      BY <1>3, <3>1
  <2>4. QED
    BY <2>2, <2>3
<1>4. CASE req'[u] = req[u]
  <2>1. UploadCreate(u) => req'[u] # req[u]
    BY <1>1 DEF UploadCreate, Fail, At, Request
  <2>2. QED
    BY <1>2, <1>3, <1>4, <2>1 DEF LateInv
<1>5. CASE \E t \in Sessions, g \in Files : UploadArrive(u, t, g)
  <2>1. PICK t \in Sessions, g \in Files : UploadArrive(u, t, g)
    BY <1>5
  <2>2. /\ req[u].pc = "idle" /\ ~UploadCreate(u)
        /\ req'[u].pc \in {"lookup", "query"} /\ req'[u].sid = t
        /\ req'[u].whole = req[u].whole /\ req'[u].late = CancelAnswered(t)
        /\ prepare[t] = "ready"
    BY <1>1, <2>1 DEF UploadArrive, UploadCreate, At, Request
  <2>3. CancelAnswered(t) => Closed(t)
    BY DEF CancelAnswered, SessionsInv
  <2>4. CancelAnswered(t) => ClosedNext(t)
    BY <2>2, <2>3, StaysClosed
  <2>5. QED
    BY <1>3, <2>2, <2>4 DEF LateInv
<1>6. CASE UploadStep(u)
  <2>1. /\ req[u].pc # "idle" /\ req'[u].pc # "idle"
        /\ req'[u].sid = req[u].sid /\ req'[u].late = req[u].late
    BY <1>6, UploadFrame DEF SameTarget
  <2>2. ASSUME req[u].late
        PROVE  /\ ~UploadCreate(u)
               /\ req'[u].pc \notin {"context", "info", "path", "create", "copy", "finish", "save"}
               /\ req'[u].whole = req[u].whole
    <3>1. /\ req[u].pc \notin {"context", "info", "path", "create", "copy", "finish", "save"}
          /\ req[u].sid \notin sessionContexts
      BY <2>2 DEF LateInv, Closed
    <3>2. UploadQuery(u) \/ UploadValidate(u) \/ UploadLookup(u) \/ UploadCheck(u)
          \/ UploadMark(u) \/ UploadResume(u)
      BY <1>6, <3>1 DEF UploadStep, At, UploadGetContext, UploadFileInfo, UploadChoosePath, UploadCreate,
            UploadCopied, UploadBroken, UploadFinish, UploadSave
    <3>3. CASE UploadQuery(u) \/ UploadValidate(u) \/ UploadLookup(u)
      BY <1>1, <3>1, <3>3 DEF UploadQuery, UploadValidate, UploadLookup, UploadCreate, At,
            Request
    <3>4. CASE UploadCheck(u)
      BY <1>1, <3>1, <3>4 DEF UploadCheck, IsSessionCancelled, Fail, UploadCreate, At, Request
    <3>5. CASE UploadMark(u) \/ UploadResume(u)
      BY <1>1, <3>1, <3>5 DEF UploadMark, MarkFile, MarkUnknown, UploadResume, UploadCreate,
            At, Request
    <3>6. QED
      BY <3>2, <3>3, <3>4, <3>5
  <2>3. QED
    BY <1>2, <1>3, <2>1, <2>2 DEF LateInv
<1>7. QED
  BY <1>4, <1>5, <1>6, RequestCases

\* What the steps of an upload do to the disk and to the part of its record that tells
\* about it: r is the record before it,
\* q the one after.
Early == {"idle", "query", "validate", "lookup", "check", "context", "info", "path"}

KeepsDisk(r, q) ==
    disk' = disk /\ q.path = r.path /\ q.whole = r.whole

StaysEarly(r, q) ==
    /\ r.pc \in Early /\ q.pc \in Early
    /\ KeepsDisk(r, q) /\ q.outcome = r.outcome

GivesUp(r, q) ==
    /\ r.pc \in Early \cup {"create", "copy"} \/ ~r.whole
    /\ q.pc \in {"mark", "done"} /\ q.outcome \in {"failed", "refused"}
    /\ KeepsDisk(r, q)

TakesPath(r, q) ==
    /\ r.pc \in Early /\ q.pc = "create"
    /\ q.path \in Paths /\ q.whole = r.whole /\ q.outcome = r.outcome
    /\ disk' = disk

Creates(u, r, q) ==
    /\ r.pc = "create" /\ q.pc = "copy"
    /\ q.path = r.path /\ q.whole = r.whole /\ q.outcome = r.outcome
    /\ disk' = [disk EXCEPT ![r.path] = u]

ReadsBody(r, q) ==
    /\ r.pc = "copy" /\ q.pc = "finish"
    /\ q.path = r.path /\ q.outcome = r.outcome
    /\ disk' = disk

Removes(r, q) ==
    /\ r.pc \in {"copy", "finish"} /\ q.pc = "mark" /\ q.outcome = "failed"
    /\ q.path = r.path /\ q.whole = r.whole
    /\ disk' = [disk EXCEPT ![r.path] = NoUpload]

Accepts(r, q) ==
    /\ r.pc = "finish" /\ r.whole /\ q.pc = "save"
    /\ KeepsDisk(r, q) /\ q.outcome = r.outcome

Saves(r, q) ==
    /\ r.pc = "save" /\ q.pc = "mark" /\ q.outcome = "saved"
    /\ KeepsDisk(r, q)

Closes(r, q) ==
    /\ r.pc \in {"mark", "resume"} /\ q.pc \in {"resume", "done"}
    /\ KeepsDisk(r, q) /\ q.outcome = r.outcome

\* Every step of an upload is of one of these kinds.
LEMMA DiskKinds ==
    ASSUME TypeOK, NEW u \in Uploads, UploadStep(u), NEW r, r = req[u], NEW q, q = req'[u]
    PROVE  \/ StaysEarly(r, q) \/ GivesUp(r, q) \/ TakesPath(r, q) \/ Creates(u, r, q)
           \/ ReadsBody(r, q) \/ Removes(r, q) \/ Accepts(r, q) \/ Saves(r, q)
           \/ Closes(r, q)
<1>1. r = req[u] /\ q = req'[u] /\ r \in Request /\ req \in [Uploads -> Request]
  BY DEF TypeOK
<1>2. CASE UploadQuery(u)
  BY <1>1, <1>2 DEF UploadQuery, At, Request, StaysEarly, GivesUp, KeepsDisk, Early
<1>3. CASE UploadValidate(u) \/ UploadLookup(u) \/ UploadGetContext(u)
  BY <1>1, <1>3 DEF UploadValidate, UploadLookup, UploadGetContext, At, Request,
        StaysEarly, KeepsDisk, Early
<1>4. CASE UploadCheck(u)
  BY <1>1, <1>4 DEF UploadCheck, Fail, At, Request, StaysEarly, GivesUp, KeepsDisk, Early
<1>5. CASE UploadFileInfo(u)
  <2>1. req[u].sid \in Sessions /\ req[u].fid \in Files
    BY <1>5 DEF UploadFileInfo, At, TypeOK
  <2>2. Target(u, 1) \in Paths
    BY <2>1, TargetTyped
  <2>3. CASE Pending(req[u].sid, req[u].fid)
    BY <1>1, <1>5, <2>2, <2>3 DEF UploadFileInfo, At, Request, StaysEarly, TakesPath,
          KeepsDisk, Early
  <2>4. CASE ~Pending(req[u].sid, req[u].fid)
    BY <1>1, <1>5, <2>4 DEF UploadFileInfo, Fail, At, Request, GivesUp, KeepsDisk, Early
  <2>5. QED
    BY <2>3, <2>4
<1>6. CASE UploadChoosePath(u)
  <2>1. req[u].sid \in Sessions /\ req[u].fid \in Files
    BY <1>6 DEF UploadChoosePath, At, TypeOK
  <2>2. \A k \in Copies : Target(u, k) \in Paths
    BY <2>1, TargetTyped
  <2>3. QED
    BY <1>1, <1>6, <2>2 DEF UploadChoosePath, At, Request, TakesPath, Early
<1>7. CASE UploadCreate(u)
  BY <1>1, <1>7 DEF UploadCreate, Fail, At, Request, Creates, GivesUp, KeepsDisk
<1>8. CASE UploadCopied(u)
  BY <1>1, <1>8 DEF UploadCopied, At, Request, ReadsBody
<1>9. CASE UploadBroken(u)
  BY <1>1, <1>9 DEF UploadBroken, Fail, RemovePath, At, Request, Removes, GivesUp, KeepsDisk
<1>10. CASE UploadFinish(u)
  BY <1>1, <1>10 DEF UploadFinish, Fail, RemovePath, BodyAccepted, At, Request, Removes,
        GivesUp, Accepts, KeepsDisk
<1>11. CASE UploadSave(u)
  BY <1>1, <1>11 DEF UploadSave, At, Request, Saves, KeepsDisk
<1>12. CASE UploadMark(u)
  BY <1>1, <1>12 DEF UploadMark, MarkFile, MarkUnknown, At, Request, Closes, KeepsDisk
<1>13. CASE UploadResume(u)
  BY <1>1, <1>13 DEF UploadResume, At, Request, Closes, KeepsDisk
<1>14. QED
  BY <1>2, <1>3, <1>4, <1>5, <1>6, <1>7, <1>8, <1>9, <1>10, <1>11, <1>12, <1>13
     DEF UploadStep

\* What DiskInv says of one upload with record r.
Holds(r) == r.pc \in {"copy", "finish", "save"} \/ r.outcome = "saved"

DiskInvOf(u, r, d) ==
    /\ r.pc \in Early => r.path = Nil
    /\ r.pc \in {"create", "copy", "finish", "save"} => r.path \in Paths
    /\ r.outcome # "none" => r.pc \in {"mark", "resume", "done"}
    /\ r.whole => r.pc \in {"finish", "save", "mark", "resume", "done"} /\ r.path \in Paths
    /\ r.pc = "save" \/ r.outcome = "saved" => r.whole
    /\ \A p \in Paths : d[p] = u => r.path = p
    /\ r.whole /\ r.outcome = "failed" => d[r.path] # u

\* A step of an upload keeps what it says of that one.
LEMMA DiskOwnStep ==
    ASSUME NEW u \in Uploads, NEW r, NEW q,
           disk \in [Paths -> Uploads \cup {NoUpload}],
           DiskInvOf(u, r, disk),
           \/ StaysEarly(r, q) \/ GivesUp(r, q) \/ TakesPath(r, q) \/ Creates(u, r, q)
           \/ ReadsBody(r, q) \/ Removes(r, q) \/ Accepts(r, q) \/ Saves(r, q)
           \/ Closes(r, q)
    PROVE  /\ DiskInvOf(u, q, disk')
           /\ Holds(q) => \/ disk'[q.path] = u
                          \/ Holds(r) /\ q.path = r.path /\ disk'[q.path] = disk[r.path]
<1>1. NoUpload \notin Uploads /\ Nil \notin Paths
  BY ConstantsAssumption, NilAssumption
<1>2. CASE StaysEarly(r, q)
  BY <1>2 DEF StaysEarly, KeepsDisk, DiskInvOf, Holds, Early
<1>3. CASE GivesUp(r, q)
  BY <1>3 DEF GivesUp, KeepsDisk, DiskInvOf, Holds, Early
<1>4. CASE TakesPath(r, q)
  BY <1>1, <1>4 DEF TakesPath, DiskInvOf, Holds, Early
<1>5. CASE Creates(u, r, q)
  BY <1>1, <1>5 DEF Creates, DiskInvOf, Holds, Early
<1>6. CASE ReadsBody(r, q)
  BY <1>6 DEF ReadsBody, DiskInvOf, Holds, Early
<1>7. CASE Removes(r, q)
  BY <1>1, <1>7 DEF Removes, DiskInvOf, Holds, Early
<1>8. CASE Accepts(r, q)
  BY <1>8 DEF Accepts, KeepsDisk, DiskInvOf, Holds, Early
<1>9. CASE Saves(r, q)
  BY <1>9 DEF Saves, KeepsDisk, DiskInvOf, Holds, Early
<1>10. CASE Closes(r, q)
  BY <1>10 DEF Closes, KeepsDisk, DiskInvOf, Holds, Early
<1>11. QED
  BY <1>2, <1>3, <1>4, <1>5, <1>6, <1>7, <1>8, <1>9, <1>10

\* No file is changed by another upload while its path is its own.
LEMMA DiskStep ==
    ASSUME TypeOK, DiskInv, [Next]_vars
    PROVE  DiskInv'
<1> DEFINE OwnNext(u) == \A v \in Uploads : req'[v].path = req'[u].path => v = u
<1>0. \A u \in Uploads : /\ DiskInvOf(u, req[u], disk)
                         /\ Holds(req[u]) /\ OwnPath(u) => disk[req[u].path] = u
  BY DEF DiskInv, DiskInvOf, Holds, Early
<1> SUFFICES ASSUME NEW u \in Uploads
             PROVE  /\ DiskInvOf(u, req'[u], disk')
                    /\ Holds(req'[u]) /\ OwnNext(u) => disk'[req'[u].path] = u
  BY DEF DiskInv, DiskInvOf, Holds, Early, OwnPath
<1>1. /\ req \in [Uploads -> Request] /\ req[u] \in Request
      /\ disk \in [Paths -> Uploads \cup {NoUpload}] /\ NoUpload \notin Uploads
      /\ Nil \notin Paths
  BY ConstantsAssumption, NilAssumption DEF TypeOK
<1>2. ASSUME disk' = disk, req'[u] = req[u], \A v \in Uploads : req'[v].path = req[v].path
      PROVE  /\ DiskInvOf(u, req'[u], disk')
             /\ Holds(req'[u]) /\ OwnNext(u) => disk'[req'[u].path] = u
  <2>1. OwnNext(u) => OwnPath(u)
    BY <1>2 DEF OwnPath
  <2>2. QED
    BY <1>0, <1>2, <2>1
<1>3. CASE \E v \in Uploads, s \in Sessions, f \in Files : UploadArrive(v, s, f)
  <2>1. PICK w \in Uploads, s \in Sessions, f \in Files : UploadArrive(w, s, f)
    BY <1>3
  <2>2. /\ StaysEarly(req[w], req'[w])
        /\ \A v \in Uploads \ {w} : req'[v] = req[v]
        /\ disk' = disk
    BY <1>1, <2>1 DEF UploadArrive, At, Request, StaysEarly, KeepsDisk, Early
  <2>3. CASE u = w
    <3>1. DiskInvOf(u, req'[u], disk')
      BY <1>0, <1>1, <2>2, <2>3, DiskOwnStep
    <3>2. ~Holds(req'[u])
      BY <1>0, <2>2, <2>3 DEF StaysEarly, Holds, DiskInvOf, Early
    <3>3. QED
      BY <3>1, <3>2
  <2>4. CASE u # w
    <3>1. \A v \in Uploads : req'[v].path = req[v].path
      BY <2>2 DEF StaysEarly, KeepsDisk
    <3>2. QED
      BY <1>2, <2>2, <2>4, <3>1
  <2>5. QED
    BY <2>3, <2>4
<1>4. CASE \E v \in Uploads : UploadStep(v)
  <2>1. PICK w \in Uploads : UploadStep(w)
    BY <1>4
  <2>2. \A v \in Uploads \ {w} : req'[v] = req[v]
    BY <2>1, UploadFrame
  <2>3. \/ StaysEarly(req[w], req'[w]) \/ GivesUp(req[w], req'[w])
        \/ TakesPath(req[w], req'[w]) \/ Creates(w, req[w], req'[w])
        \/ ReadsBody(req[w], req'[w]) \/ Removes(req[w], req'[w])
        \/ Accepts(req[w], req'[w]) \/ Saves(req[w], req'[w]) \/ Closes(req[w], req'[w])
    BY <2>1, DiskKinds
  <2>4. CASE u = w
    <3>1. /\ DiskInvOf(u, req'[u], disk')
          /\ Holds(req'[u]) => \/ disk'[req'[u].path] = u
                               \/ /\ Holds(req[u]) /\ req'[u].path = req[u].path
                                  /\ disk'[req'[u].path] = disk[req[u].path]
      BY <1>0, <1>1, <2>3, <2>4, DiskOwnStep
    <3>2. req'[u].path = req[u].path /\ OwnNext(u) => OwnPath(u)
      BY <2>2, <2>4 DEF OwnPath
    <3>3. QED
      BY <1>0, <3>1, <3>2
  <2>5. CASE u # w
    <3>1. req'[u] = req[u]
      BY <2>2, <2>5
    <3>2. /\ \/ disk' = disk
             \/ disk' = [disk EXCEPT ![req[w].path] = w]
             \/ disk' = [disk EXCEPT ![req[w].path] = NoUpload]
          /\ \/ req'[w].path = req[w].path
             \/ req[w].pc \in Early /\ disk' = disk
      BY <2>3 DEF StaysEarly, GivesUp, TakesPath, Creates, ReadsBody, Removes,
            Accepts, Saves, Closes, KeepsDisk
    <3>3. \A p \in Paths : disk'[p] = u => disk[p] = u
      BY <1>1, <2>5, <3>2
    <3>4. Holds(req[u]) \/ req[u].whole => req[u].path \in Paths
      BY <1>0 DEF DiskInvOf, Holds
    <3>5. req[w].pc \in Early => req[w].path = Nil
      BY <1>0 DEF DiskInvOf
    <3>6. ASSUME OwnNext(u), req[u].path \in Paths
          PROVE  OwnPath(u) /\ disk'[req[u].path] = disk[req[u].path]
      <4>1. req[w].path # req[u].path
        BY <1>1, <2>5, <3>1, <3>2, <3>5, <3>6
      <4>2. OwnPath(u)
        BY <2>2, <2>5, <3>1, <3>6, <4>1 DEF OwnPath
      <4>3. QED
        BY <1>1, <3>2, <3>6, <4>1, <4>2
    <3>7. DiskInvOf(u, req'[u], disk')
      BY <1>0, <3>1, <3>3, <3>4 DEF DiskInvOf
    <3>8. Holds(req'[u]) /\ OwnNext(u) => disk'[req'[u].path] = u
      BY <1>0, <3>1, <3>4, <3>6
    <3>9. QED
      BY <3>7, <3>8
  <2>6. QED
    BY <2>4, <2>5
<1>5. CASE \/ Quiet
           \/ \E c \in Cancels, s \in Sessions : CancelArrive(c, s)
           \/ \E c \in Cancels : CancelStep(c)
  <2>1. disk' = disk /\ req' = req
    BY <1>5 DEF Quiet, CancelArrive, CancelStep, CancelRemove, CancelDestroy
  <2>2. QED
    BY <1>2, <2>1
<1>6. QED
  BY <1>3, <1>4, <1>5, StepKinds

-----------------------------------------------------------------------------
(* The safety properties *)

\* Every step keeps the whole of it.
LEMMA InvariantStep == IInv /\ [Next]_vars => IInv'
BY TypeCorrectStep, SessionsStep, LastStep, KnownStep, LateStep, DiskStep DEF IInv

\* Nothing has been sent yet.
LEMMA InitialInvariant == Init => IInv
<1>1. Init => TypeOK
  BY DEF Init, TypeOK, Request, CancelRequest, EndTask, UploadPC, Outcome
<1>2. Init => SessionsInv
  BY DEF Init, SessionsInv
<1>3. Init => LastInv
  BY DEF Init, LastInv, Ended
<1>4. Init => KnownInv
  BY DEF Init, KnownInv
<1>5. Init => LateInv
  BY ConstantsAssumption DEF Init, LateInv
<1>6. Init => DiskInv
  BY ConstantsAssumption DEF Init, DiskInv
<1>7. QED
  BY <1>1, <1>2, <1>3, <1>4, <1>5, <1>6 DEF IInv

\* IInv is inductive.
THEOREM Invariance == Spec => []IInv
BY InitialInvariant, InvariantStep, PTL DEF Spec

\* What the invariant is for.
LEMMA InvariantImplies ==
    ASSUME IInv
    PROVE  /\ OneUploadEnd /\ SavedFileWasKnown /\ CancelledStaysClosed
           /\ LateUploadWritesNothing /\ FailedWholeUploadIsRemoved /\ SavedFileOnDisk
<1>1. OneUploadEnd
  BY DEF IInv, LastInv, OneUploadEnd
<1>2. SavedFileWasKnown
  BY DEF IInv, KnownInv, SavedFileWasKnown
<1>3. CancelledStaysClosed
  BY DEF IInv, SessionsInv, CancelledStaysClosed, Closed
<1>4. LateUploadWritesNothing
  BY DEF IInv, LateInv, LateUploadWritesNothing
<1>5. FailedWholeUploadIsRemoved
  BY DEF IInv, DiskInv, FailedWholeUploadIsRemoved
<1>6. SavedFileOnDisk
  <2>1. SUFFICES ASSUME NEW u \in Uploads, ReportedSaved(u), OwnPath(u)
                 PROVE  disk[req[u].path] = u /\ req[u].whole
    BY DEF SavedFileOnDisk, OwnPath
  <2>2. QED
    BY <2>1 DEF IInv, DiskInv, ReportedSaved
<1>7. QED
  BY <1>1, <1>2, <1>3, <1>4, <1>5, <1>6

\* Whatever requests arrive, in whatever order, upload_end is sent at most once
\* for a session.
THEOREM UploadEndOnce == Spec => []OneUploadEnd
BY InvariantImplies, Invariance, PTL

\* A file that was saved is always marked: the branch of HandleUpload that answers
\* 500 after a successful DefaultOnUpload is never taken.
THEOREM SavedIsMarked == Spec => []SavedFileWasKnown
BY InvariantImplies, Invariance, PTL

\* A removed session is not brought back by the requests that were under way.
THEOREM RemovalIsFinal == Spec => []CancelledStaysClosed
BY InvariantImplies, Invariance, PTL

\* After a cancel was answered, new uploads of the session write nothing.
THEOREM LateUploadsRefused == Spec => []LateUploadWritesNothing
BY InvariantImplies, Invariance, PTL

\* A body that arrived whole and was turned down for a cancel is gone from the disk.
THEOREM TurnedDownIsRemoved == Spec => []FailedWholeUploadIsRemoved
BY InvariantImplies, Invariance, PTL

\* A saved file stays, unless a second upload was given the same path.
THEOREM SavedStays == Spec => []SavedFileOnDisk
BY InvariantImplies, Invariance, PTL

-----------------------------------------------------------------------------
(* UploadPromise *)

\* What UploadPromise sees.
Lives == [s \in Sessions |-> Life(s)]
Lefts == [s \in Sessions |-> Left(s)]
Lasts == [s \in Sessions |-> Last(s)]

\* What makes an upload the last of its session, and what is told, stay the same.
LastsKept ==
    \A u \in Uploads : /\ req'[u].stats = req[u].stats
                       /\ req[u].stats # Nil => req'[u].sid = req[u].sid

\* The end of a session is told for its last upload.
LEMMA ToldIsLast ==
    ASSUME IInv, NEW u \in Uploads, Notified(u)
    PROVE  /\ req[u].sid \in Sessions
           /\ req[u].stats # Nil
           /\ u \in Last(req[u].sid)
           /\ prepare[req[u].sid] = "ready"
           /\ uploadSessions[req[u].sid] = Nil
<1>1. req[u].stats # Nil /\ req[u].pc \in {"resume", "done"}
  BY DEF Notified, Ended, IInv, LastInv
<1>2. QED
  BY <1>1 DEF IInv, TypeOK, SessionsInv, LastInv, Last

\* An open session has no last upload, and its end is not told.
LEMMA OpenIsOpen ==
    ASSUME IInv, NEW s \in Sessions, uploadSessions[s] # Nil
    PROVE  Last(s) = {} /\ ~EndTold(s)
<1>1. Last(s) = {}
  BY DEF IInv, LastInv, Last
<1>2. QED
  BY <1>1, ToldIsLast DEF EndTold

\* LastsKept keeps the last uploads.
LEMMA SameLast ==
    ASSUME IInv, LastsKept, NEW s \in Sessions
    PROVE  Last(s)' = Last(s)
<1>1. ASSUME NEW u \in Uploads
      PROVE  (req'[u].sid = s /\ req'[u].stats # Nil) <=> (req[u].sid = s /\ req[u].stats # Nil)
  BY DEF LastsKept
<1>2. QED
  BY <1>1 DEF Last

\* Nothing about one more session is told.
LEMMA SameTold ==
    ASSUME IInv, LastsKept, NEW s \in Sessions,
           \A u \in Uploads : req[u].sid = s => (Notified(u)' <=> Notified(u)),
           \A u \in Uploads : Notified(u)' => req[u].stats # Nil
    PROVE  EndTold(s)' <=> EndTold(s)
<1>1. ASSUME NEW u \in Uploads
      PROVE  (req'[u].sid = s /\ Notified(u)') <=> (req[u].sid = s /\ Notified(u))
  BY ToldIsLast DEF LastsKept
<1>2. QED
  BY <1>1 DEF EndTold

\* A step that changes no entry, no last upload and tells nothing is not seen.
LEMMA NotSeen ==
    ASSUME IInv, LastsKept, UNCHANGED uploadSessions,
           \A s \in Sessions : (prepare'[s] = "none") <=> (prepare[s] = "none"),
           \A u \in Uploads : Notified(u)' <=> Notified(u)
    PROVE  UNCHANGED Promise!vars
<1>1. ASSUME NEW s \in Sessions
      PROVE  Life(s)' = Life(s) /\ Left(s)' = Left(s) /\ Last(s)' = Last(s)
  <2>1. Last(s)' = Last(s)
    BY SameLast
  <2>2. EndTold(s)' <=> EndTold(s)
    BY SameTold, ToldIsLast
  <2>3. QED
    BY <2>1, <2>2 DEF Life, Left
<1>2. QED
  BY <1>1 DEF Promise!vars

\* A session that loses its entry, if it has one, other than by its last upload.
LEMMA RemovalImplements ==
    ASSUME IInv, LastsKept, NEW s \in Sessions, prepare[s] # "none",
           uploadSessions' = [uploadSessions EXCEPT ![s] = Nil],
           UNCHANGED prepare,
           \A u \in Uploads : Notified(u)' <=> Notified(u)
    PROVE  [Promise!Next]_(Promise!vars)
<1>1. uploadSessions \in [Sessions -> {Nil} \cup SUBSET Files]
  BY DEF IInv, TypeOK
<1>2. CASE uploadSessions[s] = Nil
  <2>1. UNCHANGED uploadSessions
    BY <1>1, <1>2
  <2>2. QED
    BY <2>1, NotSeen
<1>3. CASE uploadSessions[s] # Nil
  <2>1. \A t \in Sessions : Last(t)' = Last(t) /\ (EndTold(t)' <=> EndTold(t))
    BY SameLast, SameTold, ToldIsLast
  <2>2. Last(s) = {} /\ ~EndTold(s)
    BY <1>3, OpenIsOpen
  <2>3. Life(s) = "open" /\ Life(s)' = "removed" /\ Left(s)' = {}
    BY <1>1, <1>3, <2>1, <2>2 DEF Life, Left
  <2>4. \A t \in Sessions \ {s} : Life(t)' = Life(t) /\ Left(t)' = Left(t)
    BY <1>1, <2>1 DEF Life, Left
  <2>5. Lives' = [Lives EXCEPT ![s] = "removed"] /\ Lefts' = [Lefts EXCEPT ![s] = {}]
        /\ Lasts' = Lasts /\ Lives[s] = "open"
    BY <2>1, <2>3, <2>4 DEF Lives, Lefts, Lasts
  <2>6. Promise!Remove(s)
    BY <2>5 DEF Promise!Remove, Lives, Lefts, Lasts
  <2>7. QED
    BY <2>6 DEF Promise!Next
<1>4. QED
  BY <1>2, <1>3

\* prepare-upload offers the session.
LEMMA AcceptImplements ==
    ASSUME IInv, NEW s \in Sessions, NEW fs \in SUBSET Files, PrepareAccept(s, fs)
    PROVE  Promise!Next
<1>1. /\ prepare[s] = "none" /\ prepare' = [prepare EXCEPT ![s] = "accepted"]
      /\ uploadSessions' = [uploadSessions EXCEPT ![s] = fs] /\ fs # Nil
      /\ UNCHANGED <<req, ending>>
  BY ConstantsAssumption DEF PrepareAccept
<1>2. /\ prepare \in [Sessions -> {"none", "accepted", "ready"}]
      /\ uploadSessions \in [Sessions -> {Nil} \cup SUBSET Files]
  BY DEF IInv, TypeOK
<1>3. LastsKept /\ \A u \in Uploads : Notified(u)' <=> Notified(u)
  BY <1>1 DEF LastsKept, Notified
<1>4. \A t \in Sessions : Last(t)' = Last(t) /\ (EndTold(t)' <=> EndTold(t))
  BY <1>3, SameLast, SameTold, ToldIsLast
<1>5. Life(s) = "none" /\ Life(s)' = "open" /\ Left(s)' = fs
  BY <1>1, <1>2 DEF Life, Left
<1>6. \A t \in Sessions \ {s} : Life(t)' = Life(t) /\ Left(t)' = Left(t)
  BY <1>1, <1>2, <1>4 DEF Life, Left
<1>7. Lives' = [Lives EXCEPT ![s] = "open"] /\ Lefts' = [Lefts EXCEPT ![s] = fs]
      /\ Lasts' = Lasts /\ Lives[s] = "none"
  BY <1>4, <1>5, <1>6 DEF Lives, Lefts, Lasts
<1>8. Promise!Offer(s, fs)
  BY <1>7 DEF Promise!Offer, Lives, Lefts, Lasts
<1>9. QED
  BY <1>8 DEF Promise!Next

\* upload_end is told, of a complete session.
LEMMA NotifyImplements ==
    ASSUME IInv, NEW u \in Uploads, EndNotify(u)
    PROVE  Promise!Next
<1>1. /\ ending[u].pc = "notify" /\ ending \in [Uploads -> EndTask]
      /\ Ended(u) /\ req[u].stats # Nil /\ req[u].pc \in {"resume", "done"}
  BY DEF EndNotify, Ended, IInv, LastInv, TypeOK
<1>s. PICK s \in Sessions : s = req[u].sid
  BY <1>1 DEF IInv, TypeOK
<1>2. /\ s \in Sessions /\ prepare[s] = "ready" /\ uploadSessions[s] = Nil /\ u \in Last(s)
  BY <1>1, <1>s DEF IInv, TypeOK, SessionsInv, LastInv, Last
<1>3. ~EndTold(s)
  <2>1. ASSUME NEW v \in Uploads, req[v].sid = s, Notified(v) PROVE FALSE
    <3>1. req[v].stats # Nil
      BY <2>1, ToldIsLast
    <3>2. u = v
      BY <1>1, <1>s, <2>1, <3>1 DEF IInv, LastInv
    <3>3. QED
      BY <1>1, <2>1, <3>2 DEF Notified
  <2>2. QED
    BY <2>1 DEF EndTold
<1>4. /\ UNCHANGED <<req, prepare, uploadSessions>>
      /\ \A v \in Uploads : ending'[v].pc = IF v = u THEN "cleanup" ELSE ending[v].pc
  BY <1>1 DEF EndNotify, EndTask, caches
<1>5. LastsKept /\ \A t \in Sessions : Last(t)' = Last(t)
  BY <1>4, SameLast DEF LastsKept
<1>6. EndTold(s)' /\ \A t \in Sessions \ {s} : EndTold(t)' <=> EndTold(t)
  BY <1>4, <1>s DEF EndTold, Notified
<1>7. Life(s) = "complete" /\ Life(s)' = "told"
  BY <1>2, <1>3, <1>4, <1>6 DEF Life
<1>8. /\ \A t \in Sessions \ {s} : Life(t)' = Life(t)
      /\ \A t \in Sessions : Left(t)' = Left(t)
  BY <1>4, <1>5, <1>6 DEF Life, Left
<1>9. Lives' = [Lives EXCEPT ![s] = "told"] /\ Lefts' = Lefts /\ Lasts' = Lasts
      /\ Lives[s] = "complete"
  BY <1>2, <1>5, <1>7, <1>8 DEF Lives, Lefts, Lasts
<1>10. Promise!Tell(s)
  BY <1>9 DEF Promise!Tell, Lives, Lefts, Lasts
<1>11. QED
  BY <1>2, <1>10 DEF Promise!Next

\* An upload that takes a file away, and completes the session with the last one.
LEMMA MarkImplements ==
    ASSUME IInv, NEW u \in Uploads, UploadMark(u), MarkFile(u)
    PROVE  [Promise!Next]_(Promise!vars)
<1>1. /\ req[u].pc = "mark" /\ req[u].sid \in Sessions /\ req[u].fid \in Files
      /\ prepare[req[u].sid] = "ready" /\ req[u] \in Request /\ req \in [Uploads -> Request]
      /\ uploadSessions \in [Sessions -> {Nil} \cup SUBSET Files]
  BY DEF UploadMark, At, IInv, TypeOK, SessionsInv
<1>2. PICK s \in Sessions, f \in Files : s = req[u].sid /\ f = req[u].fid
  BY <1>1
<1>3. /\ uploadSessions[s] # Nil /\ UNCHANGED <<prepare, ending>>
      /\ uploadSessions' = [uploadSessions EXCEPT ![s] = Entry(uploadSessions[s] \ {f})]
  BY <1>2 DEF UploadMark, MarkFile, LeftAfter
<1>4. req[u].stats = Nil /\ Last(s) = {} /\ ~EndTold(s)
  BY <1>1, <1>3, OpenIsOpen DEF IInv, LastInv
<1>5. \A v \in Uploads : (Notified(v)' <=> Notified(v)) /\ (Notified(v) => req[v].stats # Nil)
  BY <1>3, ToldIsLast DEF Notified
<1>6. Life(s) = "open" /\ Left(s) = uploadSessions[s]
  BY <1>1, <1>2, <1>3 DEF Life, Left
<1>7. CASE uploadSessions[s] \ {f} = {}
  <2>1. PICK st \in Stats : req' = [req EXCEPT ![u].pc = "resume", ![u].stats = st]
    <3>1. StatsAfter(s, req[u].outcome = "saved") \in Stats
      BY <1>3, StatsTyped DEF IInv
    <3>2. QED
      BY <1>2, <1>7, <3>1 DEF MarkFile, LeftAfter
  <2>2. st # Nil
    BY <2>1, NilAssumption
  <2>3. /\ req'[u].stats = st /\ req'[u].sid = s
        /\ \A v \in Uploads \ {u} : req'[v] = req[v]
    BY <1>1, <1>2, <2>1 DEF Request
  <2>4. Last(s)' = {u} /\ \A t \in Sessions \ {s} : Last(t)' = Last(t)
    BY <1>2, <1>4, <2>2, <2>3 DEF Last
  <2>5. \A t \in Sessions : EndTold(t)' <=> EndTold(t)
    BY <1>2, <1>5, <2>3 DEF EndTold
  <2>6. uploadSessions' = [uploadSessions EXCEPT ![s] = Nil]
    BY <1>3, <1>7 DEF Entry
  <2>7. Life(s)' = "complete" /\ Left(s)' = {}
    BY <1>1, <1>2, <1>3, <1>4, <2>4, <2>5, <2>6 DEF Life, Left
  <2>8. \A t \in Sessions \ {s} : Life(t)' = Life(t) /\ Left(t)' = Left(t)
    BY <1>1, <1>3, <2>4, <2>5, <2>6 DEF Life, Left
  <2>9. /\ Lives' = [Lives EXCEPT ![s] = "complete"] /\ Lefts' = [Lefts EXCEPT ![s] = {}]
        /\ Lasts' = [Lasts EXCEPT ![s] = {u}]
        /\ Lives[s] = "open" /\ Lefts[s] \subseteq {f}
    BY <1>6, <1>7, <2>4, <2>7, <2>8 DEF Lives, Lefts, Lasts
  <2>10. Promise!Complete(s, u)
    BY <2>9 DEF Promise!Complete, Lives, Lefts, Lasts
  <2>11. QED
    BY <2>10 DEF Promise!Next
<1>8. CASE uploadSessions[s] \ {f} # {}
  <2>1. req' = [req EXCEPT ![u].pc = "done"]
    BY <1>2, <1>8 DEF MarkFile, LeftAfter
  <2>2. LastsKept
    BY <1>1, <2>1 DEF LastsKept, Request
  <2>3. uploadSessions' = [uploadSessions EXCEPT ![s] = @ \ {f}]
    BY <1>3, <1>8 DEF Entry
  <2>4. CASE f \notin uploadSessions[s]
    <3>1. UNCHANGED uploadSessions
      BY <1>1, <1>3, <2>3, <2>4
    <3>2. QED
      BY <1>3, <1>5, <2>2, <3>1, NotSeen
  <2>5. CASE f \in uploadSessions[s]
    <3>1. \A t \in Sessions : Last(t)' = Last(t) /\ (EndTold(t)' <=> EndTold(t))
      BY <1>5, <2>2, SameLast, SameTold
    <3>2. uploadSessions[s] \ {f} # Nil
      BY <1>1, <1>3, ConstantsAssumption
    <3>3. Life(s)' = "open" /\ Left(s)' = Left(s) \ {f}
      BY <1>1, <1>2, <1>3, <1>6, <2>3, <3>2 DEF Life, Left
    <3>4. \A t \in Sessions \ {s} : Life(t)' = Life(t) /\ Left(t)' = Left(t)
      BY <1>1, <1>3, <2>3, <3>1 DEF Life, Left
    <3>5. /\ Lives' = Lives /\ Lefts' = [Lefts EXCEPT ![s] = @ \ {f}] /\ Lasts' = Lasts
          /\ Lives[s] = "open" /\ f \in Lefts[s] /\ Lefts[s] # {f}
      BY <1>6, <1>8, <2>5, <3>1, <3>3, <3>4 DEF Lives, Lefts, Lasts
    <3>6. Promise!Take(s, f)
      BY <3>5 DEF Promise!Take, Lives, Lefts, Lasts
    <3>7. QED
      BY <3>6 DEF Promise!Next
  <2>6. QED
    BY <2>4, <2>5
<1>9. QED
  BY <1>7, <1>8

\* The other steps of an upload are not seen.
LEMMA UploadNotSeen ==
    ASSUME IInv, NEW u \in Uploads, UploadStep(u), ~(UploadMark(u) /\ MarkFile(u))
    PROVE  UNCHANGED Promise!vars
<1>1. /\ req[u] \in Request /\ req \in [Uploads -> Request]
      /\ SameTarget(u) /\ \A v \in Uploads \ {u} : req'[v] = req[v]
  BY UploadFrame DEF IInv, TypeOK
<1>2. UNCHANGED <<prepare, uploadSessions>> /\ req'[u].stats = req[u].stats
  <2>1. CASE UploadMark(u)
    BY <1>1, <2>1 DEF UploadMark, MarkUnknown, Request
  <2>2. CASE ~UploadMark(u)
    BY <1>1, <2>2 DEF UploadStep, UploadQuery, UploadValidate, UploadLookup, UploadCheck,
        UploadGetContext, UploadFileInfo, UploadChoosePath, UploadCreate, UploadCopied,
        UploadBroken, UploadFinish, UploadSave, UploadResume, Fail, Request, caches
  <2>3. QED
    BY <2>1, <2>2
<1>3. \A v \in Uploads : Notified(v)' <=> Notified(v)
  <2>1. CASE UploadResume(u)
    <3>1. ending[u].pc = "none" /\ ending \in [Uploads -> EndTask]
      BY <2>1 DEF UploadResume, At, IInv, TypeOK
    <3>2. QED
      BY <2>1, <3>1 DEF UploadResume, Notified, EndTask
  <2>2. CASE ~UploadResume(u)
    <3>1. UNCHANGED ending
      BY <2>2 DEF UploadStep, UploadQuery, UploadValidate, UploadLookup, UploadCheck,
        UploadGetContext, UploadFileInfo, UploadChoosePath, UploadCreate, UploadCopied,
        UploadBroken, UploadFinish, UploadSave, UploadMark
    <3>2. QED
      BY <3>1 DEF Notified
  <2>3. QED
    BY <2>1, <2>2
<1>4. LastsKept
  BY <1>1, <1>2 DEF LastsKept, SameTarget
<1>5. QED
  BY <1>2, <1>3, <1>4, NotSeen

\* Every step of ReceiveSession is one of UploadPromise or is not seen by it.
LEMMA StepImplements ==
    ASSUME IInv, [Next]_vars
    PROVE  [Promise!Next]_(Promise!vars)
<1>1. CASE \/ UNCHANGED vars
           \/ \E s \in Sessions : PrepareRespond(s)
           \/ \E c \in Cancels : CancelDestroy(c) \/ \E s \in Sessions : CancelArrive(c, s)
           \/ \E u \in Uploads : EndCleanup(u)
  <2>1. UNCHANGED <<uploadSessions, req>>
    BY <1>1 DEF vars, caches, PrepareRespond, CancelDestroy, CancelArrive, EndCleanup
  <2>2. \A s \in Sessions : (prepare'[s] = "none") <=> (prepare[s] = "none")
    BY <1>1 DEF vars, PrepareRespond, CancelDestroy, CancelArrive, EndCleanup, IInv, TypeOK
  <2>3. \A u \in Uploads : Notified(u)' <=> Notified(u)
    <3>1. CASE \E u \in Uploads : EndCleanup(u)
      BY <3>1 DEF EndCleanup, Notified, IInv, TypeOK, EndTask
    <3>2. CASE UNCHANGED ending
      BY <3>2 DEF Notified
    <3>3. QED
      BY <1>1, <3>1, <3>2 DEF vars, PrepareRespond, CancelDestroy, CancelArrive
  <2>4. QED
    BY <2>1, <2>2, <2>3, NotSeen DEF LastsKept
<1>2. ASSUME NEW u \in Uploads, NEW s \in Sessions, NEW f \in Files, UploadArrive(u, s, f)
      PROVE  UNCHANGED Promise!vars
  <2>1. UNCHANGED <<prepare, uploadSessions, ending>>
    BY <1>2 DEF UploadArrive, caches
  <2>2. req[u].stats = Nil
    BY <1>2 DEF UploadArrive, At, IInv, LastInv
  <2>3. LastsKept
    BY <1>2, <2>2 DEF UploadArrive, LastsKept, IInv, TypeOK, Request
  <2>4. QED
    BY <2>1, <2>3, NotSeen DEF Notified
<1>3. ASSUME NEW s \in Sessions, Expire(s)
      PROVE  [Promise!Next]_(Promise!vars)
  <2>1. /\ prepare[s] = "ready" /\ UNCHANGED <<prepare, req, ending>>
        /\ \/ UNCHANGED uploadSessions
           \/ uploadSessions' = [uploadSessions EXCEPT ![s] = Nil]
    BY <1>3 DEF Expire, ExpireEntry
  <2>2. LastsKept /\ \A u \in Uploads : Notified(u)' <=> Notified(u)
    BY <2>1 DEF LastsKept, Notified
  <2>3. QED
    BY <2>1, <2>2, NotSeen, RemovalImplements
<1>4. ASSUME NEW c \in Cancels, CancelRemove(c)
      PROVE  [Promise!Next]_(Promise!vars)
  <2>1. PICK s \in Sessions : s = cancel[c].sid /\ prepare[s] = "ready"
    BY <1>4 DEF CancelRemove, IInv, TypeOK, SessionsInv
  <2>2. /\ UNCHANGED <<prepare, req, ending>>
        /\ uploadSessions' = [uploadSessions EXCEPT ![s] = Nil]
    BY <1>4, <2>1 DEF CancelRemove, RemoveUploadSession
  <2>3. LastsKept /\ \A u \in Uploads : Notified(u)' <=> Notified(u)
    BY <2>2 DEF LastsKept, Notified
  <2>4. QED
    BY <2>1, <2>2, <2>3, RemovalImplements
<1>5. ASSUME NEW u \in Uploads, EndRemove(u)
      PROVE  [Promise!Next]_(Promise!vars)
  <2>1. /\ ending \in [Uploads -> EndTask] /\ ending[u].pc = "remove" /\ Notified(u)
    BY <1>5 DEF EndRemove, Notified, IInv, TypeOK
  <2>2. PICK s \in Sessions : s = req[u].sid /\ prepare[s] = "ready"
    BY <2>1, ToldIsLast
  <2>3. /\ UNCHANGED <<prepare, req>>
        /\ uploadSessions' = [uploadSessions EXCEPT ![s] = Nil]
    BY <1>5, <2>2 DEF EndRemove, RemoveUploadSession
  <2>4. LastsKept /\ \A v \in Uploads : Notified(v)' <=> Notified(v)
    BY <1>5, <2>1, <2>3 DEF EndRemove, LastsKept, Notified, EndTask
  <2>5. QED
    BY <2>2, <2>3, <2>4, RemovalImplements
<1>6. QED
  BY <1>1, <1>2, <1>3, <1>4, <1>5, AcceptImplements, NotifyImplements, MarkImplements,
     UploadNotSeen DEF Next, PrepareStep, CancelStep, EndStep

\* No session was offered yet.
LEMMA InitialPromise == Init => Promise!Init
<1>1. SUFFICES ASSUME Init PROVE Promise!Init
  OBVIOUS
<1>2. \A s \in Sessions : Life(s) = "none" /\ Left(s) = {} /\ Last(s) = {}
  BY <1>1 DEF Init, Life, Left, Last
<1>3. QED
  BY <1>2 DEF Promise!Init

\* ReceiveSession implements UploadPromise: whatever cancels and expires around the
\* uploads, a session's files leave once, its end is told once, by its last upload,
\* and never after the session was removed.
THEOREM PromiseKept == Spec => ImplementsPromise
<1>1. Init => Promise!Init
  BY InitialPromise
<1>2. IInv /\ [Next]_vars => [Promise!Next]_(Promise!vars)
  BY StepImplements
<1>3. QED
  BY <1>1, <1>2, Invariance, PTL DEF Spec, ImplementsPromise, Promise!Spec

-----------------------------------------------------------------------------
(* The counts, for disciplined senders: the pause counter and the numbers  *)
(* of upload_end                                                           *)

\* Every file is sent once at most, nobody cancels, and no session takes an hour.
Disciplined == Cancels = {} /\ ~Expiry /\ ~Strays /\ ~Repeats

-----------------------------------------------------------------------------
(* The inductive invariant *)

Past(u) == req[u].pc \in {"resume", "done"}
Of(u, s, f) == req[u].sid = s /\ req[u].fid = f

\* An upload is the only one of its file, which its session has offered.
OnceInv ==
    /\ \A u \in Uploads : At(u, "idle") => req[u].sid = Nil
    /\ \A u \in Uploads : ~At(u, "idle") => req[u].fid \in offer[req[u].sid]
    /\ \A u, v \in Uploads :
         ~At(u, "idle") /\ req[u].sid = req[v].sid /\ req[u].fid = req[v].fid => u = v

\* A file is pending until its upload is marked.
KeptInv ==
    /\ \A s \in Sessions : prepare[s] = "accepted" => uploadSessions[s] = offer[s]
    /\ \A s \in Sessions : prepare[s] # "none" =>
         \A f \in offer[s] : Pending(s, f) \/ \E v \in Uploads : Past(v) /\ Of(v, s, f)

\* The recorded save paths are those of the files that were saved.
SavedInv ==
    /\ \A u \in Uploads : At(u, "mark") /\ req[u].outcome = "saved" =>
         req[u].fid \in fileSavePaths[req[u].sid]
    /\ \A s \in Sessions : \A f \in fileSavePaths[s] :
         \E u \in Uploads : Of(u, s, f) /\ req[u].outcome = "saved"

\* The saved files that were marked.
Marked(s) == {f \in fileSavePaths[s] : \E v \in Uploads : Past(v) /\ Of(v, s, f)}

\* A tally counts the files that are no longer pending.
Tallies(s) ==
    /\ uploadStats[s] \in Stats
    /\ uploadStats[s].total = Cardinality(offer[s])
    /\ uploadStats[s].success + uploadStats[s].failed + Cardinality(uploadSessions[s])
         = uploadStats[s].total
    /\ uploadStats[s].success = Cardinality(Marked(s))

Tallied(u) ==
    /\ req[u].stats.total = Cardinality(offer[req[u].sid])
    /\ req[u].stats.success + req[u].stats.failed = req[u].stats.total
    /\ ~Notified(u) => req[u].stats.success = Cardinality(fileSavePaths[req[u].sid])
    /\ Notified(u) => req[u].stats.success = Cardinality(ending[u].paths)

TallyInv ==
    /\ \A s \in Sessions : Receiving(s) => Tallies(s)
    /\ \A u \in Uploads : req[u].stats # Nil => Tallied(u)

CountsInv == OnceInv /\ KeptInv /\ SavedInv /\ TallyInv /\ ScanPauseBalanced

DInv == IInv /\ CountsInv

-----------------------------------------------------------------------------
(* Consequences *)

\* What the counters count is finite.
ReceivingSet == {s \in Sessions : Receiving(s)}
ResumingSet == {u \in Uploads : At(u, "resume")}

LEMMA CountsFinite ==
    /\ IsFiniteSet(ReceivingSet) /\ Cardinality(ReceivingSet) \in Nat
    /\ IsFiniteSet(ResumingSet) /\ Cardinality(ResumingSet) \in Nat
BY ConstantsAssumption, FS_Subset, FS_CardinalityType DEF ReceivingSet, ResumingSet

\* The file of an upload that was not marked yet is pending.
LEMMA ActiveIsPending ==
    ASSUME DInv, NEW u \in Uploads, ~At(u, "idle"), ~Past(u)
    PROVE  /\ req[u].sid \in Sessions /\ req[u].fid \in Files
           /\ prepare[req[u].sid] = "ready"
           /\ Pending(req[u].sid, req[u].fid)
<1>1. /\ req[u].sid \in Sessions /\ req[u].fid \in Files
      /\ prepare[req[u].sid] = "ready" /\ req[u].fid \in offer[req[u].sid]
  BY DEF DInv, IInv, TypeOK, SessionsInv, CountsInv, OnceInv, At
<1>2. ~\E v \in Uploads : Past(v) /\ Of(v, req[u].sid, req[u].fid)
  BY DEF DInv, CountsInv, OnceInv, Of
<1>3. QED
  BY <1>1, <1>2 DEF DInv, CountsInv, KeptInv

\* The session of an upload that has found itself last has no entry.
LEMMA EndedIsClosed ==
    ASSUME DInv, NEW u \in Uploads, Ended(u)
    PROVE  /\ req[u].sid \in Sessions /\ req[u].stats # Nil /\ ~At(u, "idle")
           /\ uploadSessions[req[u].sid] = Nil
BY DEF DInv, IInv, TypeOK, LastInv, Ended, At

\* Steps that leave what the counts are about alone keep them.
LEMMA CountsKept ==
    ASSUME DInv,
           UNCHANGED <<prepare, offer, uploadSessions, uploadStats, fileSavePaths,
                       scanPauseCount, req, ending>>
    PROVE  CountsInv'
BY DEF DInv, CountsInv, OnceInv, KeptInv, SavedInv, TallyInv, ScanPauseBalanced, At, Past, Of,
   Pending, Marked, Tallies, Tallied, Receiving, Notified

-----------------------------------------------------------------------------
(* prepare-upload *)

\* A session that is accepted is not counted yet.
LEMMA AcceptCounts ==
    ASSUME DInv, Disciplined, NEW s \in Sessions, NEW fs \in SUBSET Files,
           PrepareAccept(s, fs)
    PROVE  CountsInv'
<1>1. /\ prepare[s] = "none" /\ prepare' = [prepare EXCEPT ![s] = "accepted"]
      /\ offer' = [offer EXCEPT ![s] = fs]
      /\ uploadSessions' = [uploadSessions EXCEPT ![s] = fs]
      /\ UNCHANGED <<uploadStats, fileSavePaths, scanPauseCount, req, ending>>
  BY DEF PrepareAccept
<1>2. TypeOK /\ SessionsInv /\ LastInv /\ CountsInv
  BY DEF DInv, IInv
<1>3. \A u \in Uploads : ~At(u, "idle") => req[u].sid # s
  BY <1>1, <1>2 DEF SessionsInv, At
<1>4. fs # Nil
  BY ConstantsAssumption
<1>5. OnceInv'
  BY <1>1, <1>2, <1>3 DEF CountsInv, OnceInv, At, TypeOK
<1>6. KeptInv'
  BY <1>1, <1>2, <1>4 DEF CountsInv, KeptInv, Pending, Past, Of, TypeOK
<1>7. SavedInv'
  BY <1>1, <1>2 DEF CountsInv, SavedInv, At, Of
<1>8. \A t \in Sessions : Receiving(t)' <=> Receiving(t)
  BY <1>1, <1>2 DEF Receiving, TypeOK
<1>9. TallyInv'
  <2>1. ASSUME NEW t \in Sessions, Receiving(t)'
        PROVE  Tallies(t)'
    <3>1. t # s /\ Receiving(t)
      BY <1>1, <1>8, <2>1 DEF Receiving
    <3>2. Tallies(t)
      BY <1>2, <3>1 DEF CountsInv, TallyInv
    <3>3. QED
      BY <1>1, <3>1, <3>2 DEF Tallies, Marked, Past, Of
  <2>2. ASSUME NEW u \in Uploads, req'[u].stats # Nil
        PROVE  Tallied(u)'
    <3>1. req[u].stats # Nil /\ ~At(u, "idle")
      BY <1>1, <1>2, <2>2 DEF LastInv, At
    <3>2. req[u].sid # s /\ Tallied(u)
      BY <1>2, <1>3, <3>1 DEF CountsInv, TallyInv
    <3>3. QED
      BY <1>1, <3>2 DEF Tallied, Notified
  <2>3. QED
    BY <2>1, <2>2 DEF TallyInv
<1>10. ScanPauseBalanced'
  BY <1>1, <1>2, <1>8 DEF CountsInv, ScanPauseBalanced, At
<1>11. QED
  BY <1>5, <1>6, <1>7, <1>9, <1>10 DEF CountsInv

\* The reply raises the counter and makes the tally, before any file was sent.
LEMMA RespondCounts ==
    ASSUME DInv, NEW s \in Sessions, PrepareRespond(s)
    PROVE  CountsInv'
<1>1. /\ prepare[s] = "accepted" /\ prepare' = [prepare EXCEPT ![s] = "ready"]
      /\ scanPauseCount' = scanPauseCount + 1
      /\ uploadStats' = [uploadStats EXCEPT
           ![s] = [total |-> Cardinality(offer[s]), success |-> 0, failed |-> 0]]
      /\ UNCHANGED <<offer, uploadSessions, fileSavePaths, req, ending>>
  BY DEF PrepareRespond, PauseScan
<1>2. TypeOK /\ SessionsInv /\ LastInv /\ CountsInv
  BY DEF DInv, IInv
<1>3. \A u \in Uploads : ~At(u, "idle") => req[u].sid # s
  BY <1>1, <1>2 DEF SessionsInv, At
<1>4. uploadSessions[s] = offer[s] /\ uploadSessions[s] # Nil
  BY <1>1, <1>2, ConstantsAssumption DEF CountsInv, KeptInv, TypeOK
<1>5. OnceInv' /\ SavedInv'
  BY <1>1, <1>2 DEF CountsInv, OnceInv, SavedInv, At, Of
<1>6. KeptInv'
  BY <1>1, <1>2 DEF CountsInv, KeptInv, Pending, Past, Of, TypeOK
<1>7. \A t \in Sessions : Receiving(t)' <=> Receiving(t) \/ t = s
  BY <1>1, <1>2, <1>4 DEF Receiving, TypeOK
<1>8. Marked(s)' = {}
  <2>1. \A f \in fileSavePaths[s] : \E u \in Uploads : Of(u, s, f)
    BY <1>2 DEF CountsInv, SavedInv
  <2>2. \A u \in Uploads, f \in fileSavePaths[s] : ~Of(u, s, f)
    BY <1>2, <1>3, ConstantsAssumption DEF CountsInv, OnceInv, Of
  <2>3. fileSavePaths'[s] = {}
    BY <1>1, <2>1, <2>2
  <2>4. QED
    BY <2>3 DEF Marked
<1>9. TallyInv'
  <2>1. ASSUME NEW t \in Sessions, t # s, Receiving(t)'
        PROVE  Tallies(t)'
    <3>1. Tallies(t)
      BY <1>2, <1>7, <2>1 DEF CountsInv, TallyInv
    <3>2. QED
      BY <1>1, <2>1, <3>1 DEF Tallies, Marked, Past, Of
  <2>2. Tallies(s)'
    <3>1. Cardinality(offer[s]) \in Nat
      BY <1>2, OfferTyped
    <3>2. uploadStats'[s] = [total |-> Cardinality(offer[s]), success |-> 0, failed |-> 0]
      BY <1>1, <1>2 DEF TypeOK
    <3>3. Cardinality(Marked(s)') = 0
      BY <1>8, FS_EmptySet
    <3>4. QED
      BY <1>1, <1>4, <3>1, <3>2, <3>3 DEF Tallies, Stats
  <2>3. ASSUME NEW u \in Uploads, req'[u].stats # Nil
        PROVE  Tallied(u)'
    <3>1. Tallied(u)
      BY <1>1, <1>2, <2>3 DEF CountsInv, TallyInv
    <3>2. QED
      BY <1>1, <3>1 DEF Tallied, Notified
  <2>4. QED
    BY <2>1, <2>2, <2>3 DEF TallyInv
<1>10. ScanPauseBalanced'
  <2>1. ReceivingSet' = ReceivingSet \cup {s} /\ s \notin ReceivingSet
    BY <1>1, <1>7 DEF ReceivingSet, Receiving
  <2>2. Cardinality(ReceivingSet') = Cardinality(ReceivingSet) + 1
    BY <2>1, CountsFinite, FS_AddElement
  <2>3. ResumingSet' = ResumingSet
    BY <1>1 DEF ResumingSet, At
  <2>4. scanPauseCount = Cardinality(ReceivingSet) + Cardinality(ResumingSet)
    BY <1>2 DEF CountsInv, ScanPauseBalanced, ReceivingSet, ResumingSet
  <2>5. scanPauseCount' = Cardinality(ReceivingSet') + Cardinality(ResumingSet')
    BY <1>1, <2>2, <2>3, <2>4, CountsFinite
  <2>6. QED
    BY <2>5 DEF ScanPauseBalanced, ReceivingSet, ResumingSet
<1>11. QED
  BY <1>5, <1>6, <1>9, <1>10 DEF CountsInv

-----------------------------------------------------------------------------
(* upload *)

\* A file is sent for the first time.
LEMMA ArriveCounts ==
    ASSUME DInv, Disciplined, NEW u \in Uploads, NEW s \in Sessions, NEW f \in Files,
           UploadArrive(u, s, f)
    PROVE  CountsInv'
<1>1. /\ TypeOK /\ SessionsInv /\ LastInv /\ CountsInv
      /\ req[u] \in Request /\ req \in [Uploads -> Request]
  BY DEF DInv, IInv, TypeOK
<1>2. /\ req[u].pc = "idle" /\ prepare[s] = "ready" /\ f \in offer[s]
      /\ \A v \in Uploads : ~(req[v].sid = s /\ req[v].fid = f)
      /\ req'[u].pc \in {"lookup", "query"} /\ req'[u].sid = s /\ req'[u].fid = f
      /\ req'[u].outcome = req[u].outcome /\ req'[u].stats = req[u].stats
      /\ \A v \in Uploads \ {u} : req'[v] = req[v]
      /\ UNCHANGED <<prepare, offer, uploadSessions, uploadStats, fileSavePaths,
                     scanPauseCount, ending>>
  BY <1>1 DEF UploadArrive, At, MaySend, Disciplined, Request, caches
<1>3. req[u].sid = Nil /\ s # Nil /\ req[u].stats = Nil
  BY <1>1, <1>2, ConstantsAssumption DEF CountsInv, OnceInv, LastInv, At
<1>4. \A v \in Uploads : Past(v)' => Past(v) /\ req'[v] = req[v]
  BY <1>2 DEF Past
<1>5. OnceInv'
  <2>1. \A v \in Uploads : At(v, "idle")' => req'[v].sid = Nil
    BY <1>1, <1>2 DEF CountsInv, OnceInv, At
  <2>2. \A v \in Uploads : ~At(v, "idle")' => req'[v].fid \in offer'[req'[v].sid]
    BY <1>1, <1>2 DEF CountsInv, OnceInv, At
  <2>3. ASSUME NEW v \in Uploads, NEW w \in Uploads, ~At(v, "idle")',
               req'[v].sid = req'[w].sid, req'[v].fid = req'[w].fid
        PROVE  v = w
    BY <1>1, <1>2, <2>3 DEF CountsInv, OnceInv, At
  <2>4. QED
    BY <2>1, <2>2, <2>3 DEF OnceInv
<1>6. KeptInv'
  <2>1. \A v \in Uploads : Past(v) => Past(v)' /\ req'[v] = req[v]
    BY <1>2 DEF Past
  <2>2. QED
    BY <1>1, <1>2, <2>1 DEF CountsInv, KeptInv, Pending, Of
<1>7. SavedInv'
  <2>1. \A v \in Uploads : At(v, "mark")' => v # u
    BY <1>2 DEF At
  <2>2. \A v \in Uploads, t \in Sessions : \A g : Of(v, t, g) => v # u
    BY <1>3, ConstantsAssumption DEF Of
  <2>3. \A v \in Uploads : At(v, "mark")' /\ req'[v].outcome = "saved" =>
          req'[v].fid \in fileSavePaths'[req'[v].sid]
    BY <1>1, <1>2, <2>1 DEF CountsInv, SavedInv, At
  <2>4. ASSUME NEW t \in Sessions, NEW g \in fileSavePaths'[t]
        PROVE  \E v \in Uploads : Of(v, t, g)' /\ req'[v].outcome = "saved"
    <3>1. PICK v \in Uploads : Of(v, t, g) /\ req[v].outcome = "saved"
      BY <1>1, <1>2 DEF CountsInv, SavedInv
    <3>2. QED
      BY <1>2, <2>2, <3>1 DEF Of
  <2>5. QED
    BY <2>3, <2>4 DEF SavedInv
<1>8. \A t \in Sessions : Marked(t)' = Marked(t)
  <2>1. \A v \in Uploads : Past(v) => Past(v)' /\ req'[v] = req[v]
    BY <1>2 DEF Past
  <2>2. QED
    BY <1>2, <1>4, <2>1 DEF Marked, Of
<1>9. TallyInv'
  <2>1. ASSUME NEW t \in Sessions, Receiving(t)'
        PROVE  Tallies(t)'
    <3>1. Tallies(t)
      BY <1>1, <1>2, <2>1 DEF CountsInv, TallyInv, Receiving
    <3>2. QED
      BY <1>2, <1>8, <3>1 DEF Tallies
  <2>2. ASSUME NEW v \in Uploads, req'[v].stats # Nil
        PROVE  Tallied(v)'
    <3>1. v # u
      BY <1>2, <1>3, <2>2
    <3>2. Tallied(v)
      BY <1>1, <1>2, <2>2, <3>1 DEF CountsInv, TallyInv
    <3>3. QED
      BY <1>2, <3>1, <3>2 DEF Tallied, Notified
  <2>3. QED
    BY <2>1, <2>2 DEF TallyInv
<1>10. ScanPauseBalanced'
  <2>1. \A v \in Uploads : At(v, "resume")' <=> At(v, "resume")
    BY <1>2 DEF At
  <2>2. \A t \in Sessions : Receiving(t)' <=> Receiving(t)
    BY <1>2 DEF Receiving
  <2>3. QED
    BY <1>1, <1>2, <2>1, <2>2 DEF CountsInv, ScanPauseBalanced
<1>11. QED
  BY <1>5, <1>6, <1>7, <1>9, <1>10 DEF CountsInv

\* What the steps of an upload have in common as far as the counts go.
OwnOnly(u) ==
    /\ ~At(u, "idle") /\ ~At(u, "idle")'
    /\ req'[u].sid = req[u].sid /\ req'[u].fid = req[u].fid
    /\ \A v \in Uploads \ {u} : req'[v] = req[v]
    /\ UNCHANGED <<prepare, offer>>

LEMMA UploadOwnOnly ==
    ASSUME DInv, NEW u \in Uploads, UploadStep(u)
    PROVE  OwnOnly(u)
<1>1. UNCHANGED <<prepare, offer>>
  BY DEF UploadStep, UploadQuery, UploadValidate, UploadLookup, UploadCheck,
        UploadGetContext, UploadFileInfo, UploadChoosePath, UploadCreate, UploadCopied,
        UploadBroken, UploadFinish, UploadSave, UploadMark, UploadResume
<1>2. TypeOK
  BY DEF DInv, IInv
<1>3. QED
  BY <1>1, <1>2, UploadFrame DEF OwnOnly, SameTarget, At

\* Such a step keeps the files of the uploads apart.
LEMMA OnceKept ==
    ASSUME DInv, NEW u \in Uploads, OwnOnly(u)
    PROVE  OnceInv'
<1>1. \A v \in Uploads : /\ req'[v].sid = req[v].sid /\ req'[v].fid = req[v].fid
                         /\ At(v, "idle")' <=> At(v, "idle")
  BY DEF OwnOnly, At
<1>2. QED
  BY <1>1 DEF OwnOnly, DInv, CountsInv, OnceInv

\* A step that neither saves, marks nor resumes: it may turn the upload away.
LEMMA PlainCounts ==
    ASSUME DInv, NEW u \in Uploads, UploadStep(u),
           ~UploadSave(u), ~UploadMark(u), ~UploadResume(u)
    PROVE  CountsInv'
<1>1. /\ TypeOK /\ SessionsInv /\ LastInv /\ KnownInv /\ CountsInv
      /\ req[u] \in Request /\ req \in [Uploads -> Request]
  BY DEF DInv, IInv, TypeOK
<1>2. /\ UNCHANGED <<uploadSessions, uploadStats, fileSavePaths, scanPauseCount, ending>>
      /\ req[u].pc \notin {"mark", "resume", "done"} /\ req'[u].pc # "resume"
      /\ req'[u].stats = req[u].stats
      /\ req'[u].outcome \in {req[u].outcome, "failed", "refused"}
      /\ req'[u].pc = "mark" => req'[u].outcome = "failed"
  BY <1>1 DEF UploadStep, UploadQuery, UploadValidate, UploadLookup, UploadCheck,
        UploadGetContext, UploadFileInfo, UploadChoosePath, UploadCreate, UploadCopied,
        UploadBroken, UploadFinish, Fail, At, Request, caches
<1>3. OwnOnly(u) /\ req[u].outcome # "saved" /\ req'[u].outcome # "saved"
      /\ req[u].stats = Nil
  BY <1>1, <1>2, UploadOwnOnly DEF KnownInv, LastInv
<1>4. OnceInv'
  BY <1>3, OnceKept
<1>5. \A v \in Uploads : \A t, g : Past(v) /\ Of(v, t, g) => Past(v)' /\ Of(v, t, g)'
  BY <1>2, <1>3 DEF OwnOnly, Past, Of
<1>6. KeptInv'
  BY <1>1, <1>2, <1>3, <1>5 DEF CountsInv, KeptInv, Pending, OwnOnly
<1>7. SavedInv'
  BY <1>1, <1>2, <1>3 DEF CountsInv, SavedInv, At, Of, OwnOnly
<1>8. ASSUME NEW t \in Sessions
      PROVE  Marked(t)' = Marked(t)
  <2>1. ASSUME NEW g \in fileSavePaths[t], NEW v \in Uploads, Past(v)', Of(v, t, g)'
        PROVE  Past(v) /\ Of(v, t, g)
    <3>1. PICK w \in Uploads : Of(w, t, g) /\ req[w].outcome = "saved"
      BY <1>1 DEF CountsInv, SavedInv
    <3>2. w # u
      BY <1>3, <3>1
    <3>3. Of(v, t, g)
      BY <1>3, <2>1 DEF OwnOnly, Of
    <3>4. v = u => w = u
      BY <1>1, <1>3, <3>1, <3>3 DEF CountsInv, OnceInv, Of, OwnOnly
    <3>5. QED
      BY <1>3, <2>1, <3>2, <3>3, <3>4 DEF OwnOnly, Past
  <2>2. QED
    BY <1>2, <1>5, <2>1 DEF Marked
<1>9. TallyInv'
  <2>1. ASSUME NEW t \in Sessions, Receiving(t)'
        PROVE  Tallies(t)'
    <3>1. Tallies(t)
      BY <1>1, <1>2, <1>3, <2>1 DEF CountsInv, TallyInv, Receiving, OwnOnly
    <3>2. QED
      BY <1>2, <1>3, <1>8, <3>1 DEF Tallies, OwnOnly
  <2>2. ASSUME NEW v \in Uploads, req'[v].stats # Nil
        PROVE  Tallied(v)'
    <3>1. v # u
      BY <1>2, <1>3, <2>2
    <3>2. Tallied(v) /\ req'[v] = req[v]
      BY <1>1, <1>3, <2>2, <3>1 DEF CountsInv, TallyInv, OwnOnly
    <3>3. QED
      BY <1>2, <1>3, <3>2 DEF Tallied, Notified, OwnOnly
  <2>3. QED
    BY <2>1, <2>2 DEF TallyInv
<1>10. ScanPauseBalanced'
  <2>1. \A v \in Uploads : At(v, "resume")' <=> At(v, "resume")
    BY <1>2, <1>3 DEF At, OwnOnly
  <2>2. \A t \in Sessions : Receiving(t)' <=> Receiving(t)
    BY <1>2, <1>3 DEF Receiving, OwnOnly
  <2>3. QED
    BY <1>1, <1>2, <2>1, <2>2 DEF CountsInv, ScanPauseBalanced
<1>11. QED
  BY <1>4, <1>6, <1>7, <1>9, <1>10 DEF CountsInv

\* The save path is recorded while the session still waits for the file.
LEMMA SaveCounts ==
    ASSUME DInv, NEW u \in Uploads, UploadSave(u)
    PROVE  CountsInv'
<1> DEFINE s == req[u].sid
           f == req[u].fid
<1>1. /\ TypeOK /\ SessionsInv /\ LastInv /\ CountsInv
      /\ req[u] \in Request /\ req \in [Uploads -> Request]
  BY DEF DInv, IInv, TypeOK
<1>2. /\ req[u].pc = "save" /\ req'[u].pc = "mark" /\ req'[u].outcome = "saved"
      /\ req'[u].stats = req[u].stats
      /\ fileSavePaths' = [fileSavePaths EXCEPT ![s] = @ \cup {f}]
      /\ UNCHANGED <<uploadSessions, uploadStats, scanPauseCount, ending>>
  BY <1>1 DEF UploadSave, At, Request
<1>3. OwnOnly(u) /\ req[u].stats = Nil
  BY <1>1, <1>2, UploadOwnOnly DEF UploadStep, LastInv
<1>4. s \in Sessions /\ f \in Files /\ Pending(s, f)
  BY <1>2, ActiveIsPending DEF At, Past
<1>5. /\ fileSavePaths'[s] = fileSavePaths[s] \cup {f}
      /\ \A t \in Sessions \ {s} : fileSavePaths'[t] = fileSavePaths[t]
  BY <1>1, <1>2, <1>4 DEF TypeOK
<1>6. \A v \in Uploads : \A t, g : /\ Past(v)' <=> Past(v)
                               /\ Of(v, t, g)' <=> Of(v, t, g)
  BY <1>2, <1>3 DEF OwnOnly, Past, Of
<1>7. KeptInv'
  BY <1>1, <1>2, <1>3, <1>6 DEF CountsInv, KeptInv, Pending, OwnOnly
<1>8. SavedInv'
  <2>1. ASSUME NEW v \in Uploads, At(v, "mark")', req'[v].outcome = "saved"
        PROVE  req'[v].fid \in fileSavePaths'[req'[v].sid]
    <3>1. CASE v = u
      BY <1>3, <1>5, <3>1 DEF OwnOnly
    <3>2. CASE v # u
      <4>1. req'[v] = req[v] /\ At(v, "mark") /\ req[v].sid \in Sessions
        BY <1>1, <1>3, <2>1, <3>2 DEF OwnOnly, At, TypeOK
      <4>2. req[v].fid \in fileSavePaths[req[v].sid]
        BY <1>1, <2>1, <4>1 DEF CountsInv, SavedInv
      <4>3. QED
        BY <1>5, <4>1, <4>2
    <3>3. QED
      BY <3>1, <3>2
  <2>2. ASSUME NEW t \in Sessions, NEW g \in fileSavePaths'[t]
        PROVE  \E v \in Uploads : Of(v, t, g)' /\ req'[v].outcome = "saved"
    <3>1. CASE g \in fileSavePaths[t]
      <4>1. PICK v \in Uploads : Of(v, t, g) /\ req[v].outcome = "saved"
        BY <1>1, <3>1 DEF CountsInv, SavedInv
      <4>2. req'[v].outcome = "saved"
        BY <1>2, <1>3, <4>1 DEF OwnOnly
      <4>3. QED
        BY <1>6, <4>1, <4>2
    <3>2. CASE g \notin fileSavePaths[t]
      <4>1. t = s /\ g = f
        BY <1>5, <2>2, <3>2
      <4>2. Of(u, t, g)
        BY <4>1 DEF Of
      <4>3. QED
        BY <1>2, <1>6, <4>2
    <3>3. QED
      BY <3>1, <3>2
  <2>3. QED
    BY <2>1, <2>2 DEF SavedInv
<1>9. ASSUME NEW t \in Sessions
      PROVE  Marked(t)' = Marked(t)
  <2>1. \A v \in Uploads : Past(v) => ~Of(v, s, f)
    BY <1>1, <1>2, <1>3 DEF CountsInv, OnceInv, Of, OwnOnly, Past
  <2>2. ASSUME NEW g
        PROVE  (\E v \in Uploads : Past(v)' /\ Of(v, t, g)')
                 <=> \E v \in Uploads : Past(v) /\ Of(v, t, g)
    BY <1>2, <1>3 DEF OwnOnly, Past, Of
  <2>3. CASE t = s
    BY <1>5, <2>1, <2>2, <2>3 DEF Marked
  <2>4. CASE t # s
    BY <1>5, <2>2, <2>4 DEF Marked
  <2>5. QED
    BY <2>3, <2>4
<1>10. TallyInv'
  <2>1. ASSUME NEW t \in Sessions, Receiving(t)'
        PROVE  Tallies(t)'
    <3>1. Tallies(t)
      BY <1>1, <1>2, <1>3, <2>1 DEF CountsInv, TallyInv, Receiving, OwnOnly
    <3>2. QED
      BY <1>2, <1>3, <1>9, <3>1 DEF Tallies, OwnOnly
  <2>2. ASSUME NEW v \in Uploads, req'[v].stats # Nil
        PROVE  Tallied(v)'
    <3>1. v # u
      BY <1>2, <1>3, <2>2
    <3>2. Tallied(v) /\ req'[v] = req[v]
      BY <1>1, <1>3, <2>2, <3>1 DEF CountsInv, TallyInv, OwnOnly
    <3>3. req[v].sid # s /\ req[v].sid \in Sessions
      BY <1>1, <1>4, <2>2, <3>2 DEF LastInv, Pending, TypeOK
    <3>4. fileSavePaths'[req[v].sid] = fileSavePaths[req[v].sid]
      BY <1>5, <3>3
    <3>5. QED
      BY <1>2, <1>3, <3>2, <3>4 DEF Tallied, Notified, OwnOnly
  <2>3. QED
    BY <2>1, <2>2 DEF TallyInv
<1>11. ScanPauseBalanced'
  <2>1. \A v \in Uploads : At(v, "resume")' <=> At(v, "resume")
    BY <1>2, <1>3 DEF At, OwnOnly
  <2>2. \A t \in Sessions : Receiving(t)' <=> Receiving(t)
    BY <1>2, <1>3 DEF Receiving, OwnOnly
  <2>3. QED
    BY <1>1, <1>2, <2>1, <2>2 DEF CountsInv, ScanPauseBalanced
<1>12. QED
  BY <1>3, <1>7, <1>8, <1>10, <1>11, OnceKept DEF CountsInv

\* A file is counted: the tally gains one, and the last file hands the session's part
\* of the pause counter over to its upload.
LEMMA MarkCounts ==
    ASSUME DInv, NEW u \in Uploads, UploadMark(u)
    PROVE  CountsInv'
<1>1. /\ TypeOK /\ SessionsInv /\ LastInv /\ KnownInv /\ CountsInv
      /\ req[u] \in Request /\ req \in [Uploads -> Request]
  BY DEF DInv, IInv, TypeOK
<1>2. OwnOnly(u) /\ req[u].pc = "mark"
  BY UploadOwnOnly DEF UploadStep, UploadMark, At
<1>3. PICK s \in Sessions, f \in Files : Of(u, s, f)
  BY <1>2, ActiveIsPending DEF At, Past, Of
<1>4. prepare[s] = "ready" /\ uploadSessions[s] # Nil /\ f \in uploadSessions[s]
  BY <1>2, <1>3, ActiveIsPending DEF At, Past, Of, Pending
<1>5. MarkFile(u) /\ UNCHANGED <<fileSavePaths, scanPauseCount, ending>>
  BY <1>1, <1>3, <1>4 DEF UploadMark, MarkUnknown, KnownInv, Of
<1> DEFINE left == uploadSessions[s] \ {f}
           st   == StatsAfter(s, req[u].outcome = "saved")
<1>6. /\ uploadStats' = [uploadStats EXCEPT ![s] = st]
      /\ uploadSessions' = [uploadSessions EXCEPT ![s] = Entry(left)]
      /\ req' = IF left = {} THEN [req EXCEPT ![u].pc = "resume", ![u].stats = st]
                ELSE [req EXCEPT ![u].pc = "done"]
  BY <1>3, <1>5 DEF MarkFile, LeftAfter, Of
<1>7. /\ uploadStats'[s] = st
      /\ uploadSessions'[s] = IF left = {} THEN Nil ELSE left
      /\ \A t \in Sessions \ {s} : /\ uploadStats'[t] = uploadStats[t]
                                   /\ uploadSessions'[t] = uploadSessions[t]
  BY <1>1, <1>6 DEF TypeOK, Entry
<1>8. /\ req'[u].outcome = req[u].outcome
      /\ left = {} => req'[u].pc = "resume" /\ req'[u].stats = st
      /\ left # {} => req'[u].pc = "done" /\ req'[u].stats = Nil
  BY <1>1, <1>2, <1>6 DEF Request, LastInv
<1>9. left # Nil
  BY <1>1, <1>4, ConstantsAssumption DEF TypeOK
<1>10. \A v \in Uploads : \A t, g : /\ Past(v)' <=> Past(v) \/ v = u
                                    /\ Of(v, t, g)' <=> Of(v, t, g)
  BY <1>2, <1>8 DEF OwnOnly, Past, Of
<1>11. \A v \in Uploads : Of(v, s, f) => v = u
  BY <1>1, <1>2, <1>3 DEF CountsInv, OnceInv, Of, OwnOnly
<1>12. \A t \in Sessions \ {s} : Marked(t)' = Marked(t)
  <2>1. \A t \in Sessions \ {s} : \A g : ~Of(u, t, g)
    BY <1>3 DEF Of
  <2>2. QED
    BY <1>5, <1>10, <2>1 DEF Marked
<1>13. f \in fileSavePaths[s] <=> req[u].outcome = "saved"
  BY <1>1, <1>2, <1>3, <1>11 DEF CountsInv, SavedInv, At, Of
<1>14. f \notin Marked(s) /\ Marked(s)' = Marked(s) \cup ({f} \cap fileSavePaths[s])
  <2>1. ~Past(u) /\ \A g : Of(u, s, g) <=> g = f
    BY <1>2, <1>3 DEF Past, Of
  <2>2. QED
    BY <1>5, <1>10, <1>11, <2>1 DEF Marked
<1>15. KeptInv'
  <2>1. \A t \in Sessions : prepare'[t] = "accepted" => uploadSessions'[t] = offer'[t]
    BY <1>1, <1>2, <1>4, <1>7 DEF CountsInv, KeptInv, OwnOnly
  <2>2. ASSUME NEW t \in Sessions, prepare[t] # "none", NEW g \in offer[t]
        PROVE  Pending(t, g)' \/ \E v \in Uploads : Past(v)' /\ Of(v, t, g)'
    <3>1. CASE \E v \in Uploads : Past(v) /\ Of(v, t, g)
      BY <1>10, <3>1
    <3>2. CASE t = s /\ g = f
      BY <1>3, <1>10, <3>2
    <3>3. CASE Pending(t, g) /\ ~(t = s /\ g = f)
      BY <1>7, <1>9, <3>3 DEF Pending
    <3>4. QED
      BY <1>1, <2>2, <3>1, <3>2, <3>3 DEF CountsInv, KeptInv
  <2>3. QED
    BY <1>2, <2>1, <2>2 DEF KeptInv, OwnOnly
<1>16. SavedInv'
  <2>1. ASSUME NEW v \in Uploads, At(v, "mark")', req'[v].outcome = "saved"
        PROVE  req'[v].fid \in fileSavePaths'[req'[v].sid]
    <3>1. req'[v] = req[v]
      BY <1>2, <1>8, <2>1 DEF At, OwnOnly
    <3>2. QED
      BY <1>1, <1>5, <2>1, <3>1 DEF CountsInv, SavedInv, At
  <2>2. \A v \in Uploads : req'[v].outcome = req[v].outcome
    BY <1>2, <1>8 DEF OwnOnly
  <2>3. QED
    BY <1>1, <1>5, <1>10, <2>1, <2>2 DEF CountsInv, SavedInv
<1>17. left = {} => Marked(s)' = fileSavePaths[s]
  <2>1. ASSUME left = {}, NEW g \in fileSavePaths[s]
        PROVE  g \in Marked(s)'
    <3>1. PICK v \in Uploads : Of(v, s, g)
      BY <1>1 DEF CountsInv, SavedInv
    <3>2. g \in offer'[s]
      BY <1>1, <1>2, <3>1, ConstantsAssumption DEF CountsInv, OnceInv, Of, OwnOnly
    <3>3. ~Pending(s, g)' /\ prepare'[s] # "none"
      BY <1>2, <1>4, <1>7, <2>1 DEF Pending, OwnOnly
    <3>4. QED
      BY <1>5, <1>15, <3>2, <3>3 DEF KeptInv, Marked
  <2>2. QED
    BY <1>5, <2>1 DEF Marked
<1>18. /\ st \in Stats /\ st.total = Cardinality(offer[s])
       /\ st.success + st.failed + Cardinality(left) = st.total
       /\ st.success = Cardinality(Marked(s)')
  <2>1. Tallies(s)
    BY <1>1, <1>4 DEF CountsInv, TallyInv, Receiving
  <2>2. StatsBefore(s) = uploadStats[s]
    BY <2>1, NilAssumption DEF StatsBefore, Tallies
  <2>3. PICK a \in Nat, b \in Nat, c \in Nat :
          uploadStats[s] = [total |-> a, success |-> b, failed |-> c]
    BY <2>1 DEF Tallies, Stats
  <2>4. /\ IsFiniteSet(uploadSessions[s]) /\ uploadSessions[s] \subseteq Files
        /\ Cardinality(uploadSessions[s]) \in Nat
    BY <1>1, <1>4, ConstantsAssumption, FS_Subset, FS_CardinalityType DEF TypeOK
  <2>5. Cardinality(left) = Cardinality(uploadSessions[s]) - 1
    BY <1>4, <2>4, FS_RemoveElement
  <2>6. IsFiniteSet(Marked(s)) /\ Cardinality(Marked(s)) \in Nat
    BY <1>1, ConstantsAssumption, FS_Subset, FS_CardinalityType DEF Marked, TypeOK
  <2>7. Cardinality(Marked(s)')
          = Cardinality(Marked(s)) + (IF req[u].outcome = "saved" THEN 1 ELSE 0)
    <3>1. CASE req[u].outcome = "saved"
      <4>1. Marked(s)' = Marked(s) \cup {f}
        BY <1>13, <1>14, <3>1
      <4>2. QED
        BY <1>14, <2>6, <3>1, <4>1, FS_AddElement
    <3>2. CASE req[u].outcome # "saved"
      <4>1. Marked(s)' = Marked(s)
        BY <1>13, <1>14, <3>2
      <4>2. QED
        BY <2>6, <3>2, <4>1
    <3>3. QED
      BY <3>1, <3>2
  <2>8. /\ a = Cardinality(offer[s]) /\ b = Cardinality(Marked(s))
        /\ b + c + Cardinality(uploadSessions[s]) = a
    BY <2>1, <2>3 DEF Tallies
  <2>9. CASE req[u].outcome = "saved"
    <3>1. st = [total |-> a, success |-> b + 1, failed |-> c]
      BY <2>2, <2>3, <2>9 DEF StatsAfter
    <3>2. QED
      BY <2>3, <2>4, <2>5, <2>7, <2>8, <2>9, <3>1 DEF Stats
  <2>10. CASE req[u].outcome # "saved"
    <3>1. st = [total |-> a, success |-> b, failed |-> c + 1]
      BY <2>2, <2>3, <2>10 DEF StatsAfter
    <3>2. QED
      BY <2>3, <2>4, <2>5, <2>7, <2>8, <2>10, <3>1 DEF Stats
  <2>11. QED
    BY <2>9, <2>10
<1> HIDE DEF st, left
<1>19. TallyInv'
  <2>1. ASSUME NEW t \in Sessions, Receiving(t)'
        PROVE  Tallies(t)'
    <3>1. CASE t = s
      <4>1. left # {} /\ uploadSessions'[s] = left
        BY <1>7, <2>1, <3>1 DEF Receiving
      <4>2. QED
        BY <1>2, <1>7, <1>18, <3>1, <4>1 DEF Tallies, OwnOnly
    <3>2. CASE t # s
      <4>1. Tallies(t)
        BY <1>1, <1>2, <1>7, <2>1, <3>2 DEF CountsInv, TallyInv, Receiving, OwnOnly
      <4>2. QED
        BY <1>2, <1>7, <1>12, <3>2, <4>1 DEF Tallies, OwnOnly
    <3>3. QED
      BY <3>1, <3>2
  <2>2. ASSUME NEW v \in Uploads, req'[v].stats # Nil
        PROVE  Tallied(v)'
    <3>1. CASE v = u
      <4>1. left = {} /\ req'[u].stats = st /\ req'[u].sid = s
        BY <1>2, <1>3, <1>8, <2>2, <3>1 DEF OwnOnly, Of
      <4>2. Cardinality(left) = 0
        BY <4>1, FS_EmptySet
      <4>3. ~Notified(u)'
        BY <1>1, <1>2, <1>5 DEF TypeOK, Notified
      <4>4. st.success + st.failed = st.total
        BY <1>18, <4>2 DEF Stats
      <4>5. st.success = Cardinality(fileSavePaths[s])
        BY <1>17, <1>18, <4>1
      <4>6. QED
        BY <1>2, <1>5, <1>18, <3>1, <4>1, <4>3, <4>4, <4>5 DEF Tallied, OwnOnly
    <3>2. CASE v # u
      <4>1. Tallied(v) /\ req'[v] = req[v]
        BY <1>1, <1>2, <2>2, <3>2 DEF CountsInv, TallyInv, OwnOnly
      <4>2. QED
        BY <1>2, <1>5, <4>1 DEF Tallied, Notified, OwnOnly
    <3>3. QED
      BY <3>1, <3>2
  <2>3. QED
    BY <2>1, <2>2 DEF TallyInv
<1>20. ScanPauseBalanced'
  <2>1. scanPauseCount = Cardinality(ReceivingSet) + Cardinality(ResumingSet)
    BY <1>1 DEF CountsInv, ScanPauseBalanced, ReceivingSet, ResumingSet
  <2>2. CASE left = {}
    <3>1. ReceivingSet' = ReceivingSet \ {s} /\ s \in ReceivingSet
      BY <1>2, <1>4, <1>7, <2>2 DEF ReceivingSet, Receiving, OwnOnly
    <3>2. ResumingSet' = ResumingSet \cup {u} /\ u \notin ResumingSet
      BY <1>2, <1>8, <2>2 DEF ResumingSet, At, OwnOnly
    <3>3. Cardinality(ReceivingSet') = Cardinality(ReceivingSet) - 1
      BY <3>1, CountsFinite, FS_RemoveElement
    <3>4. Cardinality(ResumingSet') = Cardinality(ResumingSet) + 1
      BY <3>2, CountsFinite, FS_AddElement
    <3>5. scanPauseCount' = Cardinality(ReceivingSet') + Cardinality(ResumingSet')
      BY <1>5, <2>1, <3>3, <3>4, CountsFinite
    <3>6. QED
      BY <3>5 DEF ScanPauseBalanced, ReceivingSet, ResumingSet
  <2>3. CASE left # {}
    <3>1. ReceivingSet' = ReceivingSet
      BY <1>2, <1>4, <1>7, <1>9, <2>3 DEF ReceivingSet, Receiving, OwnOnly
    <3>2. ResumingSet' = ResumingSet
      BY <1>2, <1>8, <2>3 DEF ResumingSet, At, OwnOnly
    <3>3. scanPauseCount' = Cardinality(ReceivingSet') + Cardinality(ResumingSet')
      BY <1>5, <2>1, <3>1, <3>2
    <3>4. QED
      BY <3>3 DEF ScanPauseBalanced, ReceivingSet, ResumingSet
  <2>4. QED
    BY <2>2, <2>3
<1>21. OnceInv'
  BY <1>2, OnceKept
<1>22. QED
  BY <1>15, <1>16, <1>19, <1>20, <1>21 DEF CountsInv

\* The last upload of a session takes its part of the pause counter back.
LEMMA ResumeCounts ==
    ASSUME DInv, NEW u \in Uploads, UploadResume(u)
    PROVE  CountsInv'
<1>1. /\ TypeOK /\ LastInv /\ CountsInv
      /\ req[u] \in Request /\ req \in [Uploads -> Request]
  BY DEF DInv, IInv, TypeOK
<1>2. /\ OwnOnly(u) /\ req[u].pc = "resume" /\ req'[u].pc = "done"
      /\ req'[u].outcome = req[u].outcome /\ req'[u].stats = req[u].stats
      /\ scanPauseCount' = scanPauseCount - 1
      /\ UNCHANGED <<uploadSessions, uploadStats, fileSavePaths>>
  BY <1>1, UploadOwnOnly DEF UploadStep, UploadResume, ResumeScan, At, Request, caches
<1>3. \A v \in Uploads : Notified(v)' <=> Notified(v)
  BY <1>1, <1>2 DEF UploadResume, TypeOK, Notified
<1>4. \A v \in Uploads : Notified(v) => ending'[v] = ending[v]
  BY <1>1, <1>2 DEF UploadResume, TypeOK, Notified
<1>5. \A v \in Uploads : /\ Past(v)' <=> Past(v)
                         /\ req'[v].sid = req[v].sid /\ req'[v].fid = req[v].fid
                         /\ req'[v].outcome = req[v].outcome
                         /\ req'[v].stats = req[v].stats
                         /\ At(v, "mark")' <=> At(v, "mark")
  BY <1>2 DEF OwnOnly, Past, At
<1>6. OnceInv'
  BY <1>2, OnceKept
<1>7. KeptInv' /\ SavedInv'
  BY <1>1, <1>2, <1>5 DEF CountsInv, KeptInv, SavedInv, Pending, Of, OwnOnly
<1>8. \A t \in Sessions : Marked(t)' = Marked(t)
  BY <1>2, <1>5 DEF Marked, Of
<1>9. TallyInv'
  <2>1. ASSUME NEW t \in Sessions, Receiving(t)'
        PROVE  Tallies(t)'
    <3>1. Tallies(t)
      BY <1>1, <1>2, <2>1 DEF CountsInv, TallyInv, Receiving, OwnOnly
    <3>2. QED
      BY <1>2, <1>8, <3>1 DEF Tallies, OwnOnly
  <2>2. ASSUME NEW v \in Uploads, req'[v].stats # Nil
        PROVE  Tallied(v)'
    <3>1. Tallied(v)
      BY <1>1, <1>5, <2>2 DEF CountsInv, TallyInv
    <3>2. QED
      BY <1>2, <1>3, <1>4, <1>5, <3>1 DEF Tallied, OwnOnly
  <2>3. QED
    BY <2>1, <2>2 DEF TallyInv
<1>10. ScanPauseBalanced'
  <2>1. ReceivingSet' = ReceivingSet
    BY <1>2 DEF ReceivingSet, Receiving, OwnOnly
  <2>2. ResumingSet' = ResumingSet \ {u} /\ u \in ResumingSet
    BY <1>2 DEF ResumingSet, At, OwnOnly
  <2>3. Cardinality(ResumingSet') = Cardinality(ResumingSet) - 1
    BY <2>2, CountsFinite, FS_RemoveElement
  <2>4. scanPauseCount = Cardinality(ReceivingSet) + Cardinality(ResumingSet)
    BY <1>1 DEF CountsInv, ScanPauseBalanced, ReceivingSet, ResumingSet
  <2>5. scanPauseCount' = Cardinality(ReceivingSet') + Cardinality(ResumingSet')
    BY <1>2, <2>1, <2>3, <2>4, CountsFinite
  <2>6. QED
    BY <2>5 DEF ScanPauseBalanced, ReceivingSet, ResumingSet
<1>11. QED
  BY <1>6, <1>7, <1>9, <1>10 DEF CountsInv

-----------------------------------------------------------------------------
(* The goroutine that ends a session *)

\* It works on a session without an entry, and puts the paths of all its saved files
\* into the notification.
LEMMA EndCounts ==
    ASSUME DInv, NEW u \in Uploads, EndStep(u)
    PROVE  CountsInv'
<1>1. TypeOK /\ LastInv /\ CountsInv
  BY DEF DInv, IInv
<1>2. /\ ending[u].pc \in {"notify", "cleanup", "remove"}
      /\ UNCHANGED <<prepare, offer, scanPauseCount, req>>
  BY DEF EndStep, EndNotify, EndCleanup, EndRemove
<1>3. PICK s \in Sessions : s = req[u].sid
  BY <1>2, EndedIsClosed DEF Ended
<1>4. uploadSessions[s] = Nil /\ req[u].stats # Nil /\ ~At(u, "idle") /\ ~Receiving(s)
  BY <1>2, <1>3, EndedIsClosed DEF Ended, Receiving
<1>5. uploadSessions' = uploadSessions
  <2>1. CASE EndRemove(u)
    BY <1>1, <1>3, <1>4, <2>1 DEF EndRemove, RemoveUploadSession, TypeOK
  <2>2. CASE EndNotify(u) \/ EndCleanup(u)
    BY <2>2 DEF EndNotify, EndCleanup, caches
  <2>3. QED
    BY <2>1, <2>2 DEF EndStep
<1>6. /\ \A t \in Sessions \ {s} : /\ uploadStats'[t] = uploadStats[t]
                                   /\ fileSavePaths'[t] = fileSavePaths[t]
      /\ fileSavePaths'[s] \in {{}, fileSavePaths[s]}
      /\ \A v \in Uploads \ {u} : ending'[v] = ending[v]
  BY <1>1, <1>3 DEF EndStep, EndNotify, EndCleanup, EndRemove, RemoveUploadSession, TypeOK,
     caches
<1>7. OnceInv' /\ KeptInv' /\ ScanPauseBalanced'
  BY <1>1, <1>2, <1>5 DEF CountsInv, OnceInv, KeptInv, ScanPauseBalanced, At, Past, Of,
     Pending, Receiving
<1>8. SavedInv'
  <2>1. ASSUME NEW v \in Uploads, At(v, "mark"), req[v].outcome = "saved"
        PROVE  req[v].fid \in fileSavePaths'[req[v].sid]
    <3>1. req[v].sid # s /\ req[v].sid \in Sessions
      BY <1>4, <2>1, ActiveIsPending DEF At, Past, Pending
    <3>2. QED
      BY <1>1, <1>6, <2>1, <3>1 DEF CountsInv, SavedInv
  <2>2. \A t \in Sessions : fileSavePaths'[t] \subseteq fileSavePaths[t]
    BY <1>6
  <2>3. QED
    BY <1>1, <1>2, <2>1, <2>2 DEF CountsInv, SavedInv, At, Of
<1>9. ASSUME NEW t \in Sessions, Receiving(t)'
      PROVE  Tallies(t)'
  <2>1. t # s /\ Receiving(t) /\ Tallies(t)
    BY <1>1, <1>2, <1>4, <1>5, <1>9 DEF Receiving, CountsInv, TallyInv
  <2>2. QED
    BY <1>2, <1>5, <1>6, <2>1 DEF Tallies, Marked, Past, Of
<1>10. ASSUME NEW v \in Uploads, req[v].stats # Nil
       PROVE  Tallied(v)'
  <2>1. Tallied(v)
    BY <1>1, <1>10 DEF CountsInv, TallyInv
  <2>2. CASE v # u
    <3>1. req[v].sid # s /\ req[v].sid \in Sessions
      BY <1>1, <1>3, <1>4, <1>10, <2>2 DEF LastInv, TypeOK
    <3>2. QED
      BY <1>2, <1>6, <2>1, <2>2, <3>1 DEF Tallied, Notified
  <2>3. CASE v = u /\ EndNotify(u)
    <3>1. ending'[u].paths = fileSavePaths[s] /\ ending'[u].pc = "cleanup"
          /\ ending[u].pc = "notify"
      BY <1>1, <1>3, <2>3 DEF EndNotify, TypeOK, EndTask
    <3>2. QED
      BY <1>2, <1>3, <2>1, <2>3, <3>1 DEF Tallied, Notified
  <2>4. CASE v = u /\ (EndCleanup(u) \/ EndRemove(u))
    <3>1. /\ ending'[u].paths = ending[u].paths
          /\ Notified(u) /\ ending'[u].pc \in {"remove", "done"}
      BY <1>1, <2>4 DEF EndCleanup, EndRemove, TypeOK, EndTask, Notified
    <3>2. QED
      BY <1>2, <2>1, <2>4, <3>1 DEF Tallied, Notified
  <2>5. QED
    BY <2>2, <2>3, <2>4 DEF EndStep
<1>11. TallyInv'
  BY <1>2, <1>9, <1>10 DEF TallyInv
<1>12. QED
  BY <1>7, <1>8, <1>11 DEF CountsInv

-----------------------------------------------------------------------------
(* The theorems *)

LEMMA CountsStep == DInv /\ Disciplined /\ [Next]_vars => DInv'
<1> SUFFICES ASSUME DInv, Disciplined, [Next]_vars
             PROVE  CountsInv'
  BY InvariantStep DEF DInv
<1>1. CASE UNCHANGED vars
  BY <1>1, CountsKept DEF vars, caches
<1>2. ASSUME NEW s \in Sessions, PrepareStep(s)
      PROVE  CountsInv'
  BY <1>2, AcceptCounts, RespondCounts DEF PrepareStep
<1>3. ASSUME NEW u \in Uploads, UploadStep(u)
      PROVE  CountsInv'
  BY <1>3, PlainCounts, SaveCounts, MarkCounts, ResumeCounts
<1>4. CASE \E u \in Uploads, s \in Sessions, f \in Files : UploadArrive(u, s, f)
  BY <1>4, ArriveCounts
<1>5. CASE \E u \in Uploads : EndStep(u)
  BY <1>5, EndCounts
<1>6. ~(\E s \in Sessions : Expire(s)) /\ Cancels = {}
  BY DEF Disciplined, Expire
<1>7. QED
  BY <1>1, <1>2, <1>3, <1>4, <1>5, <1>6 DEF Next

\* The counts hold in every state, when the senders are disciplined.
THEOREM CountsInvariance == Disciplined => (Spec => []DInv)
<1> SUFFICES ASSUME Disciplined
             PROVE  Spec => []DInv
  OBVIOUS
<1>1. DInv /\ [Next]_vars => DInv'
  BY CountsStep
<1>2. Init => CountsInv
  <2>1. ASSUME Init
        PROVE  CountsInv
    <3>1. OnceInv /\ KeptInv /\ SavedInv
      BY <2>1 DEF Init, OnceInv, KeptInv, SavedInv, At
    <3>2. TallyInv
      BY <2>1 DEF Init, TallyInv, Receiving
    <3>3. ReceivingSet = {} /\ ResumingSet = {} /\ scanPauseCount = 0
      BY <2>1 DEF Init, ReceivingSet, ResumingSet, Receiving, At
    <3>4. ScanPauseBalanced
      BY <3>3, FS_EmptySet DEF ScanPauseBalanced, ReceivingSet, ResumingSet
    <3>5. QED
      BY <3>1, <3>2, <3>4 DEF CountsInv
  <2>2. QED
    BY <2>1
<1>3. Init => DInv
  BY <1>2, InitialInvariant DEF DInv
<1>4. QED
  BY <1>1, <1>3, PTL DEF Spec

\* ScanPauseBalanced, for all sessions, files and uploads: every session adds one to the
\* pause counter and takes one back, so that scanning is paused exactly while something
\* is being received.
THEOREM PauseIsExact == Disciplined => (Spec => []ScanPauseBalanced)
<1>1. DInv => ScanPauseBalanced
  BY DEF DInv, CountsInv
<1>2. QED
  BY <1>1, CountsInvariance, PTL

\* EndAccountsForFiles, for all sessions, files and uploads: upload_end counts every file
\* of the session once, and each success has its save path.
THEOREM EndNumbersFit == Disciplined => (Spec => []EndAccountsForFiles)
<1>1. DInv => EndAccountsForFiles
  <2>1. ASSUME DInv, NEW u \in Uploads, Notified(u)
        PROVE  Tallied(u)
    BY <2>1 DEF DInv, IInv, LastInv, Ended, Notified, CountsInv, TallyInv
  <2>2. QED
    BY <2>1 DEF EndAccountsForFiles, Tallied
<1>2. QED
  BY <1>1, CountsInvariance, PTL

=============================================================================
