------------------------- MODULE SendSessionProofs -------------------------
(***************************************************************************)
(* Invariants of SendSession, for any sessions, files, calls and cancels.  *)
(***************************************************************************)
EXTENDS SendSession, FiniteSetTheorems, TLAPS

-----------------------------------------------------------------------------
(* Types *)

\* A call whose record becomes r, and no other call changes.
LEMMA Turns ==
    ASSUME TypeOK, NEW b \in Calls, NEW r \in Call, Turn(b, r)
    PROVE  /\ call' \in [Calls -> Call]
           /\ call'[b] = r
           /\ \A d \in Calls \ {b} : call'[d] = call[d]
BY DEF TypeOK, Turn

\* A step of a call gives it a record of type Call; what its program counter needs is set.
LEMMA CallTurns ==
    ASSUME TypeOK, NEW b \in Calls, CallArrive(b) \/ CallStep(b) \/ Receive(b)
    PROVE  \E r \in Call :
             /\ Turn(b, r)
             /\ r.pc # "idle"
             /\ r.pc # "done" => r.session \in Sessions
             /\ r.pc \in {"send", "reply"} => r.file \in Files
             /\ call[b].pc # "idle" => r.session = call[b].session
             /\ call[b].pc = "idle" => r.session \in Opened
<1>1. /\ call[b] \in Call
      /\ call[b].pc \notin {"idle", "done"} => call[b].session \in Sessions
      /\ call[b].pc \in {"send", "reply"} => call[b].file \in Files
  BY DEF TypeOK
<1>2. CASE CallArrive(b)
  <2>1. PICK s \in Sessions, kind \in {"single", "batch"}, files \in SUBSET Files :
          /\ prepare[s] = "open"
          /\ \E status \in FirstChecks(s, kind) :
               Turn(b, [call[b] EXCEPT !.pc = IF status = "none" THEN "session" ELSE "done",
                                       !.status = status, !.kind = kind,
                                       !.session = s, !.files = files])
    BY <1>2 DEF CallArrive
  <2>2. PICK status \in Statuses :
          Turn(b, [call[b] EXCEPT !.pc = IF status = "none" THEN "session" ELSE "done",
                                  !.status = status, !.kind = kind,
                                  !.session = s, !.files = files])
    BY <2>1 DEF FirstChecks, Statuses
  <2> DEFINE r == [call[b] EXCEPT !.pc = IF status = "none" THEN "session" ELSE "done",
                                  !.status = status, !.kind = kind,
                                  !.session = s, !.files = files]
  <2>3. r \in Call /\ r.pc \in {"session", "done"} /\ r.session = s
    BY <1>1 DEF Call
  <2>4. s \in Opened /\ call[b].pc = "idle"
    BY <1>2, <2>1 DEF Opened, CallArrive
  <2> HIDE DEF r
  <2>5. Turn(b, r)
    BY <2>2 DEF r
  <2>6. QED
    BY <2>3, <2>4, <2>5
<1>3. ASSUME NEW pc \in {"context", "finish", "reply"}, Goes(b, pc),
             call[b].pc \notin {"idle", "done"}, pc = "reply" => call[b].pc = "send"
      PROVE  \E r \in Call :
             /\ Turn(b, r)
             /\ r.pc # "idle"
             /\ r.pc # "done" => r.session \in Sessions
             /\ r.pc \in {"send", "reply"} => r.file \in Files
             /\ r.session = call[b].session
  <2> DEFINE r == [call[b] EXCEPT !.pc = pc]
  <2>1. r \in Call /\ r.pc = pc /\ r.session = call[b].session /\ r.file = call[b].file
    BY <1>1 DEF Call
  <2>2. Turn(b, r)
    BY <1>3 DEF Goes
  <2> HIDE DEF r
  <2>3. QED
    BY <1>1, <1>3, <2>1, <2>2
<1>4. ASSUME NEW f \in Files, Fails(b, f), call[b].pc \notin {"idle", "done"}
      PROVE  \E r \in Call :
             /\ Turn(b, r)
             /\ r.pc \in {"next", "finish"}
             /\ r.session = call[b].session /\ r.session \in Sessions
  <2> DEFINE r == [call[b] EXCEPT !.pc = IF Done(b) THEN "finish" ELSE "next",
                                  !.failed = call[b].failed \cup {f},
                                  !.file = NoFile, !.reply = "none"]
  <2>1. r \in Call /\ r.pc \in {"next", "finish"} /\ r.session = call[b].session
    BY <1>1 DEF Call
  <2>2. Turn(b, r)
    BY <1>4 DEF Fails
  <2> HIDE DEF r
  <2>3. QED
    BY <1>1, <1>4, <2>1, <2>2
<1>5. CASE CallSession(b)
  <2>1. call[b].pc = "session"
    BY <1>5 DEF CallSession
  <2>2. CASE Goes(b, "context")
    BY <1>3, <2>1, <2>2
  <2>3. ASSUME NEW status \in {"NotFound", "Forbidden"}, Refused(b, status)
        PROVE  \E r \in Call : Turn(b, r) /\ r.pc = "done" /\ r.session = call[b].session
    <3> DEFINE r == [call[b] EXCEPT !.pc = "done", !.status = status]
    <3>1. r \in Call /\ r.pc = "done" /\ r.session = call[b].session
      BY <1>1 DEF Call, Statuses
    <3>2. Turn(b, r)
      BY <2>3 DEF Refused
    <3> HIDE DEF r
    <3>3. QED
      BY <3>1, <3>2
  <2>4. CASE Refused(b, "NotFound") \/ Refused(b, "Forbidden")
    BY <2>1, <2>3, <2>4
  <2>5. QED
    BY <1>5, <2>2, <2>4 DEF CallSession
<1>6. CASE CallContext(b)
  <2> DEFINE r == [call[b] EXCEPT !.pc = "next",
                                  !.context = IF call[b].session \in userUploadSessionContexts
                                              THEN "session" ELSE "background"]
  <2>1. r \in Call /\ r.pc = "next" /\ r.session = call[b].session
    BY <1>1 DEF Call
  <2>2. Turn(b, r) /\ call[b].pc = "context"
    BY <1>6 DEF CallContext
  <2> HIDE DEF r
  <2>3. QED
    BY <1>1, <2>1, <2>2
<1>7. CASE CallNext(b)
  <2>1. call[b].pc = "next"
    BY <1>7 DEF CallNext
  <2>2. CASE Goes(b, "finish")
    BY <1>3, <2>1, <2>2
  <2>3. ASSUME NEW f \in Todo(b), Fails(b, f) \/ Turn(b, [call[b] EXCEPT !.pc = "send", !.file = f])
        PROVE  \E r \in Call :
               /\ Turn(b, r)
               /\ r.pc \in {"next", "finish", "send"}
               /\ r.session = call[b].session /\ r.session \in Sessions
               /\ r.pc = "send" => r.file \in Files
    <3> DEFINE r == [call[b] EXCEPT !.pc = "send", !.file = f]
    <3>1. f \in Files
      BY <1>1 DEF Todo, Call
    <3>2. r \in Call /\ r.pc = "send" /\ r.session = call[b].session /\ r.file = f
      BY <1>1, <3>1 DEF Call
    <3> HIDE DEF r
    <3>3. CASE Fails(b, f)
      BY <1>4, <2>1, <3>1, <3>3
    <3>4. CASE Turn(b, r)
      BY <1>1, <2>1, <3>1, <3>2, <3>4
    <3>5. QED
      BY <2>3, <3>3, <3>4 DEF r
  <2>4. QED
    BY <1>7, <2>1, <2>2, <2>3 DEF CallNext
<1>8. CASE CallSend(b)
  BY <1>1, <1>3, <1>4, <1>8 DEF CallSend
<1>9. CASE CallReply(b)
  <2>1. call[b].pc = "reply" /\ call[b].file \in Files
    BY <1>1, <1>9 DEF CallReply
  <2>2. CASE Fails(b, call[b].file)
    BY <1>4, <2>1, <2>2
  <2>3. CASE Succeeds(b)
    <3> DEFINE r == [call[b] EXCEPT !.pc = "next",
                                    !.sent = call[b].sent \cup {call[b].file},
                                    !.file = NoFile, !.reply = "none"]
    <3>1. r \in Call /\ r.pc = "next" /\ r.session = call[b].session
      BY <1>1, <2>1 DEF Call
    <3>2. Turn(b, r)
      BY <2>3 DEF Succeeds
    <3> HIDE DEF r
    <3>3. QED
      BY <1>1, <2>1, <3>1, <3>2
  <2>4. QED
    BY <1>9, <2>2, <2>3 DEF CallReply
<1>10. CASE CallFinish(b)
  <2> DEFINE r == [call[b] EXCEPT !.pc = "done", !.status = Result(b)]
  <2>1. Result(b) \in Statuses
    BY DEF Result, Statuses
  <2>2. r \in Call /\ r.pc = "done" /\ r.session = call[b].session
    BY <1>1, <2>1 DEF Call
  <2>3. Turn(b, r) /\ call[b].pc = "finish"
    BY <1>10 DEF CallFinish
  <2> HIDE DEF r
  <2>4. QED
    BY <2>2, <2>3
<1>11. CASE Receive(b)
  <2>1. call[b].pc = "reply"
    BY <1>11 DEF Receive
  <2>2. PICK x \in {"success", "error"} : Turn(b, [call[b] EXCEPT !.reply = x])
    BY <1>11 DEF Receive
  <2> DEFINE r == [call[b] EXCEPT !.reply = x]
  <2>3. r \in Call /\ r.pc = "reply" /\ r.session = call[b].session /\ r.file = call[b].file
    BY <1>1, <2>1 DEF Call
  <2>4. Turn(b, r)
    BY <2>2
  <2> HIDE DEF r
  <2>5. QED
    BY <1>1, <2>1, <2>3, <2>4
<1>12. QED
  BY <1>2, <1>5, <1>6, <1>7, <1>8, <1>9, <1>10, <1>11 DEF CallStep

\* What a step of a call leaves alone, and what it does to the counter and to the files
\* of the receiver.
LEMMA CallEffects ==
    ASSUME TypeOK, NEW b \in Calls, CallArrive(b) \/ CallStep(b) \/ Receive(b)
    PROVE  /\ UNCHANGED <<sessionVars, cancel, accepted>>
           /\ ResumeScan \/ UNCHANGED scanPauseCount
           /\ kept' \in [Sessions -> SUBSET Files]
           /\ \A s \in Sessions : kept[s] \subseteq kept'[s]
<1>1. CASE Receive(b)
  <2>1. call[b].session \in Sessions /\ call[b].file \in Files
    BY <1>1 DEF Receive, TypeOK
  <2>2. \/ UNCHANGED kept
        \/ kept' = [kept EXCEPT ![call[b].session] = @ \cup {call[b].file}]
    BY <1>1 DEF Receive
  <2>3. QED
    BY <1>1, <2>1, <2>2 DEF Receive, TypeOK
<1>2. CASE CallFinish(b)
  BY <1>2 DEF CallFinish, TypeOK, receiverVars
<1>3. CASE ~Receive(b) /\ ~CallFinish(b)
  BY <1>3 DEF CallArrive, CallStep, CallSession, CallContext, CallNext, CallSend, CallReply,
       TypeOK, receiverVars
<1>4. QED
  BY <1>1, <1>2, <1>3

\* TypeOK holds in every reachable state.
THEOREM TypeCorrect == Spec => []TypeOK
<1>1. Init => TypeOK
  <2> DEFINE idle == [pc |-> "idle", kind |-> "single", session |-> NoSession,
                      context |-> "session", files |-> {}, sent |-> {}, failed |-> {},
                      file |-> NoFile, reply |-> "none", status |-> "none"]
  <2> SUFFICES ASSUME Init PROVE TypeOK
    OBVIOUS
  <2>1. idle \in Call /\ idle.pc = "idle"
    BY DEF Call, Statuses
  <2>2. call = [b \in Calls |-> idle]
    BY DEF Init
  <2> HIDE DEF idle
  <2>3. /\ call \in [Calls -> Call]
        /\ \A b \in Calls : call[b].pc = "idle"
    BY <2>1, <2>2
  <2>4. cancel \in [Cancels -> Cancel] /\ \A c \in Cancels : cancel[c].pc = "idle"
    BY DEF Init, Cancel
  <2>5. /\ prepare \in [Sessions -> {"idle", "ask", "open", "failed"}]
        /\ offered \in [Sessions -> SUBSET Files] /\ kept \in [Sessions -> SUBSET Files]
        /\ UserUploadSessions = {} /\ userUploadSessionContexts = {} /\ cancelled = {}
        /\ accepted = {} /\ scanPauseCount = 0
    BY DEF Init
  <2>6. QED
    BY <2>3, <2>4, <2>5 DEF TypeOK
<1>2. TypeOK /\ [Next]_vars => TypeOK'
  <2> SUFFICES ASSUME TypeOK, [Next]_vars PROVE TypeOK'
    OBVIOUS
  <2>1. CASE UNCHANGED vars
    BY <2>1 DEF vars, sessionVars, receiverVars, TypeOK
  <2>2. ASSUME NEW s \in Sessions, PrepareStep(s) PROVE TypeOK'
    <3>1. CASE PrepareAsk(s)
      BY <3>1 DEF PrepareAsk, TypeOK, receiverVars
    <3>2. CASE PrepareOpen(s)
      BY <3>2 DEF PrepareOpen, TypeOK, receiverVars
    <3>3. CASE PrepareFail(s)
      BY <3>3 DEF PrepareFail, TypeOK, receiverVars
    <3>4. QED
      BY <2>2, <3>1, <3>2, <3>3 DEF PrepareStep
  <2>3. ASSUME NEW s \in Sessions, Accept(s) \/ Expire(s) PROVE TypeOK'
    BY <2>3 DEF Accept, Expire, TypeOK, sessionVars, receiverVars
  <2>4. ASSUME NEW b \in Calls, CallArrive(b) \/ CallStep(b) \/ Receive(b) PROVE TypeOK'
    <3>1. /\ call' \in [Calls -> Call]
          /\ \A d \in Calls : call'[d].pc \notin {"idle", "done"}
                                => call'[d].session \in Sessions
          /\ \A d \in Calls : call'[d].pc \in {"send", "reply"} => call'[d].file \in Files
          /\ UNCHANGED <<sessionVars, cancel, accepted>>
      <4>1. PICK r \in Call : /\ Turn(b, r)
                              /\ r.pc \notin {"idle", "done"} => r.session \in Sessions
                              /\ r.pc \in {"send", "reply"} => r.file \in Files
        BY <2>4, CallTurns
      <4>2. call' \in [Calls -> Call] /\ call'[b] = r
            /\ \A d \in Calls \ {b} : call'[d] = call[d]
        BY <4>1, Turns
      <4>3. UNCHANGED <<sessionVars, cancel, accepted>>
        BY <2>4, CallEffects
      <4>4. QED
        BY <4>1, <4>2, <4>3 DEF TypeOK
    <3>2. kept' \in [Sessions -> SUBSET Files]
      BY <2>4, CallEffects
    <3>3. scanPauseCount' \in Int
      BY <2>4, CallEffects DEF ResumeScan, TypeOK
    <3>4. QED
      BY <3>1, <3>2, <3>3 DEF TypeOK, sessionVars
  <2>5. ASSUME NEW c \in Cancels, CancelStep(c) PROVE TypeOK'
    <3>1. CASE CancelArrive(c)
      BY <3>1 DEF CancelArrive, TypeOK, Cancel, sessionVars, receiverVars
    <3>2. CASE CancelDestroy(c)
      BY <3>2 DEF CancelDestroy, TypeOK, Cancel, receiverVars
    <3>3. CASE CancelResume(c)
      BY <3>3 DEF CancelResume, ResumeScan, TypeOK, Cancel, sessionVars, receiverVars
    <3>4. CASE CancelTell(c)
      BY <3>4 DEF CancelTell, TypeOK, Cancel, sessionVars, receiverVars
    <3>5. QED
      BY <2>5, <3>1, <3>2, <3>3, <3>4 DEF CancelStep
  <2>6. QED
    BY <2>1, <2>2, <2>3, <2>4, <2>5 DEF Next
<1>3. QED
  BY <1>1, <1>2, PTL DEF Spec

-----------------------------------------------------------------------------
(* The pause counter *)

\* Who uploads or cancels has a session that was opened.
UsersHaveSessions ==
    /\ \A b \in Calls : call[b].pc # "idle" => call[b].session \in Opened
    /\ \A c \in Cancels : cancel[c].pc # "idle" => cancel[c].session \in Opened

PauseInv == UsersHaveSessions /\ PauseIsGivenBack

LEMMA OwingFinite == IsFiniteSet(Owing) /\ Cardinality(Owing) \in Nat
<1>1. Owing \subseteq Sessions
  BY DEF Owing, Opened
<1>2. QED
  BY <1>1, ConstantsAssumption, FS_Subset, FS_CardinalityType

\* A step after which all sessions still owe, or all but one and the counter went down.
LEMMA GivingBack ==
    ASSUME TypeOK, PauseIsGivenBack, IsFiniteSet(Owing'), NEW s,
           \/ Owing \subseteq Owing' /\ scanPauseCount' <= scanPauseCount
           \/ Owing \ {s} \subseteq Owing' /\ scanPauseCount' = scanPauseCount - 1,
           scanPauseCount' \in Int
    PROVE  PauseIsGivenBack'
<1>1. /\ scanPauseCount <= Cardinality(Owing) /\ scanPauseCount \in Int
      /\ Cardinality(Owing) \in Nat /\ IsFiniteSet(Owing)
      /\ Cardinality(Owing') \in Nat
  BY OwingFinite, FS_CardinalityType DEF PauseIsGivenBack, TypeOK
<1>2. CASE Owing \subseteq Owing' /\ scanPauseCount' <= scanPauseCount
  <2>1. Cardinality(Owing) <= Cardinality(Owing')
    BY <1>2, FS_Subset
  <2>2. QED
    BY <1>1, <1>2, <2>1 DEF PauseIsGivenBack
<1>3. CASE Owing \ {s} \subseteq Owing' /\ scanPauseCount' = scanPauseCount - 1
  <2>1. Cardinality(Owing \ {s}) <= Cardinality(Owing')
    BY <1>3, FS_Subset
  <2>2. Cardinality(Owing) - 1 <= Cardinality(Owing \ {s})
    <3>1. CASE s \in Owing
      <4>1. Cardinality(Owing \ {s}) = Cardinality(Owing) - 1
        BY <1>1, <3>1, FS_RemoveElement
      <4>2. QED
        BY <1>1, <4>1
    <3>2. CASE s \notin Owing
      <4>1. Owing \ {s} = Owing
        BY <3>2
      <4>2. QED
        BY <1>1, <4>1
    <3>3. QED
      BY <3>1, <3>2
  <2>3. Cardinality(Owing \ {s}) \in Nat
    BY <1>1, FS_Subset, FS_CardinalityType
  <2>4. QED
    BY <1>1, <1>3, <2>1, <2>2, <2>3 DEF PauseIsGivenBack
<1>4. QED
  BY <1>2, <1>3

\* The batch that gives a session back resumes scanning.
LEMMA CallGivesBack ==
    ASSUME TypeOK, NEW b \in Calls, CallArrive(b) \/ CallStep(b) \/ Receive(b),
           call'[b].kind = "batch", call'[b].pc = "done",
           call'[b].status \in {"OK", "MultiStatus", "InternalServerError"}
    PROVE  ResumeScan
<1>1. call \in [Calls -> Call] /\ call[b] \in Call
  BY DEF TypeOK
<1>2. CASE CallArrive(b)
  <2>1. PICK s \in Sessions, kind \in {"single", "batch"}, files \in SUBSET Files,
             status \in {"none", "Conflict", "NotFound"} :
          Turn(b, [call[b] EXCEPT !.pc = IF status = "none" THEN "session" ELSE "done",
                                  !.status = status, !.kind = kind,
                                  !.session = s, !.files = files])
    BY <1>2 DEF CallArrive, FirstChecks
  <2>2. call'[b].status = status
    BY <1>1, <2>1 DEF Turn, Call
  <2>3. QED
    BY <2>2
<1>3. CASE CallSession(b)
  <2>1. ASSUME NEW status \in {"NotFound", "Forbidden"}, Refused(b, status)
        PROVE  call'[b].status = status
    BY <1>1, <2>1 DEF Refused, Turn, Call
  <2>2. ASSUME Goes(b, "context") PROVE call'[b].pc = "context"
    BY <1>1, <2>2 DEF Goes, Turn, Call
  <2>3. QED
    BY <1>3, <2>1, <2>2 DEF CallSession
<1>4. CASE CallContext(b)
  BY <1>1, <1>4 DEF CallContext, Turn, Call
<1>5. ASSUME NEW f, Fails(b, f) PROVE call'[b].pc # "done"
  BY <1>1, <1>5 DEF Fails, Turn, Call
<1>6. CASE CallNext(b)
  <2>1. ASSUME NEW f \in Todo(b), Turn(b, [call[b] EXCEPT !.pc = "send", !.file = f])
        PROVE  call'[b].pc # "done"
    BY <1>1, <2>1 DEF Turn, Call
  <2>2. ASSUME Goes(b, "finish") PROVE call'[b].pc # "done"
    BY <1>1, <2>2 DEF Goes, Turn, Call
  <2>3. QED
    BY <1>5, <1>6, <2>1, <2>2 DEF CallNext
<1>7. CASE CallSend(b)
  <2>1. ASSUME Goes(b, "reply") PROVE call'[b].pc # "done"
    BY <1>1, <2>1 DEF Goes, Turn, Call
  <2>2. QED
    BY <1>5, <1>7, <2>1 DEF CallSend
<1>8. CASE CallReply(b)
  <2>1. ASSUME Succeeds(b) PROVE call'[b].pc # "done"
    BY <1>1, <2>1 DEF Succeeds, Turn, Call
  <2>2. QED
    BY <1>5, <1>8, <2>1 DEF CallReply
<1>9. CASE CallFinish(b)
  BY <1>1, <1>9 DEF CallFinish, Turn, Call
<1>10. CASE Receive(b)
  BY <1>1, <1>10 DEF Receive, Turn, Call
<1>11. QED
  BY <1>2, <1>3, <1>4, <1>6, <1>7, <1>8, <1>9, <1>10 DEF CallStep

\* PauseInv survives the steps of calls,
LEMMA CallKeepsPauseInv ==
    ASSUME TypeOK, TypeOK', PauseInv, NEW b \in Calls,
           CallArrive(b) \/ CallStep(b) \/ Receive(b)
    PROVE  PauseInv'
<1>1. Opened' = Opened /\ cancel' = cancel
  BY CallEffects DEF sessionVars, Opened
<1>2. PICK r \in Call :
        /\ Turn(b, r)
        /\ call[b].pc # "idle" => r.session = call[b].session
        /\ call[b].pc = "idle" => r.session \in Opened
  BY CallTurns
<1>3. call'[b] = r /\ \A d \in Calls \ {b} : call'[d] = call[d]
  BY <1>2, Turns
<1>4. UsersHaveSessions'
  BY <1>1, <1>2, <1>3 DEF PauseInv, UsersHaveSessions
<1>5. ResumeScan \/ UNCHANGED scanPauseCount
  BY CallEffects
<1>6. ASSUME NEW s \in Owing, s # r.session \/ ~ResumeScan
      PROVE  s \in Owing'
  <2>1. s \in Opened' /\ ~GivenBack(s)
    BY <1>1 DEF Owing
  <2>2. CASE ~GivenBack(s)'
    BY <2>1, <2>2 DEF Owing
  <2>3. CASE GivenBack(s)'
    <3>1. /\ call'[b].session = s /\ call'[b].kind = "batch" /\ call'[b].pc = "done"
          /\ call'[b].status \in {"OK", "MultiStatus", "InternalServerError"}
      BY <1>1, <1>3, <2>1, <2>3 DEF GivenBack
    <3>2. ResumeScan
      BY <3>1, CallGivesBack
    <3>3. QED
      BY <1>3, <1>6, <3>1, <3>2
  <2>4. QED
    BY <2>2, <2>3
<1>7. IsFiniteSet(Owing')
  <2>1. Owing' \subseteq Sessions
    BY DEF Owing, Opened
  <2>2. QED
    BY <2>1, ConstantsAssumption, FS_Subset
<1>8. CASE ResumeScan
  <2>1. Owing \ {r.session} \subseteq Owing' /\ scanPauseCount' = scanPauseCount - 1
    BY <1>6, <1>8 DEF ResumeScan
  <2>2. QED
    BY <1>4, <1>7, <2>1, GivingBack DEF PauseInv, TypeOK
<1>9. CASE ~ResumeScan
  <2>1. Owing \subseteq Owing' /\ scanPauseCount' <= scanPauseCount
    BY <1>5, <1>6, <1>9 DEF TypeOK
  <2>2. QED
    BY <1>4, <1>7, <2>1, GivingBack DEF PauseInv, TypeOK
<1>10. QED
  BY <1>8, <1>9

\* and those of cancels.
LEMMA CancelKeepsPauseInv ==
    ASSUME TypeOK, TypeOK', PauseInv, NEW c \in Cancels, CancelStep(c)
    PROVE  PauseInv'
<1>1. Opened' = Opened /\ call' = call
  BY DEF CancelStep, CancelArrive, CancelDestroy, CancelResume, CancelTell, sessionVars, Opened
<1>2. /\ cancel \in [Cancels -> Cancel]
      /\ cancel[c].pc # "idle" => cancel[c].session \in Opened
  BY DEF TypeOK, PauseInv, UsersHaveSessions
<1>3. /\ cancel'[c].session \in Opened
      /\ \A d \in Cancels \ {c} : cancel'[d] = cancel[d]
      /\ cancel'[c].pc \in {"tell", "done"} =>
           \/ cancel[c].pc = "tell" /\ cancel[c].session = cancel'[c].session
           \/ ResumeScan
      /\ ResumeScan \/ UNCHANGED scanPauseCount
  <2>1. CASE CancelArrive(c)
    <3>1. PICK s \in Sessions :
            /\ prepare[s] = "open"
            /\ cancel' = [cancel EXCEPT ![c] =
                 IF s \in UserUploadSessions THEN [pc |-> "destroy", session |-> s]
                                             ELSE [pc |-> "missed", session |-> s]]
      BY <2>1 DEF CancelArrive
    <3>2. cancel'[c].session = s /\ cancel'[c].pc \in {"destroy", "missed"}
      BY <1>2, <3>1
    <3>3. QED
      BY <1>2, <2>1, <3>1, <3>2 DEF CancelArrive, Opened
  <2>2. CASE CancelDestroy(c)
    BY <1>2, <2>2 DEF CancelDestroy, Cancel
  <2>3. CASE CancelResume(c)
    BY <1>2, <2>3 DEF CancelResume, Cancel
  <2>4. CASE CancelTell(c)
    BY <1>2, <2>4 DEF CancelTell, Cancel
  <2>5. QED
    BY <2>1, <2>2, <2>3, <2>4 DEF CancelStep
<1>4. UsersHaveSessions'
  BY <1>1, <1>3 DEF PauseInv, UsersHaveSessions
<1>5. ASSUME NEW s \in Owing, s # cancel'[c].session \/ ~ResumeScan
      PROVE  s \in Owing'
  BY <1>1, <1>3, <1>5 DEF Owing, GivenBack
<1>6. IsFiniteSet(Owing')
  <2>1. Owing' \subseteq Sessions
    BY DEF Owing, Opened
  <2>2. QED
    BY <2>1, ConstantsAssumption, FS_Subset
<1>7. CASE ResumeScan
  <2>1. Owing \ {cancel'[c].session} \subseteq Owing' /\ scanPauseCount' = scanPauseCount - 1
    BY <1>5, <1>7 DEF ResumeScan
  <2>2. QED
    BY <1>4, <1>6, <2>1, GivingBack DEF PauseInv, TypeOK
<1>8. CASE ~ResumeScan
  <2>1. Owing \subseteq Owing' /\ scanPauseCount' <= scanPauseCount
    BY <1>3, <1>5, <1>8 DEF TypeOK
  <2>2. QED
    BY <1>4, <1>6, <2>1, GivingBack DEF PauseInv, TypeOK
<1>9. QED
  BY <1>7, <1>8

\* A session that is opened owes its pause: nobody has used it yet.
LEMMA OpenKeepsPauseInv ==
    ASSUME TypeOK, PauseInv, NEW s \in Sessions, PrepareOpen(s)
    PROVE  PauseInv'
<1>1. Opened' = Opened \cup {s} /\ s \notin Opened
  BY DEF PrepareOpen, Opened, TypeOK
<1>2. UNCHANGED <<call, cancel>>
  BY DEF PrepareOpen
<1>3. UsersHaveSessions'
  BY <1>1, <1>2 DEF PauseInv, UsersHaveSessions
<1>4. ~GivenBack(s)
  BY <1>1 DEF PauseInv, UsersHaveSessions, GivenBack
<1>5. Owing' = Owing \cup {s} /\ s \notin Owing
  BY <1>1, <1>2, <1>4 DEF Owing, GivenBack
<1>6. Cardinality(Owing') = Cardinality(Owing) + 1
  BY <1>5, OwingFinite, FS_AddElement
<1>7. PauseIsGivenBack'
  BY <1>6, OwingFinite DEF PrepareOpen, PauseInv, PauseIsGivenBack, TypeOK
<1>8. QED
  BY <1>3, <1>7 DEF PauseInv

\* A session that ended in a batch or a cancel keeps no pause, whatever failed.
THEOREM PausesGivenBack == Spec => []PauseIsGivenBack
<1>1. Init => PauseInv
  <2> SUFFICES ASSUME Init PROVE PauseInv
    OBVIOUS
  <2>1. Owing = {} /\ scanPauseCount = 0
    BY DEF Init, Owing, Opened
  <2>2. UsersHaveSessions
    BY DEF Init, UsersHaveSessions
  <2>3. QED
    BY <2>1, <2>2, FS_EmptySet DEF PauseInv, PauseIsGivenBack
<1>2. TypeOK /\ TypeOK' /\ PauseInv /\ [Next]_vars => PauseInv'
  <2> SUFFICES ASSUME TypeOK, TypeOK', PauseInv, [Next]_vars PROVE PauseInv'
    OBVIOUS
  <2>1. CASE UNCHANGED <<scanPauseCount, call, cancel>> /\ Opened' = Opened
    BY <2>1 DEF PauseInv, UsersHaveSessions, PauseIsGivenBack, Owing, GivenBack
  <2>2. ASSUME NEW s \in Sessions, PrepareAsk(s) \/ PrepareFail(s) \/ Accept(s) \/ Expire(s)
        PROVE  PauseInv'
    BY <2>1, <2>2 DEF PrepareAsk, PrepareFail, Accept, Expire, sessionVars, Opened, TypeOK
  <2>3. CASE UNCHANGED vars
    BY <2>1, <2>3 DEF vars, sessionVars, Opened
  <2>4. QED
    BY <2>2, <2>3, OpenKeepsPauseInv, CallKeepsPauseInv, CancelKeepsPauseInv
       DEF Next, PrepareStep
<1>3. PauseInv => PauseIsGivenBack
  BY DEF PauseInv
<1>4. QED
  BY <1>1, <1>2, <1>3, TypeCorrect, PTL DEF Spec

-----------------------------------------------------------------------------
(* What the user is told *)

\* A call knows of each file what became of it.
Accounted(b) ==
    LET r == call[b] IN
    /\ r.sent \subseteq r.files /\ r.failed \subseteq r.files /\ r.sent \cap r.failed = {}
    /\ r.kind = "single" => \A f, g \in r.files : f = g
    /\ r.pc \in {"idle", "session", "context"} => r.sent = {} /\ r.failed = {}
    /\ r.pc \in {"send", "reply"} => r.file \in Todo(b)
    /\ r.pc # "reply" => r.reply = "none"
    /\ r.pc # "done" => r.status = "none"

\* What is counted as sent, or about to be, the receiver has kept.
Kept(b) ==
    LET r == call[b] IN
    r.session \in Sessions =>
      /\ r.sent \subseteq kept[r.session]
      /\ r.pc = "reply" /\ r.reply = "success" => r.file \in kept[r.session]

\* A call ends when every file is accounted for, or one has failed after a cancel.
Through(b) ==
    LET r == call[b] IN
    \/ r.sent \cup r.failed = r.files
    \/ r.failed # {} /\ r.session \in cancelled

\* The status agrees with the account, and is given only when the call is through.
Told(b) ==
    LET r == call[b] IN
    /\ r.pc = "finish" => Through(b)
    /\ r.status = "OK" => r.sent = r.files
    /\ r.status = "InternalServerError" => r.sent = {}
    /\ r.status \in {"OK", "MultiStatus", "InternalServerError"} =>
         r.sent \cup r.failed = r.files \/ r.session \in cancelled

ResultInv == \A b \in Calls : Accounted(b) /\ Kept(b) /\ Told(b)

\* A call whose record stays is told nothing else when the receiver keeps more files and
\* more sessions are cancelled.
LEMMA ResultFrame ==
    ASSUME TypeOK, NEW b \in Calls, Accounted(b), Kept(b), Told(b), call'[b] = call[b],
           cancelled \subseteq cancelled', \A s \in Sessions : kept[s] \subseteq kept'[s]
    PROVE  Accounted(b)' /\ Kept(b)' /\ Told(b)'
<1>1. Accounted(b)'
  BY DEF Accounted, Todo
<1>2. Kept(b)'
  BY DEF Kept
<1>3. Told(b)'
  BY DEF Told, Through
<1>4. QED
  BY <1>1, <1>2, <1>3

\* The call that takes a step.
LEMMA ResultTurn ==
    ASSUME TypeOK, NEW b \in Calls, Accounted(b), Kept(b), Told(b),
           CallArrive(b) \/ CallStep(b) \/ Receive(b)
    PROVE  Accounted(b)' /\ Kept(b)' /\ Told(b)'
<1>1. /\ call \in [Calls -> Call] /\ call[b] \in Call
      /\ call[b].pc \notin {"idle", "done"} => call[b].session \in Sessions
      /\ kept \in [Sessions -> SUBSET Files]
  BY DEF TypeOK
<1>2. /\ cancelled' = cancelled
      /\ kept' \in [Sessions -> SUBSET Files] /\ \A s \in Sessions : kept[s] \subseteq kept'[s]
  BY CallEffects DEF sessionVars
<1> DEFINE q == call[b]
<1>3. q = call[b] /\ q \in Call
  BY <1>1
<1>5. CASE CallArrive(b)
  <2>1. PICK s \in Sessions, kind \in {"single", "batch"}, files \in SUBSET Files :
          /\ kind = "single" => \E f \in Files : files = {f}
          /\ \E status \in FirstChecks(s, kind) :
               Turn(b, [call[b] EXCEPT !.pc = IF status = "none" THEN "session" ELSE "done",
                                       !.status = status, !.kind = kind,
                                       !.session = s, !.files = files])
    BY <1>5 DEF CallArrive
  <2>2. PICK status \in {"none", "Conflict", "NotFound"} :
          Turn(b, [call[b] EXCEPT !.pc = IF status = "none" THEN "session" ELSE "done",
                                  !.status = status, !.kind = kind,
                                  !.session = s, !.files = files])
    BY <2>1 DEF FirstChecks
  <2> DEFINE r == [call[b] EXCEPT !.pc = IF status = "none" THEN "session" ELSE "done",
                                  !.status = status, !.kind = kind,
                                  !.session = s, !.files = files]
  <2>3. /\ r.pc = IF status = "none" THEN "session" ELSE "done"
        /\ r.status = status /\ r.kind = kind /\ r.files = files
        /\ r.sent = call[b].sent /\ r.failed = call[b].failed /\ r.reply = call[b].reply
    BY <1>1 DEF Call
  <2>4. call'[b] = r
    BY <1>1, <2>2 DEF Turn
  <2> HIDE DEF r
  <2>5. call[b].pc = "idle"
    BY <1>5 DEF CallArrive
  <2>6. call[b].sent = {} /\ call[b].failed = {} /\ call[b].reply = "none"
    BY <2>5 DEF Accounted
  <2>7. Accounted(b)'
    BY <2>1, <2>2, <2>3, <2>4, <2>6 DEF Accounted
  <2>8. Kept(b)' /\ Told(b)'
    BY <2>2, <2>3, <2>4, <2>6 DEF Kept, Told
  <2>9. QED
    BY <2>7, <2>8
<1>6. ASSUME NEW pc \in {"context", "finish", "reply"}, Goes(b, pc),
             call[b].pc \in {"session", "next", "send"},
             pc = "context" => call[b].pc = "session",
             pc = "reply" => call[b].pc = "send",
             pc = "finish" => Todo(b) = {}
      PROVE  Accounted(b)' /\ Kept(b)' /\ Told(b)'
  <2>1. /\ call'[b].pc = pc /\ call'[b].kind = q.kind /\ call'[b].session = q.session
        /\ call'[b].files = q.files /\ call'[b].sent = q.sent /\ call'[b].failed = q.failed
        /\ call'[b].file = q.file /\ call'[b].reply = q.reply /\ call'[b].status = q.status
    BY <1>1, <1>6 DEF Goes, Turn, Call
  <2>2. Accounted(b)'
    BY <1>6, <2>1 DEF Accounted, Todo
  <2>3. Kept(b)'
    BY <1>2, <1>6, <2>1 DEF Kept, Accounted
  <2>4. Told(b)'
    BY <1>2, <1>6, <2>1 DEF Told, Through, Todo, Accounted
  <2>5. QED
    BY <2>2, <2>3, <2>4
<1>7. ASSUME NEW f \in Todo(b), Fails(b, f), call[b].pc \in {"next", "send", "reply"}
      PROVE  Accounted(b)' /\ Kept(b)' /\ Told(b)'
  <2>1. /\ call'[b].pc = (IF Done(b) THEN "finish" ELSE "next")
        /\ call'[b].kind = q.kind /\ call'[b].session = q.session
        /\ call'[b].files = q.files /\ call'[b].sent = q.sent
        /\ call'[b].failed = q.failed \cup {f}
        /\ call'[b].reply = "none" /\ call'[b].status = q.status
    BY <1>1, <1>7 DEF Fails, Turn, Call
  <2>2. Accounted(b)'
    BY <1>7, <2>1 DEF Accounted, Todo
  <2>3. Kept(b)'
    BY <1>2, <1>7, <2>1 DEF Kept
  <2>4. Told(b)'
    BY <1>2, <1>7, <2>1 DEF Told, Through, Done, Accounted
  <2>5. QED
    BY <2>2, <2>3, <2>4
<1>8. CASE CallSession(b)
  <2>1. call[b].pc = "session"
    BY <1>8 DEF CallSession
  <2>2. CASE Goes(b, "context")
    BY <1>6, <2>1, <2>2
  <2>3. ASSUME NEW status \in {"NotFound", "Forbidden"}, Refused(b, status)
        PROVE  Accounted(b)' /\ Kept(b)' /\ Told(b)'
    <3>1. /\ call'[b].pc = "done" /\ call'[b].kind = q.kind /\ call'[b].session = q.session
          /\ call'[b].files = q.files /\ call'[b].sent = q.sent /\ call'[b].failed = q.failed
          /\ call'[b].reply = q.reply /\ call'[b].status = status
      BY <1>1, <2>3 DEF Refused, Turn, Call
    <3>2. Accounted(b)' /\ Told(b)'
      BY <2>1, <2>3, <3>1 DEF Accounted, Told
    <3>3. Kept(b)'
      BY <1>2, <2>1, <3>1 DEF Accounted, Kept
    <3>4. QED
      BY <3>2, <3>3
  <2>4. CASE Refused(b, "NotFound") \/ Refused(b, "Forbidden")
    BY <2>3, <2>4
  <2>5. QED
    BY <1>8, <2>2, <2>4 DEF CallSession
<1>9. CASE CallContext(b)
  <2>1. /\ call'[b].pc = "next" /\ call'[b].kind = q.kind /\ call'[b].session = q.session
        /\ call'[b].files = q.files /\ call'[b].sent = q.sent /\ call'[b].failed = q.failed
        /\ call'[b].reply = q.reply /\ call'[b].status = q.status
    BY <1>1, <1>9 DEF CallContext, Turn, Call
  <2>2. call[b].pc = "context"
    BY <1>9 DEF CallContext
  <2>3. Accounted(b)' /\ Kept(b)' /\ Told(b)'
    BY <1>2, <2>1, <2>2 DEF Accounted, Kept, Told
  <2>4. QED
    BY <2>3
<1>10. CASE CallNext(b)
  <2>1. call[b].pc = "next"
    BY <1>10 DEF CallNext
  <2>2. CASE Todo(b) = {} /\ Goes(b, "finish")
    BY <1>6, <2>1, <2>2
  <2>3. ASSUME NEW f \in Todo(b), Fails(b, f)
        PROVE  Accounted(b)' /\ Kept(b)' /\ Told(b)'
    BY <1>7, <2>1, <2>3
  <2>4. ASSUME NEW f \in Todo(b), Turn(b, [call[b] EXCEPT !.pc = "send", !.file = f])
        PROVE  Accounted(b)' /\ Kept(b)' /\ Told(b)'
    <3>1. /\ call'[b].pc = "send" /\ call'[b].kind = q.kind /\ call'[b].session = q.session
          /\ call'[b].files = q.files /\ call'[b].sent = q.sent /\ call'[b].failed = q.failed
          /\ call'[b].file = f /\ call'[b].reply = q.reply /\ call'[b].status = q.status
      BY <1>1, <2>4 DEF Turn, Call
    <3>2. Accounted(b)'
      BY <2>1, <3>1 DEF Accounted, Todo
    <3>3. Kept(b)' /\ Told(b)'
      BY <1>2, <2>1, <3>1 DEF Accounted, Kept, Told
    <3>4. QED
      BY <3>2, <3>3
  <2>5. QED
    BY <1>10, <2>2, <2>3, <2>4 DEF CallNext
<1>11. CASE CallSend(b)
  <2>1. call[b].pc = "send" /\ call[b].file \in Todo(b)
    BY <1>11 DEF CallSend, Accounted
  <2>2. QED
    BY <1>6, <1>7, <1>11, <2>1 DEF CallSend
<1>12. CASE CallReply(b)
  <2>1. call[b].pc = "reply" /\ call[b].file \in Todo(b)
    BY <1>12 DEF CallReply, Accounted
  <2>2. CASE Fails(b, call[b].file)
    BY <1>7, <2>1, <2>2
  <2>3. CASE call[b].reply = "success" /\ Succeeds(b)
    <3>1. /\ call'[b].pc = "next" /\ call'[b].kind = q.kind /\ call'[b].session = q.session
          /\ call'[b].files = q.files /\ call'[b].sent = q.sent \cup {q.file}
          /\ call'[b].failed = q.failed
          /\ call'[b].reply = "none" /\ call'[b].status = q.status
      BY <1>1, <2>3 DEF Succeeds, Turn, Call
    <3>2. Accounted(b)'
      BY <2>1, <3>1 DEF Accounted, Todo
    <3>3. Kept(b)'
      BY <1>2, <2>1, <2>3, <3>1 DEF Kept
    <3>4. Told(b)'
      BY <2>1, <3>1 DEF Told, Accounted
    <3>5. QED
      BY <3>2, <3>3, <3>4
  <2>4. QED
    BY <1>12, <2>2, <2>3 DEF CallReply
<1>13. CASE CallFinish(b)
  <2>1. call[b].pc = "finish" /\ Through(b)
    BY <1>13 DEF CallFinish, Told
  <2>2. /\ call'[b].pc = "done" /\ call'[b].kind = q.kind /\ call'[b].session = q.session
        /\ call'[b].files = q.files /\ call'[b].sent = q.sent /\ call'[b].failed = q.failed
        /\ call'[b].reply = q.reply /\ call'[b].status = Result(b)
    BY <1>1, <1>13 DEF CallFinish, Turn, Call
  <2>3. Accounted(b)' /\ Kept(b)'
    BY <1>2, <2>1, <2>2 DEF Accounted, Kept
  <2>4. /\ Result(b) = "OK" => q.failed = {}
        /\ Result(b) = "InternalServerError" => q.failed # {} /\ (q.kind = "single" \/ q.failed = q.files)
    BY DEF Result
  <2>5. Result(b) = "OK" => q.sent = q.files
    BY <2>1, <2>4 DEF Through
  <2>6. Result(b) = "InternalServerError" => q.sent = {}
    <3>1. q.kind \in {"single", "batch"}
      BY <1>3 DEF Call
    <3>2. QED
      BY <2>4 DEF Accounted
  <2>7. q.sent \cup q.failed = q.files \/ q.session \in cancelled
    BY <2>1 DEF Through
  <2>8. Told(b)'
    BY <1>2, <2>2, <2>5, <2>6, <2>7 DEF Told
  <2>9. QED
    BY <2>3, <2>8
<1>14. CASE Receive(b)
  <2>1. call[b].pc = "reply"
    BY <1>14 DEF Receive
  <2>2. PICK x \in {"success", "error"} :
          /\ Turn(b, [call[b] EXCEPT !.reply = x])
          /\ x = "success" => kept' = [kept EXCEPT ![call[b].session] = @ \cup {call[b].file}]
    BY <1>14 DEF Receive
  <2>3. /\ call'[b].pc = "reply" /\ call'[b].kind = q.kind /\ call'[b].session = q.session
        /\ call'[b].files = q.files /\ call'[b].sent = q.sent /\ call'[b].failed = q.failed
        /\ call'[b].file = q.file /\ call'[b].reply = x /\ call'[b].status = q.status
    BY <1>1, <2>1, <2>2 DEF Turn, Call
  <2>4. Accounted(b)' /\ Told(b)'
    BY <1>2, <2>1, <2>3 DEF Accounted, Told, Todo
  <2>5. Kept(b)'
    BY <1>1, <1>2, <2>1, <2>2, <2>3 DEF Kept
  <2>6. QED
    BY <2>4, <2>5
<1>15. QED
  BY <1>5, <1>8, <1>9, <1>10, <1>11, <1>12, <1>13, <1>14 DEF CallStep

\* What the user is told of an upload or a batch is true.
THEOREM ResultsHonest == Spec => []ResultIsHonest
<1>1. Init => ResultInv
  <2> SUFFICES ASSUME Init, NEW b \in Calls PROVE Accounted(b) /\ Kept(b) /\ Told(b)
    BY DEF ResultInv
  <2>1. /\ call[b].pc = "idle" /\ call[b].kind = "single" /\ call[b].files = {}
        /\ call[b].sent = {} /\ call[b].failed = {}
        /\ call[b].reply = "none" /\ call[b].status = "none"
        /\ call[b].session = NoSession
    BY DEF Init
  <2>2. QED
    BY <2>1, ConstantsAssumption DEF Accounted, Kept, Told, Through
<1>2. TypeOK /\ ResultInv /\ [Next]_vars => ResultInv'
  <2> SUFFICES ASSUME TypeOK, ResultInv, [Next]_vars, NEW d \in Calls
               PROVE  Accounted(d)' /\ Kept(d)' /\ Told(d)'
    BY DEF ResultInv
  <2>1. Accounted(d) /\ Kept(d) /\ Told(d)
    BY DEF ResultInv
  <2>2. ASSUME NEW b \in Calls, CallArrive(b) \/ CallStep(b) \/ Receive(b)
        PROVE  Accounted(d)' /\ Kept(d)' /\ Told(d)'
    <3>1. CASE d = b
      BY <2>1, <2>2, <3>1, ResultTurn
    <3>2. CASE d # b
      <4>1. call'[d] = call[d]
        BY <2>2, <3>2, CallTurns, Turns
      <4>2. cancelled' = cancelled /\ \A s \in Sessions : kept[s] \subseteq kept'[s]
        BY <2>2, CallEffects DEF sessionVars
      <4>3. QED
        BY <2>1, <4>1, <4>2, ResultFrame
    <3>3. QED
      BY <3>1, <3>2
  <2>3. CASE UNCHANGED <<call, kept>> /\ cancelled \subseteq cancelled'
    BY <2>1, <2>3, ResultFrame
  <2>4. ASSUME NEW s \in Sessions, PrepareStep(s) \/ Accept(s) \/ Expire(s)
        PROVE  UNCHANGED <<call, kept>> /\ cancelled \subseteq cancelled'
    BY <2>4 DEF PrepareStep, PrepareAsk, PrepareOpen, PrepareFail, Accept, Expire,
         sessionVars, receiverVars
  <2>5. ASSUME NEW c \in Cancels, CancelStep(c)
        PROVE  UNCHANGED <<call, kept>> /\ cancelled \subseteq cancelled'
    BY <2>5 DEF CancelStep, CancelArrive, CancelDestroy, CancelResume, CancelTell,
         sessionVars, receiverVars
  <2>6. CASE UNCHANGED vars
    BY <2>3, <2>6 DEF vars, sessionVars, receiverVars
  <2>7. QED
    BY <2>2, <2>3, <2>4, <2>5, <2>6 DEF Next
<1>3. ResultInv => ResultIsHonest
  BY DEF ResultInv, Accounted, Kept, Told, ResultIsHonest
<1>4. QED
  BY <1>1, <1>2, <1>3, TypeCorrect, PTL DEF Spec

=============================================================================
