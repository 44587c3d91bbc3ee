---------------------------- MODULE SendSession ----------------------------
(***************************************************************************)
(* Sending files: the user asks a receiver for a session, uploads files of *)
(* it one by one or in a batch, and may cancel.  All of these are requests *)
(* to this program, which keeps the session, its context and the pause of  *)
(* scanning, and calls the receiver.                                       *)
(*                                                                         *)
(* The receiver, here any peer, may refuse or fail at any time; it answers *)
(* an upload with success only after it has kept the file.  A call to it   *)
(* may get lost, its reply too, and the client gives up after 30 s.        *)
(*                                                                         *)
(* A request to prepare an upload stands for the session it may get, whose *)
(* id is new; nobody knows the id before the reply, so what is done for it *)
(* until then is one step.                                                 *)
(***************************************************************************)
EXTENDS Integers, FiniteSets

CONSTANTS
    Sessions,   \* requests for a session
    Files,      \* files, by their ids
    Calls,      \* uploads and batches of the user
    Cancels,    \* cancels of the user
    Expiry,     \* may cache entries expire?
    NoSession,  \* null value
    NoFile      \* null value

ASSUME ConstantsAssumption ==
    /\ IsFiniteSet(Sessions)
    /\ Expiry \in BOOLEAN
    /\ NoSession \notin Sessions
    /\ NoFile \notin Files

VARIABLES
    prepare,                    \* where each request for a session is
    offered,                    \* its files, which get a token if it is accepted
    UserUploadSessions,         \* cached sessions
    userUploadSessionContexts,  \* sessions with a cached context
    cancelled,                  \* sessions whose context is cancelled
    scanPauseCount,             \* the reference counter of paused scans
    call,                       \* the uploads and batches
    cancel,                     \* the cancels
    accepted,                   \* sessions the receiver has made
    kept                        \* files of each session the receiver has kept

sessionVars == <<prepare, offered, UserUploadSessions, userUploadSessionContexts, cancelled>>
receiverVars == <<accepted, kept>>
vars == <<sessionVars, scanPauseCount, call, cancel, receiverVars>>

Statuses == {"none", "OK", "MultiStatus", "Forbidden", "NotFound", "Conflict",
             "InternalServerError"}

Call == [pc : {"idle", "session", "context", "next", "send", "reply", "finish", "done"},
         kind : {"single", "batch"},
         session : Sessions \cup {NoSession},
         context : {"session", "background"},
         files : SUBSET Files,
         sent : SUBSET Files,
         failed : SUBSET Files,
         file : Files \cup {NoFile},
         reply : {"none", "success", "error"},
         status : Statuses]

Cancel == [pc : {"idle", "destroy", "resume", "tell", "done", "missed"},
           session : Sessions \cup {NoSession}]

TypeOK ==
    /\ prepare \in [Sessions -> {"idle", "ask", "open", "failed"}]
    /\ offered \in [Sessions -> SUBSET Files]
    /\ UserUploadSessions \subseteq Sessions
    /\ userUploadSessionContexts \subseteq Sessions
    /\ cancelled \subseteq Sessions
    /\ scanPauseCount \in Int
    /\ call \in [Calls -> Call]
    /\ \A b \in Calls : call[b].pc \notin {"idle", "done"} => call[b].session \in Sessions
    /\ \A b \in Calls : call[b].pc \in {"send", "reply"} => call[b].file \in Files
    /\ cancel \in [Cancels -> Cancel]
    /\ \A c \in Cancels : cancel[c].pc # "idle" => cancel[c].session \in Sessions
    /\ accepted \subseteq Sessions
    /\ kept \in [Sessions -> SUBSET Files]

Init ==
    /\ prepare = [s \in Sessions |-> "idle"]
    /\ offered = [s \in Sessions |-> {}]
    /\ UserUploadSessions = {} /\ userUploadSessionContexts = {} /\ cancelled = {}
    /\ scanPauseCount = 0
    /\ call = [b \in Calls |->
                 [pc |-> "idle", kind |-> "single", session |-> NoSession,
                  context |-> "session", files |-> {}, sent |-> {}, failed |-> {},
                  file |-> NoFile, reply |-> "none", status |-> "none"]]
    /\ cancel = [c \in Cancels |-> [pc |-> "idle", session |-> NoSession]]
    /\ accepted = {} /\ kept = [s \in Sessions |-> {}]

\* The counter goes down whoever calls, and however often.
ResumeScan == scanPauseCount' = scanPauseCount - 1

-----------------------------------------------------------------------------
(* UserPrepareUpload *)

\* A request whose target and files are in order is sent to the receiver.
PrepareAsk(s) ==
    /\ prepare[s] = "idle"
    /\ \E files \in SUBSET Files \ {{}} : offered' = [offered EXCEPT ![s] = files]
    /\ prepare' = [prepare EXCEPT ![s] = "ask"]
    /\ UNCHANGED <<UserUploadSessions, userUploadSessionContexts, cancelled, scanPauseCount,
                   call, cancel, receiverVars>>

\* PauseScan, and the session and its context are cached.
PrepareOpen(s) ==
    /\ prepare[s] = "ask" /\ s \in accepted
    /\ prepare' = [prepare EXCEPT ![s] = "open"]
    /\ scanPauseCount' = scanPauseCount + 1
    /\ UserUploadSessions' = UserUploadSessions \cup {s}
    /\ userUploadSessionContexts' = userUploadSessionContexts \cup {s}
    /\ UNCHANGED <<offered, cancelled, call, cancel, receiverVars>>

\* Refused, no transfer needed, or no reply: the receiver may have made a session.
PrepareFail(s) ==
    /\ prepare[s] = "ask"
    /\ prepare' = [prepare EXCEPT ![s] = "failed"]
    /\ UNCHANGED <<offered, UserUploadSessions, userUploadSessionContexts, cancelled,
                   scanPauseCount, call, cancel, receiverVars>>

-----------------------------------------------------------------------------
(* UserUpload, UserUploadBatch *)

\* The record of the call becomes r.
Turn(b, r) == call' = [call EXCEPT ![b] = r]

Goes(b, pc) == Turn(b, [call[b] EXCEPT !.pc = pc])

\* The request is answered before it has sent anything.
Refused(b, status) == Turn(b, [call[b] EXCEPT !.pc = "done", !.status = status])

\* The context that the call holds has been cancelled.
Done(b) == call[b].context = "session" /\ call[b].session \in cancelled

Todo(b) == call[b].files \ (call[b].sent \cup call[b].failed)

\* What the first checks say of a request: of a batch with folders the session is looked
\* up first; then IsUserUploadSessionCancelled.
FirstChecks(s, kind) ==
    {IF s \in userUploadSessionContexts THEN "none" ELSE "Conflict"}
      \cup (IF kind = "batch" /\ s \notin UserUploadSessions THEN {"NotFound"} ELSE {})

\* One file of a session, or a batch of some.
CallArrive(b) ==
    /\ call[b].pc = "idle"
    /\ \E s \in Sessions, kind \in {"single", "batch"}, files \in SUBSET Files \ {{}} :
         /\ prepare[s] = "open"
         /\ kind = "single" => \E f \in Files : files = {f}
         /\ \E status \in FirstChecks(s, kind) :
              Turn(b, [call[b] EXCEPT !.pc = IF status = "none" THEN "session" ELSE "done",
                                      !.status = status, !.kind = kind,
                                      !.session = s, !.files = files])
    /\ UNCHANGED <<sessionVars, scanPauseCount, cancel, receiverVars>>

\* The session is looked up, and for one file its token.
CallSession(b) ==
    LET s == call[b].session IN
    /\ call[b].pc = "session"
    /\ \/ s \notin UserUploadSessions /\ Refused(b, "NotFound")
       \/ /\ s \in UserUploadSessions
          /\ call[b].kind = "single" /\ ~(call[b].files \subseteq offered[s])
          /\ Refused(b, "Forbidden")
       \/ /\ s \in UserUploadSessions
          /\ call[b].kind = "single" => call[b].files \subseteq offered[s]
          /\ Goes(b, "context")
    /\ UNCHANGED <<sessionVars, scanPauseCount, cancel, receiverVars>>

\* The context is looked up again, and when it is gone the background context is used,
\* which nobody cancels.
CallContext(b) ==
    /\ call[b].pc = "context"
    /\ Turn(b, [call[b] EXCEPT !.pc = "next",
                               !.context = IF call[b].session \in userUploadSessionContexts
                                           THEN "session" ELSE "background"])
    /\ UNCHANGED <<sessionVars, scanPauseCount, cancel, receiverVars>>

\* A file has failed; after a cancel the batch goes no further.
Fails(b, f) ==
    Turn(b, [call[b] EXCEPT !.pc = IF Done(b) THEN "finish" ELSE "next",
                            !.failed = call[b].failed \cup {f},
                            !.file = NoFile, !.reply = "none"])

\* A file has been sent.
Succeeds(b) ==
    Turn(b, [call[b] EXCEPT !.pc = "next",
                            !.sent = call[b].sent \cup {call[b].file},
                            !.file = NoFile, !.reply = "none"])

\* Faulty variant: the file is not taken over.
CallNextUnset(b) ==
    /\ call[b].pc = "next"
    /\ IF Todo(b) = {} THEN Goes(b, "finish") ELSE Goes(b, "send")
    /\ UNCHANGED <<sessionVars, scanPauseCount, cancel, receiverVars>>

\* The next file of the batch, in any order: the context, the token and the content of
\* the file are looked at.  One file is sent as it came.
CallNext(b) ==
    /\ call[b].pc = "next"
    /\ \/ Todo(b) = {} /\ Goes(b, "finish")
       \/ \E f \in Todo(b) :
            \/ call[b].kind = "batch" /\ Fails(b, f)
            \/ /\ call[b].kind = "batch" => ~Done(b) /\ f \in offered[call[b].session]
               /\ Turn(b, [call[b] EXCEPT !.pc = "send", !.file = f])
    /\ UNCHANGED <<sessionVars, scanPauseCount, cancel, receiverVars>>

\* UploadFileWithContext: the context is looked at again, and the request sent.
CallSend(b) ==
    /\ call[b].pc = "send"
    /\ \/ Done(b) /\ Fails(b, call[b].file)
       \/ ~Done(b) /\ Goes(b, "reply")
    /\ UNCHANGED <<sessionVars, scanPauseCount, cancel, receiverVars>>

\* Faulty variants: the status of the reply is not looked at; the client has no timer.
CallReplyAny(b) ==
    /\ call[b].pc = "reply"
    /\ (call[b].reply # "none" /\ Succeeds(b)) \/ Fails(b, call[b].file)
    /\ UNCHANGED <<sessionVars, scanPauseCount, cancel, receiverVars>>

CallReplyWaits(b) ==
    /\ call[b].pc = "reply"
    /\ \/ call[b].reply = "success" /\ Succeeds(b)
       \/ call[b].reply = "error" /\ Fails(b, call[b].file)
    /\ UNCHANGED <<sessionVars, scanPauseCount, cancel, receiverVars>>

\* A reply that says success; or an error reply, a lost reply, the timer of the client,
\* or a cancel of the context.
CallReply(b) ==
    /\ call[b].pc = "reply"
    /\ (call[b].reply = "success" /\ Succeeds(b)) \/ Fails(b, call[b].file)
    /\ UNCHANGED <<sessionVars, scanPauseCount, cancel, receiverVars>>

\* What the user is told.
Result(b) ==
    LET r == call[b] IN
    IF r.failed = {} THEN "OK"
    ELSE IF r.kind = "single"
         THEN IF Done(b) THEN "Conflict" ELSE "InternalServerError"
         ELSE IF r.failed = r.files THEN "InternalServerError" ELSE "MultiStatus"

\* A batch calls ResumeScan, however it went; an upload of one file does not.
\* Faulty variant: the label before ResumeScan is reached by a good batch only.
CallFinishGood(b) ==
    /\ call[b].pc = "finish"
    /\ Turn(b, [call[b] EXCEPT !.pc = "done", !.status = Result(b)])
    /\ IF call[b].kind = "batch" /\ Result(b) = "OK" THEN ResumeScan
                                                    ELSE UNCHANGED scanPauseCount
    /\ UNCHANGED <<sessionVars, cancel, receiverVars>>

CallFinish(b) ==
    /\ call[b].pc = "finish"
    /\ Turn(b, [call[b] EXCEPT !.pc = "done", !.status = Result(b)])
    /\ \/ call[b].kind = "batch" /\ ResumeScan
       \/ call[b].kind = "single" /\ UNCHANGED scanPauseCount
    /\ UNCHANGED <<sessionVars, cancel, receiverVars>>

-----------------------------------------------------------------------------
(* UserCancelUpload *)

CancelArrive(c) ==
    /\ cancel[c].pc = "idle"
    /\ \E s \in Sessions :
         /\ prepare[s] = "open"
         /\ cancel' = [cancel EXCEPT ![c] =
              IF s \in UserUploadSessions THEN [pc |-> "destroy", session |-> s]
                                          ELSE [pc |-> "missed", session |-> s]]
    /\ UNCHANGED <<sessionVars, scanPauseCount, call, receiverVars>>

\* CancelUserUploadSession.
CancelDestroy(c) ==
    LET s == cancel[c].session IN
    /\ cancel[c].pc = "destroy"
    /\ cancelled' = cancelled \cup (userUploadSessionContexts \cap {s})
    /\ userUploadSessionContexts' = userUploadSessionContexts \ {s}
    /\ UserUploadSessions' = UserUploadSessions \ {s}
    /\ cancel' = [cancel EXCEPT ![c].pc = "resume"]
    /\ UNCHANGED <<prepare, offered, scanPauseCount, call, receiverVars>>

CancelResume(c) ==
    /\ cancel[c].pc = "resume"
    /\ ResumeScan
    /\ cancel' = [cancel EXCEPT ![c].pc = "tell"]
    /\ UNCHANGED <<sessionVars, call, receiverVars>>

\* CancelSession: the receiver, told or not, may or may not refuse from now on.
CancelTell(c) ==
    /\ cancel[c].pc = "tell"
    /\ cancel' = [cancel EXCEPT ![c].pc = "done"]
    /\ UNCHANGED <<sessionVars, scanPauseCount, call, receiverVars>>

-----------------------------------------------------------------------------
(* The receiver and the caches *)

\* The receiver makes a session, perhaps when the sender has given up.
Accept(s) ==
    /\ offered[s] # {}
    /\ accepted' = accepted \cup {s}
    /\ UNCHANGED <<sessionVars, scanPauseCount, call, cancel, kept>>

\* The receiver keeps a file, or refuses it or fails.
Receive(b) ==
    LET s == call[b].session IN
    /\ call[b].pc = "reply" /\ call[b].reply = "none"
    /\ \/ /\ s \in accepted /\ call[b].file \in offered[s]
          /\ kept' = [kept EXCEPT ![s] = @ \cup {call[b].file}]
          /\ Turn(b, [call[b] EXCEPT !.reply = "success"])
       \/ Turn(b, [call[b] EXCEPT !.reply = "error"]) /\ UNCHANGED kept
    /\ UNCHANGED <<sessionVars, scanPauseCount, cancel, accepted>>

\* An entry has lived for an hour.
Expire(s) ==
    /\ Expiry
    /\ \/ /\ UserUploadSessions' = UserUploadSessions \ {s}
          /\ UNCHANGED userUploadSessionContexts
       \/ /\ userUploadSessionContexts' = userUploadSessionContexts \ {s}
          /\ UNCHANGED UserUploadSessions
    /\ UNCHANGED <<prepare, offered, cancelled, scanPauseCount, call, cancel, receiverVars>>

-----------------------------------------------------------------------------
(* The specification *)

PrepareStep(s) == PrepareAsk(s) \/ PrepareOpen(s) \/ PrepareFail(s)

CallStep(b) ==
    \/ CallSession(b) \/ CallContext(b) \/ CallNext(b)
    \/ CallSend(b)    \/ CallReply(b)   \/ CallFinish(b)

CancelStep(c) ==
    CancelArrive(c) \/ CancelDestroy(c) \/ CancelResume(c) \/ CancelTell(c)

Next ==
    \/ \E s \in Sessions : PrepareStep(s) \/ Accept(s) \/ Expire(s)
    \/ \E b \in Calls : CallArrive(b) \/ CallStep(b) \/ Receive(b)
    \/ \E c \in Cancels : CancelStep(c)

Spec == Init /\ [][Next]_vars

\* A call that has arrived runs on; the client's timer ends its wait for a receiver.
FairSpec == Spec /\ \A b \in Calls : WF_vars(CallStep(b))

-----------------------------------------------------------------------------
(* Properties *)

Opened == {s \in Sessions : prepare[s] = "open"}

\* A batch of the session has come to its end, well or not, or a cancel of it got past
\* its ResumeScan.
GivenBack(s) ==
    \/ \E b \in Calls :
         /\ call[b].session = s /\ call[b].kind = "batch" /\ call[b].pc = "done"
         /\ call[b].status \in {"OK", "MultiStatus", "InternalServerError"}
    \/ \E c \in Cancels : cancel[c].session = s /\ cancel[c].pc \in {"tell", "done"}

\* The sessions whose pause is still out.
Owing == {s \in Opened : ~GivenBack(s)}

\* A session that ended in a batch or a cancel keeps no pause: no failure, refusal, lost
\* reply or expired entry leaves scanning paused on its account.  (It may give back
\* more than it took: two batches of one session, a retry say, resume twice.)
PauseIsGivenBack == scanPauseCount <= Cardinality(Owing)

\* A file counts as sent only if the receiver has kept it, and not as failed too; the
\* reply says 200 only if all were sent, and of a batch 500 only if none was.  Unless the
\* session was cancelled every file is accounted for.
ResultIsHonest ==
    \A b \in Calls :
      /\ call[b].session \in Sessions => call[b].sent \subseteq kept[call[b].session]
      /\ call[b].sent \cap call[b].failed = {}
      /\ call[b].status = "OK" => call[b].sent = call[b].files
      /\ call[b].status = "InternalServerError" => call[b].sent = {}
      /\ call[b].status \in {"OK", "MultiStatus", "InternalServerError"} =>
           \/ call[b].sent \cup call[b].failed = call[b].files
           \/ call[b].session \in cancelled

\* Every upload and every batch is answered, whatever the receiver does.
CallIsAnswered ==
    \A b \in Calls : call[b].pc # "idle" ~> call[b].pc = "done"

=============================================================================
