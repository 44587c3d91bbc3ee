--------------------------- MODULE ShareDownload ---------------------------
(***************************************************************************)
(* Share sessions: the user creates and closes them, receivers ask for     *)
(* their file list (prepare-download) and fetch files (download), and the  *)
(* user answers the confirmation of a prepare-download.                    *)
(*                                                                         *)
(* A handler is a sequence of steps, one for each function that takes      *)
(* shareSessionMu, sends or receives on a channel, or touches the scan     *)
(* pause counter.  Each prepare-download makes a confirmation channel of   *)
(* capacity 1 of its own, named here by the request; the cache of channels *)
(* has one place for each session.                                         *)
(*                                                                         *)
(* A session id is random and given out once.  Ids are lower-case hex      *)
(* digits, so the lower-casing in prepare-download finds them.  The local  *)
(* device is set before the server starts.  The entry of a channel outlives*)
(* its 30 s wait by far, so it does not expire.                            *)
(***************************************************************************)
EXTENDS Integers, FiniteSets

CONSTANTS
    Sessions,       \* share sessions
    Prepares,       \* prepare-download requests
    Confirms,       \* confirm-download requests of the user
    Downloads,      \* download requests
    SessionOf,      \* the session each prepare-download asks for
    NoPrepare       \* null value

ASSUME ConstantsAssumption ==
    /\ SessionOf \in [Prepares -> Sessions]
    /\ NoPrepare \notin Prepares
    /\ IsFiniteSet(Downloads)

VARIABLES
    shareSessions,          \* the cached sessions
    confirmDownloadChans,   \* the channel registered for each session
    confirmedDownloadSess,  \* the sessions the user has agreed to
    scanPauseCount,         \* the reference counter of paused scans
    issued,                 \* session ids given out
    autoAccept,             \* sessions created with autoAccept
    closing,                \* sessions a close request has found
    prepare,                \* the prepare-download requests
    answer,                 \* what each channel holds
    confirm,                \* the confirm-download requests
    download,               \* the download requests
    heard,                  \* the first answer sent to each request (history)
    closed,                 \* sessions that were removed by a close (history)
    lapsed                  \* sessions one of whose entries expired (history)

sessionVars == <<shareSessions, issued, autoAccept, closing, closed, lapsed>>
askVars == <<confirmDownloadChans, confirmedDownloadSess, prepare, answer,
             confirm, heard>>
downloadVars == <<scanPauseCount, download>>
vars == <<sessionVars, askVars, downloadVars>>

Prepare == [pc : {"idle", "query", "register", "notify", "wait", "mark", "list",
                  "leave", "done"},
            asked : BOOLEAN,        \* the deferred deletion of the channel is set
            verdict : {"open", "granted", "refused"}]

Confirm == [pc : {"idle", "send", "delete", "ok", "missed", "busy"},
            prepare : Prepares \cup {NoPrepare},
            says : {"yes", "no"}]

TypeOK ==
    /\ shareSessions \subseteq issued
    /\ issued \subseteq Sessions
    /\ autoAccept \subseteq issued
    /\ confirmDownloadChans \in [Sessions -> Prepares \cup {NoPrepare}]
    /\ confirmedDownloadSess \subseteq Sessions
    /\ scanPauseCount \in Nat
    /\ closing \subseteq Sessions
    /\ prepare \in [Prepares -> Prepare]
    /\ answer \in [Prepares -> {"none", "yes", "no"}]
    /\ confirm \in [Confirms -> Confirm]
    /\ \A c \in Confirms : confirm[c].pc \in {"send", "delete"}
                             => confirm[c].prepare \in Prepares
    /\ download \in [Downloads -> {"idle", "pause", "serve", "done"}]
    /\ heard \in [Prepares -> {"nothing", "yes", "no"}]
    /\ closed \subseteq Sessions
    /\ lapsed \subseteq Sessions

Init ==
    /\ shareSessions = {} /\ issued = {} /\ autoAccept = {}
    /\ closing = {} /\ closed = {} /\ lapsed = {}
    /\ confirmDownloadChans = [s \in Sessions |-> NoPrepare]
    /\ confirmedDownloadSess = {}
    /\ scanPauseCount = 0
    /\ prepare = [p \in Prepares |->
                    [pc |-> "idle", asked |-> FALSE, verdict |-> "open"]]
    /\ answer = [p \in Prepares |-> "none"]
    /\ confirm = [c \in Confirms |->
                    [pc |-> "idle", prepare |-> NoPrepare, says |-> "no"]]
    /\ download = [d \in Downloads |-> "idle"]
    /\ heard = [p \in Prepares |-> "nothing"]

-----------------------------------------------------------------------------
(* The life of a session *)

\* UserCreateShareSession
Create(s) ==
    /\ s \notin issued
    /\ issued' = issued \cup {s}
    /\ shareSessions' = shareSessions \cup {s}
    /\ \/ autoAccept' = autoAccept \cup {s}
       \/ UNCHANGED autoAccept
    /\ UNCHANGED <<closing, closed, lapsed, askVars, downloadVars>>

\* UserCloseShareSession finds the session,
CloseArrive(s) ==
    /\ s \in shareSessions
    /\ closing' = closing \cup {s}
    /\ UNCHANGED <<shareSessions, issued, autoAccept, closed, lapsed, askVars,
                   downloadVars>>

\* and removes it with its channel and its confirmation.
RemoveShareSession(s) ==
    /\ s \in closing
    /\ closing' = closing \ {s}
    /\ shareSessions' = shareSessions \ {s}
    /\ confirmDownloadChans' = [confirmDownloadChans EXCEPT ![s] = NoPrepare]
    /\ confirmedDownloadSess' = confirmedDownloadSess \ {s}
    /\ closed' = closed \cup {s}
    /\ UNCHANGED <<issued, autoAccept, lapsed, prepare, answer, confirm, heard,
                   downloadVars>>

\* Entries of the caches reach their time to live, each on its own.
Expire(s) ==
    /\ \/ /\ s \in shareSessions
          /\ shareSessions' = shareSessions \ {s}
          /\ UNCHANGED confirmedDownloadSess
       \/ /\ s \in confirmedDownloadSess
          /\ confirmedDownloadSess' = confirmedDownloadSess \ {s}
          /\ UNCHANGED shareSessions
    /\ lapsed' = lapsed \cup {s}
    /\ UNCHANGED <<confirmDownloadChans, issued, autoAccept, closing, closed,
                   prepare, answer, confirm, heard, downloadVars>>

-----------------------------------------------------------------------------
(* HandlePrepareDownload *)

Goes(p, pc) == prepare' = [prepare EXCEPT ![p].pc = pc]

\* The request is answered with an error; what was deferred still runs.
Refused(p, pc) ==
    prepare' = [prepare EXCEPT ![p].pc = pc, ![p].verdict = "refused"]

\* The session is looked up and its PIN compared.  Which sessions have a PIN is not
\* represented: any request may be refused for it.
PrepareArrive(p) ==
    /\ prepare[p].pc = "idle"
    /\ \/ /\ SessionOf[p] \in shareSessions
          /\ Goes(p, IF SessionOf[p] \in autoAccept THEN "list" ELSE "query")
       \/ Refused(p, "done")
    /\ UNCHANGED <<confirmDownloadChans, confirmedDownloadSess, answer, confirm,
                   heard, sessionVars, downloadVars>>

\* IsDownloadConfirmed
PrepareQuery(p) ==
    /\ prepare[p].pc = "query"
    /\ Goes(p, IF SessionOf[p] \in confirmedDownloadSess THEN "list" ELSE "register")
    /\ UNCHANGED <<confirmDownloadChans, confirmedDownloadSess, answer, confirm,
                   heard, sessionVars, downloadVars>>

\* From its registration to the deferred deletion of its channel.
Asking(p) == prepare[p].pc \in {"notify", "wait", "mark", "list", "leave"}
               /\ prepare[p].asked

\* SetConfirmDownloadChannel replaces what another request has registered.
PrepareRegister(p) ==
    /\ prepare[p].pc = "register"
    /\ confirmDownloadChans' = [confirmDownloadChans EXCEPT ![SessionOf[p]] = p]
    /\ prepare' = [prepare EXCEPT ![p].pc = "notify", ![p].asked = TRUE]
    /\ UNCHANGED <<confirmedDownloadSess, answer, confirm, heard, sessionVars,
                   downloadVars>>

\* SendNotification succeeds or fails.
PrepareNotify(p) ==
    /\ prepare[p].pc = "notify"
    /\ Goes(p, "wait") \/ Refused(p, "leave")
    /\ UNCHANGED <<confirmDownloadChans, confirmedDownloadSess, answer, confirm,
                   heard, sessionVars, downloadVars>>

\* The select takes an answer.
PrepareHear(p) ==
    /\ prepare[p].pc = "wait"
    /\ answer[p] # "none"
    /\ answer' = [answer EXCEPT ![p] = "none"]
    /\ \/ answer[p] = "yes" /\ Goes(p, "mark")
       \/ answer[p] = "no" /\ Refused(p, "leave")
    /\ UNCHANGED <<confirmDownloadChans, confirmedDownloadSess, confirm, heard,
                   sessionVars, downloadVars>>

\* The select takes the timer, even when an answer is there.
\* Faulty variants: the case does not return; there is no timer.
PrepareTimeoutFallsThrough(p) ==
    /\ prepare[p].pc = "wait"
    /\ Goes(p, "mark")
    /\ UNCHANGED <<confirmDownloadChans, confirmedDownloadSess, answer, confirm,
                   heard, sessionVars, downloadVars>>

PrepareTimeoutNever(p) == FALSE /\ UNCHANGED vars

PrepareTimeout(p) ==
    /\ prepare[p].pc = "wait"
    /\ Refused(p, "leave")
    /\ UNCHANGED <<confirmDownloadChans, confirmedDownloadSess, answer, confirm,
                   heard, sessionVars, downloadVars>>

\* MarkDownloadConfirmed.  Faulty variant: only the request itself goes on.
PrepareMarkSelf(p) ==
    /\ prepare[p].pc = "mark"
    /\ Goes(p, "list")
    /\ UNCHANGED <<confirmDownloadChans, confirmedDownloadSess, answer, confirm,
                   heard, sessionVars, downloadVars>>

PrepareMark(p) ==
    /\ prepare[p].pc = "mark"
    /\ confirmedDownloadSess' = confirmedDownloadSess \cup {SessionOf[p]}
    /\ Goes(p, "list")
    /\ UNCHANGED <<confirmDownloadChans, answer, confirm, heard,
                   sessionVars, downloadVars>>

\* The file list is sent.
PrepareAnswer(p) ==
    /\ prepare[p].pc = "list"
    /\ prepare' = [prepare EXCEPT ![p].verdict = "granted",
                     ![p].pc = IF prepare[p].asked THEN "leave" ELSE "done"]
    /\ UNCHANGED <<confirmDownloadChans, confirmedDownloadSess, answer, confirm,
                   heard, sessionVars, downloadVars>>

\* The deferred DeleteConfirmDownloadChannel deletes the session's channel, whosever
\* it is.  Faulty variant: it is forgotten.
PrepareLeaveChannel(p) ==
    /\ prepare[p].pc = "leave"
    /\ Goes(p, "done")
    /\ UNCHANGED <<confirmDownloadChans, confirmedDownloadSess, answer, confirm,
                   heard, sessionVars, downloadVars>>

PrepareLeave(p) ==
    /\ prepare[p].pc = "leave"
    /\ confirmDownloadChans' =
         [confirmDownloadChans EXCEPT ![SessionOf[p]] = NoPrepare]
    /\ Goes(p, "done")
    /\ UNCHANGED <<confirmedDownloadSess, answer, confirm, heard,
                   sessionVars, downloadVars>>

-----------------------------------------------------------------------------
(* UserConfirmDownload *)

\* GetConfirmDownloadChannel.  Faulty variant: the channel is taken out of the cache
\* before the answer is sent.
ConfirmTake(c) ==
    /\ confirm[c].pc = "idle"
    /\ \E s \in Sessions, says \in {"yes", "no"} :
         /\ confirm' = [confirm EXCEPT ![c] =
              IF confirmDownloadChans[s] = NoPrepare
              THEN [@ EXCEPT !.pc = "missed"]
              ELSE [pc |-> "send", prepare |-> confirmDownloadChans[s], says |-> says]]
         /\ confirmDownloadChans' = [confirmDownloadChans EXCEPT ![s] = NoPrepare]
    /\ UNCHANGED <<confirmedDownloadSess, prepare, answer, heard,
                   sessionVars, downloadVars>>

ConfirmArrive(c) ==
    /\ confirm[c].pc = "idle"
    /\ \E s \in Sessions, says \in {"yes", "no"} :
         confirm' = [confirm EXCEPT ![c] =
           IF confirmDownloadChans[s] = NoPrepare
           THEN [@ EXCEPT !.pc = "missed"]
           ELSE [pc |-> "send", prepare |-> confirmDownloadChans[s], says |-> says]]
    /\ UNCHANGED <<confirmDownloadChans, confirmedDownloadSess, prepare, answer,
                   heard, sessionVars, downloadVars>>

\* The answer goes into the channel it found, if that is empty.
ConfirmSend(c) ==
    LET p == confirm[c].prepare IN
    /\ confirm[c].pc = "send"
    /\ \/ /\ answer[p] = "none"
          /\ answer' = [answer EXCEPT ![p] = confirm[c].says]
          /\ heard' = [heard EXCEPT ![p] = IF @ = "nothing" THEN confirm[c].says ELSE @]
          /\ confirm' = [confirm EXCEPT ![c].pc = "delete"]
       \/ /\ answer[p] # "none"
          /\ confirm' = [confirm EXCEPT ![c].pc = "busy"]
          /\ UNCHANGED <<answer, heard>>
    /\ UNCHANGED <<confirmDownloadChans, confirmedDownloadSess, prepare,
                   sessionVars, downloadVars>>

\* It deletes the session's channel, whosever it is by now.
ConfirmDelete(c) ==
    /\ confirm[c].pc = "delete"
    /\ confirmDownloadChans' =
         [confirmDownloadChans EXCEPT ![SessionOf[confirm[c].prepare]] = NoPrepare]
    /\ confirm' = [confirm EXCEPT ![c].pc = "ok"]
    /\ UNCHANGED <<confirmedDownloadSess, prepare, answer, heard,
                   sessionVars, downloadVars>>

-----------------------------------------------------------------------------
(* HandleDownload *)

\* Session and file are found, the file is there and no folder; or not.
DownloadArrive(d) ==
    /\ download[d] = "idle"
    /\ \/ shareSessions # {} /\ download' = [download EXCEPT ![d] = "pause"]
       \/ download' = [download EXCEPT ![d] = "done"]
    /\ UNCHANGED <<sessionVars, askVars, scanPauseCount>>

DownloadPause(d) ==
    /\ download[d] = "pause"
    /\ scanPauseCount' = scanPauseCount + 1
    /\ download' = [download EXCEPT ![d] = "serve"]
    /\ UNCHANGED <<sessionVars, askVars>>

\* The file is served or the receiver leaves; the deferred ResumeScan.
\* Faulty variants: it is forgotten; it is called a second time.
DownloadServedPaused(d) ==
    /\ download[d] = "serve"
    /\ download' = [download EXCEPT ![d] = "done"]
    /\ UNCHANGED <<sessionVars, askVars, scanPauseCount>>

DownloadServedTwice(d) ==
    /\ download[d] = "serve"
    /\ scanPauseCount' = scanPauseCount - 2
    /\ download' = [download EXCEPT ![d] = "done"]
    /\ UNCHANGED <<sessionVars, askVars>>

DownloadServed(d) ==
    /\ download[d] = "serve"
    /\ scanPauseCount' = scanPauseCount - 1
    /\ download' = [download EXCEPT ![d] = "done"]
    /\ UNCHANGED <<sessionVars, askVars>>

-----------------------------------------------------------------------------
(* The specification *)

SessionStep(s) == Create(s) \/ CloseArrive(s) \/ RemoveShareSession(s) \/ Expire(s)

PrepareStep(p) ==
    \/ PrepareQuery(p)   \/ PrepareRegister(p) \/ PrepareNotify(p) \/ PrepareHear(p)
    \/ PrepareTimeout(p) \/ PrepareMark(p)     \/ PrepareAnswer(p) \/ PrepareLeave(p)

ConfirmStep(c) == ConfirmArrive(c) \/ ConfirmSend(c) \/ ConfirmDelete(c)

DownloadStep(d) == DownloadArrive(d) \/ DownloadPause(d) \/ DownloadServed(d)

Next ==
    \/ \E s \in Sessions : SessionStep(s)
    \/ \E p \in Prepares : PrepareArrive(p) \/ PrepareStep(p)
    \/ \E c \in Confirms : ConfirmStep(c)
    \/ \E d \in Downloads : DownloadStep(d)

Spec == Init /\ [][Next]_vars

\* A request that has arrived runs on, and its timer fires.
FairSpec == Spec /\ \A p \in Prepares : WF_vars(PrepareStep(p))

-----------------------------------------------------------------------------
(* Properties *)

\* Between the notification and the answer.
Pending(p) == prepare[p].pc \in {"notify", "wait"} /\ heard[p] = "nothing"

\* A file list is sent only for a session that needs no consent, or after the user
\* has said yes, in time, to a request of that session; a request that heard no, or
\* nothing, is refused.
Promise == INSTANCE Consent WITH
    Askers <- Prepares,
    Group <- SessionOf,
    heard <- heard,
    exempt <- {p \in Prepares : SessionOf[p] \in autoAccept},
    verdict <- [p \in Prepares |-> prepare[p].verdict]

ImplementsConsent == Promise!Spec

\* Another request of the session had its channel registered, and has left or was
\* answered.
Displaced(p) ==
    \E q \in Prepares \ {p} :
      /\ SessionOf[q] = SessionOf[p]
      /\ prepare[q].asked
      /\ prepare[q].pc = "done" \/ heard[q] # "nothing"

\* While a request waits for the user and its session is cached, confirm-download
\* finds a channel for the session, and does not answer "Session not found or expired";
\* unless the deferred deletion of another request of the session, or the late deletion
\* of a confirm-download that answered another one, took the channel away.  Nothing else
\* does: no close or expiry, no other session, no answer that did not get through.
PendingIsFound ==
    \A p \in Prepares :
      Pending(p) /\ SessionOf[p] \in shareSessions
        => confirmDownloadChans[SessionOf[p]] # NoPrepare \/ Displaced(p)

\* A registered channel belongs to a request that will still delete it: none is left
\* behind, however requests of one session overlap, are closed or time out.
RegisteredChannelHasReader ==
    \A s \in Sessions, p \in Prepares :
      confirmDownloadChans[s] = p
        => SessionOf[p] = s /\ Asking(p)

\* Once a request of a session has been granted by the user, the session asks no more
\* until it is closed or expires.
AgreedSessionStaysConfirmed ==
    \A p \in Prepares :
      /\ prepare[p].asked
      /\ prepare[p].verdict = "granted"
      /\ SessionOf[p] \notin closed \cup lapsed
      => SessionOf[p] \in confirmedDownloadSess

\* Every download under way, and nothing else, holds scanning paused.
PausedForDownloads ==
    scanPauseCount = Cardinality({d \in Downloads : download[d] = "serve"})

\* Every prepare-download is answered, also when its channel was replaced, deleted
\* or closed under it.
PrepareIsAnswered ==
    \A p \in Prepares : prepare[p].pc # "idle" ~> prepare[p].verdict # "open"

=============================================================================
