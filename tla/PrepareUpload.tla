--------------------------- MODULE PrepareUpload ---------------------------
(***************************************************************************)
(* A request to send files, from its arrival to its reply: prepare-upload  *)
(* (protocol v2) and send-request (protocol v1) share one callback, which  *)
(* compares the PIN, shows a text-only message, accepts by configuration   *)
(* or for a favorite device, or asks the user.  With it the user's answers *)
(* (confirm-recv, text-received-dismiss) and the favorites, which are kept *)
(* in memory and in the configuration file.  What becomes of the session   *)
(* is modelled in ReceiveSession.                                          *)
(*                                                                         *)
(* Each request gets a fresh random id for its session or its dialog, so   *)
(* the caches are sets of requests here.  Nobody knows such an id before   *)
(* the notification, and nobody else sees what the request does between    *)
(* the deletion of its channel and the reply: these are single steps.  A   *)
(* failed notification of a confirmation is only logged: the request waits *)
(* all the same.  The configuration is set before the server starts.       *)
(***************************************************************************)
EXTENDS Integers, FiniteSets

CONSTANTS
    Prepares,       \* requests to send
    Answers,        \* requests of the user that answer them
    Devices,        \* devices, each with its fingerprint and its address
    From,           \* the device each request comes from
    Configurations, \* what the program may be configured to
    NoPrepare       \* null value

ASSUME ConstantsAssumption ==
    /\ From \in [Prepares -> Devices]
    /\ NoPrepare \notin Prepares
    /\ IsFiniteSet(Prepares)
    /\ Configurations \subseteq [pin : BOOLEAN, autoSave : BOOLEAN, fromFavorites : BOOLEAN]

VARIABLES
    config,                     \* PIN set, AutoSave, AutoSaveFromFavorites
    favorites,                  \* the favorites in memory
    file,                       \* the favorites a read of the file yields
    prepare,                    \* the requests to send
    answer,                     \* what the channel of each of them holds
    confirmRecvChans,           \* requests with a registered confirmation channel
    textReceivedDismissChans,   \* requests with a registered dismiss channel
    reply,                      \* the user's answers
    sessions,                   \* requests whose session is cached
    v1Sessions,                 \* the session of each address
    scanPauseCount,             \* the reference counter of paused scans
    heard,                      \* the first answer sent to each request (history)
    asked,                      \* devices the user asked to be favorites, and has not
                                \* been told are removed (history)
    waived                      \* requests that needed no answer (history)

favoriteVars == <<favorites, file, asked>>
channelVars == <<answer, confirmRecvChans, textReceivedDismissChans>>
sessionVars == <<sessions, v1Sessions, scanPauseCount>>
vars == <<config, favoriteVars, prepare, channelVars, reply, sessionVars, heard, waived>>

Outcomes == {"open", "accepted", "text", "rejected", "pin required", "invalid PIN"}

Statuses == {"none", "OK", "NoContent", "Unauthorized", "Forbidden",
             "InternalServerError"}

Prepare == [pc : {"idle", "text", "dismiss", "check", "wait", "accept", "respond",
                  "done"},
            protocol : {"v1", "v2"},
            outcome : Outcomes,
            status : Statuses]

Reply == [pc : {"idle", "send", "delete", "ok", "missed", "busy"},
          prepare : Prepares \cup {NoPrepare},
          says : {"yes", "no", "dismiss"}]

TypeOK ==
    /\ config \in Configurations
    /\ favorites \subseteq Devices
    /\ file \in [readable : BOOLEAN, devices : SUBSET Devices]
    /\ prepare \in [Prepares -> Prepare]
    /\ answer \in [Prepares -> {"none", "yes", "no", "dismiss"}]
    /\ confirmRecvChans \subseteq Prepares
    /\ textReceivedDismissChans \subseteq Prepares
    /\ reply \in [Answers -> Reply]
    /\ \A a \in Answers : reply[a].pc \in {"send", "delete"}
                            => reply[a].prepare \in Prepares
    /\ sessions \subseteq Prepares
    /\ v1Sessions \in [Devices -> Prepares \cup {NoPrepare}]
    /\ scanPauseCount \in Nat
    /\ heard \in [Prepares -> {"nothing", "yes", "no"}]
    /\ asked \subseteq Devices
    /\ waived \subseteq Prepares

\* The configuration file has been read, or written, before the server starts.
Init ==
    /\ config \in Configurations
    /\ favorites \in SUBSET Devices
    /\ file = [readable |-> TRUE, devices |-> favorites]
    /\ asked = favorites
    /\ prepare = [p \in Prepares |->
                    [pc |-> "idle", protocol |-> "v2", outcome |-> "open",
                     status |-> "none"]]
    /\ answer = [p \in Prepares |-> "none"]
    /\ confirmRecvChans = {} /\ textReceivedDismissChans = {}
    /\ reply = [a \in Answers |-> [pc |-> "idle", prepare |-> NoPrepare, says |-> "no"]]
    /\ sessions = {} /\ scanPauseCount = 0
    /\ v1Sessions = [d \in Devices |-> NoPrepare]
    /\ heard = [p \in Prepares |-> "nothing"]
    /\ waived = {}

-----------------------------------------------------------------------------
(* Favorites *)

Written(devices) == file' = [readable |-> TRUE, devices |-> devices]

\* The file cannot be opened, or a part of the new content is written: fewer favorites,
\* or something that does not parse.
WriteFails(devices) ==
    \/ UNCHANGED file
    \/ \E d \in SUBSET devices : file' = [readable |-> TRUE, devices |-> d]
    \/ file' = [readable |-> FALSE, devices |-> {}]

\* AddFavorite, of a device that is there or not.
AddFavorite(d) ==
    /\ favorites' = favorites \cup {d}
    /\ Written(favorites') \/ WriteFails(favorites')
    /\ asked' = asked \cup {d}
    /\ UNCHANGED <<config, prepare, channelVars, reply, sessionVars, heard, waived>>

\* RemoveFavorite; the user is told when the file could not be written.
\* Faulty variant: the file is left to the next write.
RemoveFromMemory(d) ==
    /\ favorites' = favorites \ {d}
    /\ UNCHANGED file
    /\ asked' = asked \ {d}
    /\ UNCHANGED <<config, prepare, channelVars, reply, sessionVars, heard, waived>>

RemoveFavorite(d) ==
    /\ favorites' = favorites \ {d}
    /\ \/ Written(favorites') /\ asked' = asked \ {d}
       \/ WriteFails(favorites') /\ UNCHANGED asked
    /\ UNCHANGED <<config, prepare, channelVars, reply, sessionVars, heard, waived>>

\* The file decides, and the memory when the file is of no use.
IsFavorite(d) == d \in IF file.readable THEN file.devices ELSE favorites

-----------------------------------------------------------------------------
(* DefaultOnPrepareUpload *)

Goes(p, pc) == prepare' = [prepare EXCEPT ![p].pc = pc]

\* The callback is about to return.
Returns(p, outcome) ==
    prepare' = [prepare EXCEPT ![p].pc = "respond", ![p].outcome = outcome]

Begins(p, protocol, pc, outcome) ==
    prepare' = [prepare EXCEPT ![p] =
                  [pc |-> pc, protocol |-> protocol, outcome |-> outcome, status |-> "none"]]

\* A request arrives, with a PIN if it is of protocol v2, and is a text-only message
\* or not.
PrepareArrive(p) ==
    /\ prepare[p].pc = "idle"
    /\ \E protocol \in {"v1", "v2"}, pin \in {"none", "wrong", "right"} :
         /\ protocol = "v1" => pin = "none"
         /\ \/ config.pin /\ pin = "none" /\ Begins(p, protocol, "respond", "pin required")
            \/ config.pin /\ pin = "wrong" /\ Begins(p, protocol, "respond", "invalid PIN")
            \/ /\ config.pin => pin = "right"
               /\ \E pc \in {"text", "check"} : Begins(p, protocol, pc, "open")
    /\ UNCHANGED <<config, favoriteVars, channelVars, reply, sessionVars, heard, waived>>

\* SetTextReceivedDismissChannel and the notification: the dialog is shown, or the
\* message is dropped.
TextShow(p) ==
    /\ prepare[p].pc = "text"
    /\ textReceivedDismissChans' = textReceivedDismissChans \cup {p}
    /\ Goes(p, "dismiss") \/ Returns(p, "text")
    /\ UNCHANGED <<config, favoriteVars, answer, confirmRecvChans, reply, sessionVars,
                   heard, waived>>

TextDismissed(p) ==
    /\ prepare[p].pc = "dismiss"
    /\ answer[p] = "dismiss"
    /\ answer' = [answer EXCEPT ![p] = "none"]
    /\ Returns(p, "text")
    /\ UNCHANGED <<config, favoriteVars, confirmRecvChans, textReceivedDismissChans,
                   reply, sessionVars, heard, waived>>

\* Faulty variant: the dialog stays until the user dismisses it.
TextWaits(p) == FALSE /\ UNCHANGED vars

TextTimeout(p) ==
    /\ prepare[p].pc = "dismiss"
    /\ Returns(p, "text")
    /\ UNCHANGED <<config, favoriteVars, channelVars, reply, sessionVars, heard, waived>>

\* Accepted by configuration or for a favorite, or SetConfirmRecvChannel and the
\* notification.  The history tells what the user wants.
PrepareCheck(p) ==
    /\ prepare[p].pc = "check"
    /\ IF config.autoSave \/ (config.fromFavorites /\ IsFavorite(From[p]))
       THEN /\ Goes(p, "accept")
            /\ UNCHANGED confirmRecvChans
       ELSE /\ Goes(p, "wait")
            /\ confirmRecvChans' = confirmRecvChans \cup {p}
    /\ waived' = IF config.autoSave \/ (config.fromFavorites /\ From[p] \in asked)
                 THEN waived \cup {p} ELSE waived
    /\ UNCHANGED <<config, favoriteVars, answer, textReceivedDismissChans, reply,
                   sessionVars, heard>>

\* The select takes an answer.
PrepareHear(p) ==
    /\ prepare[p].pc = "wait"
    /\ answer[p] # "none"
    /\ answer' = [answer EXCEPT ![p] = "none"]
    /\ \/ answer[p] = "yes" /\ Goes(p, "accept")
       \/ answer[p] = "no" /\ Returns(p, "rejected")
    /\ UNCHANGED <<config, favoriteVars, confirmRecvChans, textReceivedDismissChans,
                   reply, sessionVars, heard, waived>>

\* The select takes the timer, even when an answer is there.
PrepareTimeout(p) ==
    /\ prepare[p].pc = "wait"
    /\ Returns(p, "rejected")
    /\ UNCHANGED <<config, favoriteVars, channelVars, reply, sessionVars, heard, waived>>

\* JoinSession, CreateSessionContext and CacheUploadSession, for an id nobody knows.
PrepareAccept(p) ==
    /\ prepare[p].pc = "accept"
    /\ sessions' = sessions \cup {p}
    /\ Returns(p, "accepted")
    /\ UNCHANGED <<config, favoriteVars, channelVars, reply, v1Sessions, scanPauseCount,
                   heard, waived>>

-----------------------------------------------------------------------------
(* HandlePrepareUpload, HandlePrepareV1Upload *)

\* The status of the reply.  The text of a wrong PIN matches no case of the switch, the
\* switch of protocol v1 knows no PIN, and after a text-only message its handler
\* dereferences the response there is not: gin recovers and replies.
Status(p) ==
    LET v1 == prepare[p].protocol = "v1" IN
    CASE prepare[p].outcome = "accepted"     -> "OK"
      [] prepare[p].outcome = "text"         -> IF v1 THEN "InternalServerError"
                                                      ELSE "NoContent"
      [] prepare[p].outcome = "rejected"     -> "Forbidden"
      [] prepare[p].outcome = "pin required" -> IF v1 THEN "InternalServerError"
                                                      ELSE "Unauthorized"
      [] OTHER                               -> "InternalServerError"

Replies(p) == prepare' = [prepare EXCEPT ![p].pc = "done", ![p].status = Status(p)]

\* The deferred deletion of the channel; for a session PauseScan, StoreV1Session and
\* InitSessionStats; the reply.
\* Faulty variants: the dismiss channel is not deleted; scanning is paused before the
\* outcome is looked at; it is resumed.
PrepareRespondDialog(p) ==
    /\ prepare[p].pc = "respond"
    /\ confirmRecvChans' = confirmRecvChans \ {p}
    /\ Replies(p)
    /\ UNCHANGED <<config, favoriteVars, answer, textReceivedDismissChans, reply,
                   sessionVars, heard, waived>>

PrepareRespondPaused(p) ==
    /\ prepare[p].pc = "respond"
    /\ confirmRecvChans' = confirmRecvChans \ {p}
    /\ textReceivedDismissChans' = textReceivedDismissChans \ {p}
    /\ scanPauseCount' = scanPauseCount + 1
    /\ Replies(p)
    /\ UNCHANGED <<config, favoriteVars, answer, reply, sessions, v1Sessions, heard,
                   waived>>

PrepareRespondResumed(p) ==
    /\ prepare[p].pc = "respond"
    /\ scanPauseCount' = scanPauseCount - 1
    /\ Replies(p)
    /\ UNCHANGED <<config, favoriteVars, channelVars, reply, sessions, v1Sessions, heard,
                   waived>>

PrepareRespond(p) ==
    /\ prepare[p].pc = "respond"
    /\ confirmRecvChans' = confirmRecvChans \ {p}
    /\ textReceivedDismissChans' = textReceivedDismissChans \ {p}
    /\ \/ /\ prepare[p].outcome = "accepted"
          /\ scanPauseCount' = scanPauseCount + 1
          /\ v1Sessions' = IF prepare[p].protocol = "v1"
                        THEN [v1Sessions EXCEPT ![From[p]] = p] ELSE v1Sessions
       \/ /\ prepare[p].outcome # "accepted"
          /\ UNCHANGED <<scanPauseCount, v1Sessions>>
    /\ Replies(p)
    /\ UNCHANGED <<config, favoriteVars, answer, reply, sessions, heard, waived>>

-----------------------------------------------------------------------------
(* UserConfirmRecv, UserTextReceivedDismiss *)

Channels(says) == IF says = "dismiss" THEN textReceivedDismissChans ELSE confirmRecvChans

\* The user gets an answer.
Ends(a, pc) ==
    reply' = [reply EXCEPT ![a] = [pc |-> pc, prepare |-> NoPrepare, says |-> "no"]]

\* The channel is looked up.
AnswerArrive(a) ==
    /\ reply[a].pc = "idle"
    /\ \E p \in Prepares, says \in {"yes", "no", "dismiss"} :
         IF p \in Channels(says)
         THEN reply' = [reply EXCEPT ![a] = [pc |-> "send", prepare |-> p, says |-> says]]
         ELSE Ends(a, "missed")
    /\ UNCHANGED <<config, favoriteVars, prepare, channelVars, sessionVars, heard, waived>>

\* The answer goes into the channel, if that is empty.
AnswerSend(a) ==
    LET p == reply[a].prepare IN
    /\ reply[a].pc = "send"
    /\ \/ /\ answer[p] = "none"
          /\ answer' = [answer EXCEPT ![p] = reply[a].says]
          /\ heard' = IF heard[p] = "nothing" /\ reply[a].says # "dismiss"
                      THEN [heard EXCEPT ![p] = reply[a].says] ELSE heard
          /\ reply' = [reply EXCEPT ![a].pc = "delete"]
       \/ /\ answer[p] # "none"
          /\ Ends(a, "busy")
          /\ UNCHANGED <<answer, heard>>
    /\ UNCHANGED <<config, favoriteVars, prepare, confirmRecvChans,
                   textReceivedDismissChans, sessionVars, waived>>

\* The channel is deleted: no other answer finds it.
AnswerDelete(a) ==
    LET p == reply[a].prepare IN
    /\ reply[a].pc = "delete"
    /\ IF reply[a].says = "dismiss"
       THEN /\ textReceivedDismissChans' = textReceivedDismissChans \ {p}
            /\ UNCHANGED confirmRecvChans
       ELSE /\ confirmRecvChans' = confirmRecvChans \ {p}
            /\ UNCHANGED textReceivedDismissChans
    /\ Ends(a, "ok")
    /\ UNCHANGED <<config, favoriteVars, prepare, answer, sessionVars, heard, waived>>

-----------------------------------------------------------------------------
(* The specification *)

FavoriteStep(d) == AddFavorite(d) \/ RemoveFavorite(d)

PrepareStep(p) ==
    \/ TextShow(p)    \/ TextDismissed(p) \/ TextTimeout(p)
    \/ PrepareCheck(p) \/ PrepareHear(p) \/ PrepareTimeout(p)
    \/ PrepareAccept(p) \/ PrepareRespond(p)

AnswerStep(a) == AnswerArrive(a) \/ AnswerSend(a) \/ AnswerDelete(a)

Next ==
    \/ \E d \in Devices : FavoriteStep(d)
    \/ \E p \in Prepares : PrepareArrive(p) \/ PrepareStep(p)
    \/ \E a \in Answers : AnswerStep(a)

Spec == Init /\ [][Next]_vars

\* A request that has arrived runs on, and its timers fire.
FairSpec == Spec /\ \A p \in Prepares : WF_vars(PrepareStep(p))

-----------------------------------------------------------------------------
(* Properties *)

\* A session is made only by configuration, for a device the user wants as a favorite,
\* or after the user's yes to this very request, not too late and with no "no" before;
\* this however favorites change, their file fails, and answers race the timer.
Promise == INSTANCE Consent WITH
    Askers <- Prepares,
    Group <- [p \in Prepares |-> p],
    heard <- heard,
    exempt <- waived,
    verdict <- [p \in Prepares |->
                  CASE prepare[p].outcome = "open" -> "open"
                    [] prepare[p].outcome = "accepted" -> "granted"
                    [] OTHER -> "refused"]

ImplementsConsent == Promise!Spec

\* The reply tells whether there is a session: after 200 there is one, it holds scanning
\* paused and an address is mapped to no other kind; an error, a refusal or a text-only
\* message leaves no session, no mapping and no pause behind.
ReplyTellsSession ==
    /\ \A p \in Prepares :
         prepare[p].pc = "done" => (prepare[p].status = "OK" <=> p \in sessions)
    /\ \A d \in Devices : v1Sessions[d] # NoPrepare =>
         /\ From[v1Sessions[d]] = d
         /\ prepare[v1Sessions[d]].protocol = "v1"
         /\ prepare[v1Sessions[d]].status = "OK"
    /\ scanPauseCount = Cardinality({p \in Prepares : prepare[p].status = "OK"})

\* Before its answer the request that waits can be found; once it has returned its
\* channel is gone, whichever way it ended.
ChannelWhileWaiting ==
    \A p \in Prepares :
      /\ prepare[p].pc = "wait" /\ heard[p] = "nothing" => p \in confirmRecvChans
      /\ p \in confirmRecvChans => prepare[p].pc \in {"wait", "accept", "respond"}
      /\ p \in textReceivedDismissChans => prepare[p].pc \in {"dismiss", "respond"}

\* Every request to send is answered, also when the user never answers.
PrepareIsAnswered ==
    \A p \in Prepares : prepare[p].pc # "idle" ~> prepare[p].pc = "done"

=============================================================================
