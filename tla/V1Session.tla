------------------------------ MODULE V1Session ------------------------------
(***************************************************************************)
(* The receiving side for senders of protocol v1.  Their requests carry no *)
(* session id: the receiver keeps v1Sessions, a map from the address of a  *)
(* sender to its session, which send-request writes, send and cancel read, *)
(* and cancel and the end of a failed session delete.  Everything behind   *)
(* the map is that of ReceiveSession, whose actions are taken over.        *)
(*                                                                         *)
(* The sessions here are all of protocol v1.  Those of v2 have ids of      *)
(* their own, and no cache entry in common with them.                      *)
(***************************************************************************)
EXTENDS ReceiveSession

CONSTANTS
    Addrs,       \* addresses of senders
    FilesOf,     \* the files each of them has to send
    Overlap      \* TRUE: a sender may ask for a new session, or go on with an
                 \* old one, while the other is under way

ASSUME V1ConstantsAssumption ==
    /\ FilesOf \in [Addrs -> SUBSET Files]
    /\ Overlap \in BOOLEAN
    /\ Nil \notin Addrs

VARIABLES
    v1Sessions,  \* the session each address is mapped to, or Nil
    sender,      \* the address that asked for each session
    answered,    \* sessions whose send-request was answered
    meant,       \* the session an upload was sent for (history)
    unmapped,    \* goroutines that have called RemoveV1Session
    displaced,   \* sessions whose mapping went with the end of another (history)
    v1Cancel     \* what each cancel request has read from the map

v1vars == <<v1Sessions, sender, answered, meant, unmapped, displaced, v1Cancel>>
allvars == <<vars, v1vars>>

V1CancelRequest == [addr : Addrs \cup {Nil}, sid : Sessions \cup {Nil}]

V1TypeOK ==
    /\ v1Sessions \in [Addrs -> Sessions \cup {Nil}]
    /\ sender \in [Sessions -> Addrs \cup {Nil}]
    /\ \A s \in Sessions : sender[s] = Nil <=> prepare[s] = "none"
    /\ answered \subseteq {s \in Sessions : prepare[s] = "ready"}
    /\ meant \in [Uploads -> Sessions \cup {Nil}]
    /\ \A u \in Uploads : meant[u] = Nil <=> At(u, "idle")
    /\ unmapped \subseteq {u \in Uploads : ending[u].pc # "none"}
    /\ displaced \subseteq Sessions
    /\ v1Cancel \in [Cancels -> V1CancelRequest]

V1Init ==
    /\ Init
    /\ v1Sessions = [a \in Addrs |-> Nil]
    /\ sender = [s \in Sessions |-> Nil]
    /\ answered = {}
    /\ meant = [u \in Uploads |-> Nil]
    /\ unmapped = {}
    /\ displaced = {}
    /\ v1Cancel = [c \in Cancels |-> [addr |-> Nil, sid |-> Nil]]

-----------------------------------------------------------------------------
(* What a sender does.  Without Overlap it asks for a session when its last   *)
(* one is over as far as it can tell, sends no file of one that it cancelled, *)
(* and does not cancel while it waits for the reply to a send-request.        *)

\* The sender is done with the session: no file of it is expected, because each was
\* answered with 200 or 500 or a cancel with 200, and no request of it waits for its
\* reply.  Goroutines of the receiver may still be at work for it.
Over(s) ==
    /\ s \in answered
    /\ uploadSessions[s] = Nil
    /\ \A u \in Uploads : meant[u] = s => At(u, "done")
    /\ \A c \in Cancels : v1Cancel[c].sid = s =>
         cancel[c].pc = "done" /\ (cancel[c].found => v1Cancel[c].addr = Nil)

MayAsk(a) == Overlap \/ \A s \in Sessions : sender[s] = a => Over(s)

MayCancel(a) == Overlap \/ \A s \in Sessions : sender[s] = a => s \in answered

V1MaySend(s, f) ==
    /\ s \in answered
    /\ ~Overlap => \A c \in Cancels : v1Cancel[c].sid # s
    /\ ~Strays => f \in offer[s]
    /\ ~Repeats => \A v \in Uploads : ~(meant[v] = s /\ req[v].fid = f)

-----------------------------------------------------------------------------
(* POST /v1/send-request: HandlePrepareV1Upload, once the user has let it   *)
(* through                                                                  *)

\* The end of DefaultOnPrepareUpload.
V1Accept(s, a, fs) ==
    /\ MayAsk(a)
    /\ fs \subseteq FilesOf[a]
    /\ PrepareAccept(s, fs)
    /\ sender' = [sender EXCEPT ![s] = a]
    /\ UNCHANGED <<v1Sessions, answered, meant, unmapped, displaced, v1Cancel>>

\* StoreV1Session.  Faulty variant: all addresses have one session in common.
MappedForAll(s) == [a \in Addrs |-> s]
Mapped(s) == [v1Sessions EXCEPT ![sender[s]] = s]

\* PauseScan and StoreV1Session.  From here on the requests of the address find
\* the session.
V1Store(s) ==
    /\ prepare[s] = "accepted"
    /\ prepare' = [prepare EXCEPT ![s] = "ready"]
    /\ PauseScan
    /\ v1Sessions' = Mapped(s)
    /\ UNCHANGED <<offer, caches, disk, req, cancel, ending,
                   sender, answered, meant, unmapped, displaced, v1Cancel>>

\* InitSessionStats, and the reply.
V1Respond(s) ==
    /\ prepare[s] = "ready"
    /\ s \notin answered
    /\ answered' = answered \cup {s}
    /\ uploadStats' = [uploadStats EXCEPT
         ![s] = [total |-> Cardinality(offer[s]), success |-> 0, failed |-> 0]]
    /\ UNCHANGED <<prepare, offer, sessionCache, uploadSessions, uploadValidated,
                   sessionContexts, cancelled, fileSavePaths, scanPauseCount, disk,
                   req, cancel, ending, v1Sessions, sender, meant, unmapped, displaced,
                   v1Cancel>>

-----------------------------------------------------------------------------
(* POST /v1/send: HandleUploadV1Upload.  The session is not validated.     *)

\* GetV1Session, or 409.
V1UploadArrive(u, s, f) ==
    /\ At(u, "idle")
    /\ V1MaySend(s, f)
    /\ LET found == v1Sessions[sender[s]]
       IN  req' = IF found = Nil
                  THEN [req EXCEPT ![u].pc = "done", ![u].sid = s, ![u].fid = f,
                                   ![u].outcome = "refused"]
                  ELSE [req EXCEPT ![u].pc = "lookup", ![u].sid = found, ![u].fid = f,
                                   ![u].late = CancelAnswered(found)]
    /\ meant' = [meant EXCEPT ![u] = s]
    /\ UNCHANGED <<prepare, offer, caches, scanPauseCount, disk, cancel, ending,
                   v1Sessions, sender, answered, unmapped, displaced, v1Cancel>>

\* remoteAddr
From(u) == sender[meant[u]]

\* RemoveV1Session deletes what the address is mapped to, whatever it is.  Faulty
\* variant: all mappings go.
RemoveAllV1Sessions(a) == v1Sessions' = [b \in Addrs |-> Nil]
RemoveV1Session(a) == v1Sessions' = [v1Sessions EXCEPT ![a] = Nil]

\* The goroutine of a session whose last file failed.  That of one whose last file
\* was saved leaves the map alone.
EndUnmaps(u) == req[u].outcome # "saved"

V1EndUnmap(u) ==
    /\ ending[u].pc = "cleanup"
    /\ EndUnmaps(u)
    /\ u \notin unmapped
    /\ RemoveV1Session(From(u))
    /\ unmapped' = unmapped \cup {u}
    /\ displaced' = displaced \cup ({v1Sessions[From(u)]} \ {meant[u], Nil})
    /\ UNCHANGED <<vars, sender, answered, meant, v1Cancel>>

V1EndStep(u) ==
    /\ EndNotify(u) \/ EndCleanup(u) \/ EndRemove(u)
    /\ EndCleanup(u) /\ EndUnmaps(u) => u \in unmapped
    /\ UNCHANGED v1vars

-----------------------------------------------------------------------------
(* POST /v1/cancel: HandleCancelV1Cancel                                   *)

\* GetV1Session.  A cancel of an address without a session is answered with 200
\* and changes nothing.
V1CancelArrive(c, a) ==
    /\ MayCancel(a)
    /\ v1Cancel[c].sid = Nil
    /\ v1Sessions[a] # Nil
    /\ v1Cancel' = [v1Cancel EXCEPT ![c] = [addr |-> a, sid |-> v1Sessions[a]]]
    /\ UNCHANGED <<vars, v1Sessions, sender, answered, meant, unmapped, displaced>>

\* DefaultOnCancel and RemoveUploadSession.
V1CancelStep(c) ==
    /\ \/ v1Cancel[c].sid # Nil /\ CancelArrive(c, v1Cancel[c].sid)
       \/ CancelStep(c)
    /\ UNCHANGED v1vars

\* RemoveV1Session, and 200.  After an error of DefaultOnCancel, 500, it stays.
V1CancelUnmap(c) ==
    /\ cancel[c].pc = "done"
    /\ cancel[c].found
    /\ v1Cancel[c].addr # Nil
    /\ RemoveV1Session(v1Cancel[c].addr)
    /\ v1Cancel' = [v1Cancel EXCEPT ![c].addr = Nil]
    /\ UNCHANGED <<vars, sender, answered, meant, unmapped, displaced>>

-----------------------------------------------------------------------------
(* The specification *)

\* v1Sessions is a cache with a time to live, too: an hour, which without Overlap no
\* session of the address outlives.  The other caches expire as in ReceiveSession,
\* and here hold what they hold.
V1Expire(a) ==
    /\ MayAsk(a)
    /\ v1Sessions[a] # Nil
    /\ v1Sessions' = [v1Sessions EXCEPT ![a] = Nil]
    /\ UNCHANGED <<vars, sender, answered, meant, unmapped, displaced, v1Cancel>>

V1Next ==
    \/ \E s \in Sessions :
         \/ \E a \in Addrs, fs \in SUBSET Files : V1Accept(s, a, fs)
         \/ V1Store(s)
         \/ V1Respond(s)
    \/ \E u \in Uploads :
         \/ \E s \in Sessions, f \in Files : V1UploadArrive(u, s, f)
         \/ UploadStep(u) /\ UNCHANGED v1vars
         \/ V1EndUnmap(u)
         \/ V1EndStep(u)
    \/ \E c \in Cancels :
         \/ \E a \in Addrs : V1CancelArrive(c, a)
         \/ V1CancelStep(c)
         \/ V1CancelUnmap(c)
    \/ \E a \in Addrs : V1Expire(a)

V1Spec == V1Init /\ [][V1Next]_allvars

-----------------------------------------------------------------------------
(* Properties *)

\* Nobody but an address itself gets its files into its sessions: the map, and what
\* cancels have read from it, lead to sessions that the address asked for, and so
\* does every upload, whatever is stored, deleted and expires in between.
V1StaysWithItsSender ==
    /\ \A a \in Addrs : v1Sessions[a] # Nil => sender[v1Sessions[a]] = a
    /\ \A u \in Uploads : ~At(u, "idle") => sender[req[u].sid] = From(u)
    /\ \A c \in Cancels : v1Cancel[c].sid # Nil /\ v1Cancel[c].addr # Nil =>
         sender[v1Cancel[c].sid] = v1Cancel[c].addr

\* A file that its session still expects reaches it: the upload is not taken for
\* another session of the address, and turned away only when a goroutine that was
\* still ending an earlier session has deleted the mapping.  Nothing else loses it:
\* no other address, no cancel, and not the session's own end.  With Overlap there is
\* more: a cancel, too, deletes what the address is mapped to by then.
V1UploadReachesItsSession ==
    ~Overlap =>
      \A u \in Uploads : ~At(u, "idle") /\ Pending(meant[u], req[u].fid) =>
        \/ req[u].sid = meant[u] /\ req[u].outcome # "refused"
        \/ req[u].outcome = "refused" /\ meant[u] \in displaced

=============================================================================
