--------------------------- MODULE V1SessionProofs ---------------------------
(***************************************************************************)
(* Invariants of V1Session, for every number of senders, sessions and      *)
(* requests.  Whether senders let their sessions overlap or not: senders   *)
(* are kept apart, and behind the map everything that ReceiveSessionProofs *)
(* proves of v2 holds, UploadPromise included.  When a sender takes its    *)
(* sessions one at a time, as far as it can tell: what becomes of an       *)
(* upload whose file is expected.                                          *)
(***************************************************************************)
EXTENDS V1Session, ReceiveSessionProofs

\* An upload is about a session that was answered, and a cancel about one that some
\* address asked for.
AnsweredInv == \A u \in Uploads : ~At(u, "idle") => meant[u] \in answered

V1IInv == TypeOK /\ V1TypeOK /\ AnsweredInv /\ V1StaysWithItsSender

-----------------------------------------------------------------------------
(* What the steps taken over from ReceiveSession do to the variables that  *)
(* V1Session speaks of                                                     *)

\* The steps of an upload that has arrived, of a session's end and of a cancel.
BaseStep ==
    \/ \E u \in Uploads : UploadStep(u) \/ EndStep(u)
    \/ \E c \in Cancels : CancelStep(c) \/ \E s \in Sessions : CancelArrive(c, s)

\* They keep to the sessions their requests are about.
LEMMA BaseFrame ==
    ASSUME TypeOK, BaseStep
    PROVE  /\ TypeOK'
           /\ prepare' = prepare
           /\ \A u \in Uploads : req'[u].sid = req[u].sid /\ (At(u, "idle")' <=> At(u, "idle"))
           /\ \A u \in Uploads : ending[u].pc # "none" => ending'[u].pc # "none"
<1>1. Next
  BY DEF BaseStep, Next
<1>2. TypeOK'
  BY <1>1, TypeCorrectStep
<1>3. ASSUME NEW u \in Uploads, UploadStep(u)
      PROVE  /\ prepare' = prepare
             /\ \A v \in Uploads : req'[v].sid = req[v].sid /\ (At(v, "idle")' <=> At(v, "idle"))
             /\ \A v \in Uploads : ending[v].pc # "none" => ending'[v].pc # "none"
  <2>1. \A v \in Uploads : req'[v].sid = req[v].sid /\ (At(v, "idle")' <=> At(v, "idle"))
    BY <1>3, UploadFrame DEF SameTarget, At
  <2>2. prepare' = prepare
    BY <1>3 DEF UploadStep, UploadQuery, UploadValidate, UploadLookup, UploadCheck,
          UploadGetContext, UploadFileInfo, UploadChoosePath, UploadCreate, UploadCopied,
          UploadBroken, UploadFinish, UploadSave, UploadMark, UploadResume
  <2>3. ending' = ending \/ ending' = [ending EXCEPT ![u].pc = "notify"]
    BY <1>3 DEF UploadStep, UploadQuery, UploadValidate, UploadLookup, UploadCheck,
          UploadGetContext, UploadFileInfo, UploadChoosePath, UploadCreate, UploadCopied,
          UploadBroken, UploadFinish, UploadSave, UploadMark, UploadResume
  <2>4. \A v \in Uploads : ending[v].pc # "none" => ending'[v].pc # "none"
    BY <2>3 DEF TypeOK, EndTask
  <2>5. QED
    BY <2>1, <2>2, <2>4
<1>4. ASSUME NEW u \in Uploads, EndStep(u)
      PROVE  /\ prepare' = prepare /\ req' = req
             /\ \A v \in Uploads : ending[v].pc # "none" => ending'[v].pc # "none"
  BY <1>4 DEF EndStep, EndNotify, EndCleanup, EndRemove, TypeOK, EndTask
<1>5. ASSUME NEW c \in Cancels, CancelStep(c) \/ \E s \in Sessions : CancelArrive(c, s)
      PROVE  prepare' = prepare /\ req' = req /\ ending' = ending
  BY <1>5 DEF CancelStep, CancelRemove, CancelDestroy, CancelArrive
<1>6. QED
  BY <1>2, <1>3, <1>4, <1>5 DEF BaseStep, At

\* So they keep the invariant, as long as the map is left alone.
LEMMA BaseKeeps ==
    ASSUME V1IInv, BaseStep, UNCHANGED v1vars
    PROVE  V1IInv'
<1>1. TypeOK /\ V1TypeOK /\ AnsweredInv /\ V1StaysWithItsSender
  BY DEF V1IInv
<1>2. /\ v1Sessions' = v1Sessions /\ sender' = sender /\ answered' = answered
      /\ meant' = meant /\ unmapped' = unmapped /\ displaced' = displaced
      /\ v1Cancel' = v1Cancel
  BY DEF v1vars
<1>3. V1TypeOK'
  BY <1>1, <1>2, BaseFrame DEF V1TypeOK
<1>4. AnsweredInv'
  BY <1>1, <1>2, BaseFrame DEF AnsweredInv
<1>5. V1StaysWithItsSender'
  BY <1>1, <1>2, BaseFrame DEF V1StaysWithItsSender, From
<1>6. QED
  BY <1>1, <1>3, <1>4, <1>5, BaseFrame DEF V1IInv

-----------------------------------------------------------------------------
(* send-request *)

\* A new session gets a sender; none of the requests so far is about it.
LEMMA AcceptKeeps ==
    ASSUME V1IInv, NEW s \in Sessions, NEW a \in Addrs, NEW fs \in SUBSET Files,
           V1Accept(s, a, fs)
    PROVE  V1IInv'
<1>1. TypeOK /\ V1TypeOK /\ AnsweredInv /\ V1StaysWithItsSender
  BY DEF V1IInv
<1>2. TypeOK'
  BY <1>1, TypeCorrectStep DEF V1Accept, Next, PrepareStep
<1>3. /\ prepare[s] = "none" /\ prepare' = [prepare EXCEPT ![s] = "accepted"]
      /\ req' = req /\ ending' = ending
      /\ sender' = [sender EXCEPT ![s] = a] /\ a # Nil
      /\ v1Sessions' = v1Sessions /\ answered' = answered
      /\ meant' = meant /\ unmapped' = unmapped /\ displaced' = displaced
      /\ v1Cancel' = v1Cancel
  BY V1ConstantsAssumption DEF V1Accept, PrepareAccept
<1>4. sender[s] = Nil /\ s \notin answered
  BY <1>1, <1>3 DEF V1TypeOK
<1>5. \A t \in Sessions : sender[t] # Nil => sender'[t] = sender[t]
  BY <1>1, <1>3, <1>4 DEF V1TypeOK
<1>6. V1TypeOK'
  <2>1. \A t \in Sessions : sender'[t] = Nil <=> prepare'[t] = "none"
    BY <1>1, <1>3 DEF V1TypeOK, TypeOK
  <2>2. answered' \subseteq {t \in Sessions : prepare'[t] = "ready"}
    BY <1>1, <1>3, <1>4 DEF V1TypeOK, TypeOK
  <2>3. QED
    BY <1>1, <1>3, <2>1, <2>2 DEF V1TypeOK, At
<1>7. AnsweredInv'
  BY <1>1, <1>3 DEF AnsweredInv, At
<1>8. V1StaysWithItsSender'
  <2>1. ASSUME NEW b \in Addrs, v1Sessions[b] # Nil
        PROVE  sender'[v1Sessions[b]] = b
    BY <1>1, <1>5, <2>1, V1ConstantsAssumption DEF V1StaysWithItsSender, V1TypeOK
  <2>2. ASSUME NEW u \in Uploads, ~At(u, "idle")
        PROVE  sender'[req[u].sid] = sender'[meant[u]]
    <3>1. meant[u] \in answered /\ req[u].sid \in Sessions
          /\ sender[req[u].sid] = sender[meant[u]]
      BY <1>1, <2>2 DEF AnsweredInv, TypeOK, At, V1StaysWithItsSender, From
    <3>2. meant[u] \in Sessions /\ sender[meant[u]] # Nil
      BY <1>1, <3>1 DEF V1TypeOK
    <3>3. QED
      BY <1>5, <3>1, <3>2
  <2>3. ASSUME NEW c \in Cancels, v1Cancel[c].sid # Nil, v1Cancel[c].addr # Nil
        PROVE  sender'[v1Cancel[c].sid] = v1Cancel[c].addr
    <3>1. v1Cancel[c].sid \in Sessions /\ sender[v1Cancel[c].sid] = v1Cancel[c].addr
      BY <1>1, <2>3 DEF V1TypeOK, V1CancelRequest, V1StaysWithItsSender
    <3>2. QED
      BY <1>5, <2>3, <3>1
  <2>4. QED
    BY <1>3, <2>1, <2>2, <2>3 DEF V1StaysWithItsSender, From, At
<1>9. QED
  BY <1>2, <1>6, <1>7, <1>8 DEF V1IInv

\* Steps that change neither a session's sender nor a request keep what the requests
\* are about.
LEMMA RequestsKept ==
    ASSUME V1TypeOK, AnsweredInv, V1StaysWithItsSender,
           UNCHANGED <<req, sender, meant>>, answered \subseteq answered'
    PROVE  /\ AnsweredInv'
           /\ \A u \in Uploads : ~At(u, "idle")' => sender'[req'[u].sid] = From(u)'
<1>1. \A u \in Uploads : At(u, "idle")' <=> At(u, "idle")
  BY DEF At
<1>2. QED
  BY <1>1 DEF AnsweredInv, V1StaysWithItsSender, From

\* The map leads to the session of its sender.
LEMMA StoreKeeps ==
    ASSUME V1IInv, NEW s \in Sessions, V1Store(s)
    PROVE  V1IInv'
<1>1. TypeOK /\ V1TypeOK /\ AnsweredInv /\ V1StaysWithItsSender
  BY DEF V1IInv
<1>2. /\ prepare[s] = "accepted" /\ prepare' = [prepare EXCEPT ![s] = "ready"]
      /\ v1Sessions' = [v1Sessions EXCEPT ![sender[s]] = s]
      /\ UNCHANGED <<offer, caches, disk, req, cancel, ending,
                     sender, answered, meant, unmapped, displaced, v1Cancel>>
  BY DEF V1Store, Mapped
<1>3. sender[s] \in Addrs
  BY <1>1, <1>2 DEF V1TypeOK
<1>4. TypeOK'
  BY <1>1, <1>2 DEF TypeOK, V1Store, PauseScan, caches
<1>5. V1TypeOK'
  <2>1. \A t \in Sessions : sender'[t] = Nil <=> prepare'[t] = "none"
    BY <1>1, <1>2 DEF V1TypeOK, TypeOK
  <2>2. answered' \subseteq {t \in Sessions : prepare'[t] = "ready"}
    BY <1>1, <1>2 DEF V1TypeOK, TypeOK
  <2>3. QED
    BY <1>1, <1>2, <1>3, <2>1, <2>2 DEF V1TypeOK, At
<1>6. \A b \in Addrs : v1Sessions'[b] # Nil => sender'[v1Sessions'[b]] = b
  BY <1>1, <1>2, <1>3 DEF V1TypeOK, V1StaysWithItsSender
<1>7. QED
  BY <1>1, <1>2, <1>4, <1>5, <1>6, RequestsKept DEF V1IInv, V1StaysWithItsSender

\* The reply makes a tally.
LEMMA RespondKeeps ==
    ASSUME V1IInv, NEW s \in Sessions, V1Respond(s)
    PROVE  V1IInv'
<1>1. TypeOK /\ V1TypeOK /\ AnsweredInv /\ V1StaysWithItsSender
  BY DEF V1IInv
<1>2. /\ prepare[s] = "ready" /\ answered' = answered \cup {s}
      /\ UNCHANGED <<prepare, offer, req, cancel, ending, v1Sessions, sender, meant,
                     unmapped, displaced, v1Cancel>>
  BY DEF V1Respond
<1>3. TypeOK'
  BY <1>1, OfferTyped DEF TypeOK, V1Respond, Stats
<1>4. V1TypeOK'
  BY <1>1, <1>2 DEF V1TypeOK, At
<1>5. QED
  BY <1>1, <1>2, <1>3, <1>4, RequestsKept DEF V1IInv, V1StaysWithItsSender

-----------------------------------------------------------------------------
(* send *)

\* The map gives an upload a session of the address it comes from.
LEMMA ArriveKeeps ==
    ASSUME V1IInv, NEW u \in Uploads, NEW s \in Sessions, NEW f \in Files,
           V1UploadArrive(u, s, f)
    PROVE  V1IInv'
<1>1. TypeOK /\ V1TypeOK /\ AnsweredInv /\ V1StaysWithItsSender
  BY DEF V1IInv
<1> DEFINE found == v1Sessions[sender[s]]
           refused == [req[u] EXCEPT !.pc = "done", !.sid = s, !.fid = f,
                                     !.outcome = "refused"]
           arrived == [req[u] EXCEPT !.pc = "lookup", !.sid = found, !.fid = f,
                                     !.late = CancelAnswered(found)]
<1>2. /\ req[u].pc = "idle" /\ s \in answered
      /\ req' = [req EXCEPT ![u] = IF found = Nil THEN refused ELSE arrived]
      /\ meant' = [meant EXCEPT ![u] = s]
      /\ UNCHANGED <<prepare, offer, caches, scanPauseCount, disk, cancel, ending,
                     v1Sessions, sender, answered, unmapped, displaced, v1Cancel>>
  BY DEF V1UploadArrive, V1MaySend, At
<1>3. sender[s] \in Addrs /\ s # Nil
  BY <1>1, <1>2, ConstantsAssumption DEF V1TypeOK
<1>4. found # Nil => found \in Sessions /\ sender[found] = sender[s]
  BY <1>1, <1>3 DEF V1TypeOK, V1StaysWithItsSender
<1>5. /\ refused \in Request /\ refused.pc = "done" /\ refused.sid = s /\ refused.fid = f
  <2>1. req[u] \in Request /\ "done" \in UploadPC /\ "refused" \in Outcome
    BY <1>1 DEF TypeOK, UploadPC, Outcome
  <2>2. QED
    BY <2>1 DEF Request
<1>6. ASSUME found # Nil
      PROVE  /\ arrived \in Request /\ arrived.pc = "lookup" /\ arrived.sid = found
             /\ arrived.fid = f
  <2>1. req[u] \in Request /\ "lookup" \in UploadPC /\ CancelAnswered(found) \in BOOLEAN
    BY <1>1 DEF TypeOK, UploadPC, CancelAnswered
  <2>2. arrived \in Request
    BY <1>4, <1>6, <2>1, RequestTyped
  <2>3. QED
    BY <2>1, <2>2 DEF Request
<1>7. PICK r \in Request : /\ req' = [req EXCEPT ![u] = r]
                           /\ r.pc \in {"done", "lookup"} /\ r.fid = f
                           /\ r.sid \in Sessions /\ sender[r.sid] = sender[s]
  <2>1. CASE found = Nil
    BY <1>2, <1>5, <2>1
  <2>2. CASE found # Nil
    BY <1>2, <1>4, <1>6, <2>2
  <2>3. QED
    BY <2>1, <2>2
<1> HIDE DEF found, refused, arrived
<1>8. ending[u].pc = "none"
  BY <1>1, <1>2 DEF TypeOK
<1>9. TypeOK'
  BY <1>1, <1>2, <1>7, <1>8 DEF TypeOK, caches
<1>10. \A v \in Uploads : /\ v # u => req'[v] = req[v] /\ meant'[v] = meant[v]
                          /\ v = u => req'[v] = r /\ meant'[v] = s
  BY <1>1, <1>2, <1>7 DEF TypeOK, V1TypeOK
<1>11. V1TypeOK'
  BY <1>1, <1>2, <1>3, <1>7, <1>10 DEF V1TypeOK, At
<1>12. AnsweredInv'
  BY <1>1, <1>2, <1>10 DEF AnsweredInv, At
<1>13. V1StaysWithItsSender'
  BY <1>1, <1>2, <1>7, <1>10 DEF V1StaysWithItsSender, From, At
<1>14. QED
  BY <1>9, <1>11, <1>12, <1>13 DEF V1IInv

-----------------------------------------------------------------------------
(* The map and the cancels *)

\* Forgetting an address, and reading the map, keep the invariant.
LEMMA MapKeeps ==
    ASSUME V1IInv,
           \/ \E u \in Uploads : V1EndUnmap(u)
           \/ \E c \in Cancels : V1CancelUnmap(c) \/ \E a \in Addrs : V1CancelArrive(c, a)
           \/ \E a \in Addrs : V1Expire(a)
    PROVE  V1IInv'
<1>1. TypeOK /\ V1TypeOK /\ AnsweredInv /\ V1StaysWithItsSender
  BY DEF V1IInv
<1>2. UNCHANGED <<vars, sender, answered, meant>>
  BY DEF V1EndUnmap, V1CancelUnmap, V1CancelArrive, V1Expire
<1>3. TypeOK'
  BY <1>1, <1>2 DEF TypeOK, vars, caches
<1>4. \/ v1Sessions' = v1Sessions
      \/ \E a : v1Sessions' = [v1Sessions EXCEPT ![a] = Nil]
  BY DEF V1EndUnmap, V1CancelUnmap, V1CancelArrive, V1Expire, RemoveV1Session
<1>5. \A b \in Addrs : v1Sessions'[b] \in {Nil, v1Sessions[b]}
  BY <1>1, <1>4 DEF V1TypeOK
<1>6. /\ v1Sessions' \in [Addrs -> Sessions \cup {Nil}]
      /\ \A b \in Addrs : v1Sessions'[b] # Nil => sender'[v1Sessions'[b]] = b
  BY <1>1, <1>2, <1>4, <1>5 DEF V1TypeOK, V1StaysWithItsSender
<1>7. /\ unmapped' \subseteq {u \in Uploads : ending'[u].pc # "none"}
      /\ displaced' \subseteq Sessions
  <2>1. ASSUME NEW u \in Uploads, V1EndUnmap(u)
        PROVE  v1Sessions[From(u)] \in Sessions \cup {Nil}
    <3>1. meant[u] \in answered
      BY <1>1, <2>1 DEF V1EndUnmap, TypeOK, AnsweredInv, At
    <3>2. From(u) \in Addrs
      BY <1>1, <3>1 DEF V1TypeOK, From
    <3>3. QED
      BY <1>1, <3>2 DEF V1TypeOK
  <2>2. QED
    BY <1>1, <1>2, <2>1 DEF V1TypeOK, V1EndUnmap, V1CancelUnmap, V1CancelArrive, V1Expire, vars
<1>8. /\ v1Cancel' \in [Cancels -> V1CancelRequest]
      /\ \A c \in Cancels : v1Cancel'[c].sid # Nil /\ v1Cancel'[c].addr # Nil =>
           sender'[v1Cancel'[c].sid] = v1Cancel'[c].addr
  <2>1. ASSUME NEW c \in Cancels, NEW a \in Addrs, V1CancelArrive(c, a)
        PROVE  \E r \in V1CancelRequest : /\ v1Cancel' = [v1Cancel EXCEPT ![c] = r]
                                          /\ sender[r.sid] = r.addr
    <3> DEFINE r == [addr |-> a, sid |-> v1Sessions[a]]
    <3>1. v1Cancel' = [v1Cancel EXCEPT ![c] = r] /\ v1Sessions[a] # Nil
      BY <2>1 DEF V1CancelArrive
    <3>2. r \in V1CancelRequest /\ sender[r.sid] = r.addr
      BY <1>1, <3>1 DEF V1TypeOK, V1CancelRequest, V1StaysWithItsSender
    <3>3. QED
      BY <3>1, <3>2
  <2>2. ASSUME NEW c \in Cancels, V1CancelUnmap(c)
        PROVE  \E r \in V1CancelRequest : /\ v1Cancel' = [v1Cancel EXCEPT ![c] = r]
                                          /\ r.addr = Nil
    <3> DEFINE r == [v1Cancel[c] EXCEPT !.addr = Nil]
    <3>1. v1Cancel' = [v1Cancel EXCEPT ![c] = r]
      BY <2>2 DEF V1CancelUnmap
    <3>2. r \in V1CancelRequest /\ r.addr = Nil
      BY <1>1 DEF V1TypeOK, V1CancelRequest
    <3>3. QED
      BY <3>1, <3>2
  <2>3. CASE v1Cancel' = v1Cancel
    BY <1>1, <1>2, <2>3 DEF V1TypeOK, V1StaysWithItsSender
  <2>4. ASSUME NEW c \in Cancels, NEW r \in V1CancelRequest,
               v1Cancel' = [v1Cancel EXCEPT ![c] = r],
               sender[r.sid] = r.addr \/ r.addr = Nil
        PROVE  /\ v1Cancel' \in [Cancels -> V1CancelRequest]
               /\ \A d \in Cancels : v1Cancel'[d].sid # Nil /\ v1Cancel'[d].addr # Nil =>
                    sender'[v1Cancel'[d].sid] = v1Cancel'[d].addr
    BY <1>1, <1>2, <2>4 DEF V1TypeOK, V1StaysWithItsSender
  <2>5. v1Cancel' = v1Cancel \/ \E c \in Cancels : V1CancelUnmap(c)
                                                    \/ \E a \in Addrs : V1CancelArrive(c, a)
    BY DEF V1EndUnmap, V1Expire
  <2>6. QED
    BY <2>1, <2>2, <2>3, <2>4, <2>5
<1>9. V1TypeOK'
  BY <1>1, <1>2, <1>6, <1>7, <1>8 DEF V1TypeOK, At, vars
<1>10. QED
  BY <1>1, <1>2, <1>3, <1>6, <1>8, <1>9, RequestsKept DEF V1IInv, V1StaysWithItsSender, vars

-----------------------------------------------------------------------------
(* The theorems *)

\* The invariant is inductive.
THEOREM V1Invariance == V1Spec => []V1IInv
<1>1. V1Init => V1IInv
  <2>1. Init => TypeOK
    BY DEF Init, TypeOK, Request, CancelRequest, EndTask, UploadPC, Outcome
  <2>2. V1Init => V1TypeOK
    BY DEF V1Init, Init, V1TypeOK, V1CancelRequest, At
  <2>3. V1Init => AnsweredInv /\ V1StaysWithItsSender
    BY DEF V1Init, Init, AnsweredInv, V1StaysWithItsSender, At
  <2>4. QED
    BY <2>1, <2>2, <2>3 DEF V1Init, V1IInv
<1>2. V1IInv /\ [V1Next]_allvars => V1IInv'
  <2> SUFFICES ASSUME V1IInv, [V1Next]_allvars PROVE V1IInv'
    OBVIOUS
  <2>1. CASE UNCHANGED allvars
    BY <2>1 DEF allvars, vars, caches, v1vars, V1IInv, TypeOK, V1TypeOK, AnsweredInv,
          V1StaysWithItsSender, From, At
  <2>2. ASSUME NEW u \in Uploads, UploadStep(u) /\ UNCHANGED v1vars
        PROVE  V1IInv'
    BY <2>2, BaseKeeps DEF BaseStep
  <2>3. ASSUME NEW u \in Uploads, V1EndStep(u)
        PROVE  V1IInv'
    BY <2>3, BaseKeeps DEF BaseStep, V1EndStep, EndStep
  <2>4. ASSUME NEW c \in Cancels, V1CancelStep(c)
        PROVE  V1IInv'
    <3>1. v1Cancel[c].sid # Nil => v1Cancel[c].sid \in Sessions
      BY DEF V1IInv, V1TypeOK, V1CancelRequest
    <3>2. QED
      BY <2>4, <3>1, BaseKeeps DEF BaseStep, V1CancelStep
  <2>5. QED
    BY <2>1, <2>2, <2>3, <2>4, AcceptKeeps, StoreKeeps, RespondKeeps, ArriveKeeps, MapKeeps
       DEF V1Next
<1>3. QED
  BY <1>1, <1>2, PTL DEF V1Spec

\* The types of the map and of what senders have done hold in every reachable state.
THEOREM V1TypeCorrect == V1Spec => [](TypeOK /\ V1TypeOK)
<1>1. V1IInv => TypeOK /\ V1TypeOK
  BY DEF V1IInv
<1>2. QED
  BY <1>1, V1Invariance, PTL

\* Whatever is stored, deleted and expires in between, no request of an address reaches
\* a session that another address asked for.
THEOREM V1KeepsSendersApart == V1Spec => []V1StaysWithItsSender
<1>1. V1IInv => V1StaysWithItsSender
  BY DEF V1IInv
<1>2. QED
  BY <1>1, V1Invariance, PTL

-----------------------------------------------------------------------------
(* One session of an address at a time                                     *)

\* What a sender may still wait for: the reply to its send-request, files that are
\* expected, a cancel.
CancelDone(c) == cancel[c].pc = "done" /\ (cancel[c].found => v1Cancel[c].addr = Nil)

Open(s) ==
    /\ prepare[s] # "none"
    /\ \/ s \notin answered
       \/ uploadSessions[s] # Nil
       \/ \E c \in Cancels : v1Cancel[c].sid = s /\ ~CancelDone(c)

\* Who was the last of a session has the tally, and its session expects nothing; and
\* no upload is asked for a valid session.
V1LastInv ==
    /\ \A u \in Uploads : req[u].stats # Nil =>
         req[u].pc \in {"resume", "done"} /\ uploadSessions[req[u].sid] = Nil
    /\ \A u \in Uploads : /\ req[u].pc \notin {"query", "validate"}
                          /\ req[u].outcome = "refused" => At(u, "done")
    /\ \A c \in Cancels : v1Cancel[c].addr # Nil => v1Cancel[c].sid # Nil

\* Of the sessions of an address one is open; while one is open the map leads to it, or
\* to none; and while its files are expected, and nobody cancels it, the map has it, or
\* the end of another session has deleted it.
OneOpen ==
    \A s, t \in Sessions : s # t /\ sender[s] = sender[t] => ~Open(s) \/ ~Open(t)

MapOpen ==
    \A a \in Addrs : \A t \in Sessions :
      v1Sessions[a] # Nil /\ v1Sessions[a] # t /\ sender[t] = a /\ prepare[t] = "ready"
        => ~Open(t)

Mapping ==
    \A s \in Sessions :
      /\ prepare[s] = "ready" /\ uploadSessions[s] # Nil
      /\ \A c \in Cancels : v1Cancel[c].sid # s
      => v1Sessions[sender[s]] = s \/ s \in displaced

\* While a session expects files its uploads are in it, or were turned away after that.
Reached(u) ==
    \/ req[u].sid = meant[u] /\ req[u].outcome # "refused"
    \/ req[u].outcome = "refused" /\ meant[u] \in displaced

Led == \A u \in Uploads : ~At(u, "idle") /\ uploadSessions[meant[u]] # Nil => Reached(u)

OpenInv == V1LastInv /\ OneOpen /\ MapOpen /\ Mapping /\ Led

\* What a step of an upload does to that.
LEMMA UploadOpen ==
    ASSUME TypeOK, V1LastInv, NEW u \in Uploads, UploadStep(u)
    PROVE  /\ UNCHANGED <<prepare, offer, cancel>>
           /\ \A v \in Uploads \ {u} : req'[v] = req[v]
           /\ req[u].pc \notin {"idle", "done"}
           /\ req'[u].pc \notin {"idle", "query", "validate"}
           /\ req'[u].sid = req[u].sid /\ req'[u].fid = req[u].fid
           /\ req[u].outcome # "refused" /\ req'[u].outcome # "refused"
           /\ \A s \in Sessions : uploadSessions'[s] # Nil =>
                uploadSessions[s] # Nil /\ uploadSessions'[s] \subseteq uploadSessions[s]
           /\ \/ /\ req'[u].stats = req[u].stats
                 /\ req[u].stats # Nil => req'[u].pc = "done"
              \/ req'[u].pc = "resume" /\ uploadSessions'[req[u].sid] = Nil
<1>1. /\ req[u].pc \notin {"idle", "done"} /\ req[u].pc \notin {"query", "validate"}
      /\ req' \in [Uploads -> Request] /\ req'[u].pc # "idle" /\ SameTarget(u)
      /\ \A v \in Uploads \ {u} : req'[v] = req[v]
      /\ req \in [Uploads -> Request] /\ req[u].sid \in Sessions
      /\ req[u].outcome # "refused"
  BY UploadFrame DEF V1LastInv, TypeOK, At
<1>2. UNCHANGED <<prepare, offer, cancel>>
  BY DEF UploadStep, UploadQuery, UploadValidate, UploadLookup, UploadCheck,
        UploadGetContext, UploadFileInfo, UploadChoosePath, UploadCreate, UploadCopied,
        UploadBroken, UploadFinish, UploadSave, UploadMark, UploadResume
<1>3. CASE UploadMark(u)
  <2>1. req[u].stats = Nil
    BY <1>1, <1>3 DEF UploadMark, V1LastInv, At
  <2>2. CASE MarkFile(u)
    <3> DEFINE s == req[u].sid
               left == LeftAfter(u)
               st == StatsAfter(s, req[u].outcome = "saved")
    <3>1. /\ uploadSessions[s] # Nil
          /\ uploadSessions' = [uploadSessions EXCEPT ![s] = Entry(left)]
          /\ req' = IF left = {} THEN [req EXCEPT ![u].pc = "resume", ![u].stats = st]
                    ELSE [req EXCEPT ![u].pc = "done"]
      BY <2>2 DEF MarkFile
    <3>2. \A t \in Sessions : uploadSessions'[t] # Nil =>
             uploadSessions[t] # Nil /\ uploadSessions'[t] \subseteq uploadSessions[t]
      BY <3>1 DEF TypeOK, Entry, LeftAfter
    <3>3. CASE left = {}
      <4>1. req'[u].pc = "resume" /\ req'[u].outcome = req[u].outcome
        BY <1>1, <3>1, <3>3 DEF Request
      <4>2. uploadSessions'[s] = Nil
        BY <1>1, <3>1, <3>3 DEF Entry, TypeOK
      <4>3. QED
        BY <1>1, <1>2, <2>1, <3>1, <3>2, <4>1, <4>2 DEF SameTarget
    <3>4. CASE left # {}
      <4>1. req'[u].pc = "done" /\ req'[u].outcome = req[u].outcome
            /\ req'[u].stats = req[u].stats
        BY <1>1, <3>1, <3>4 DEF Request
      <4>2. QED
        BY <1>1, <1>2, <2>1, <3>1, <3>2, <4>1 DEF SameTarget
    <3>5. QED
      BY <3>3, <3>4
  <2>3. CASE ~MarkFile(u)
    <3>1. /\ uploadSessions' = uploadSessions
          /\ req' = [req EXCEPT ![u].pc = "done"] \/ req' = [req EXCEPT ![u].pc = "resume"]
      BY <1>3, <2>3 DEF UploadMark, MarkUnknown
    <3>2. /\ req'[u].pc \in {"done", "resume"} /\ req'[u].outcome = req[u].outcome
          /\ req'[u].stats = req[u].stats
      BY <1>1, <3>1 DEF Request
    <3>3. QED
      BY <1>1, <1>2, <2>1, <3>1, <3>2 DEF SameTarget, TypeOK
  <2>4. QED
    BY <2>2, <2>3
<1>4. CASE UploadResume(u)
  <2>1. req' = [req EXCEPT ![u].pc = "done"] /\ uploadSessions' = uploadSessions
    BY <1>4 DEF UploadResume, caches
  <2>2. /\ req'[u].pc = "done" /\ req'[u].outcome = req[u].outcome
        /\ req'[u].stats = req[u].stats
    BY <1>1, <2>1 DEF Request
  <2>3. QED
    BY <1>1, <1>2, <2>1, <2>2 DEF SameTarget, TypeOK
<1>5. CASE ~UploadMark(u) /\ ~UploadResume(u)
  <2>1. /\ uploadSessions' = uploadSessions /\ req[u].pc # "resume"
        /\ \/ \E pc : req' = [req EXCEPT ![u].pc = pc] /\ pc \notin {"query", "validate"}
           \/ \E b : req' = [req EXCEPT ![u].pc = "check", ![u].hasFileInfo = b]
           \/ \E x : req' = [req EXCEPT ![u].pc = "info", ![u].ctx = x]
           \/ \E p : req' = [req EXCEPT ![u].pc = "create", ![u].path = p]
           \/ \E w : req' = [req EXCEPT ![u].pc = "finish", ![u].whole = w]
           \/ \E o : req' = [req EXCEPT ![u].pc = "mark", ![u].outcome = o] /\ o # "refused"
    BY <1>1, <1>5 DEF UploadStep, UploadQuery, UploadValidate, UploadLookup, UploadCheck,
          UploadGetContext, UploadFileInfo, UploadChoosePath, UploadCreate, UploadCopied,
          UploadBroken, UploadFinish, UploadSave, Fail, At, caches
  <2>2. /\ req'[u].pc \notin {"query", "validate"}
        /\ req'[u].outcome # "refused" /\ req'[u].stats = req[u].stats
    BY <1>1, <2>1 DEF Request
  <2>3. req[u].stats = Nil
    BY <1>1, <2>1 DEF V1LastInv
  <2>4. QED
    BY <1>1, <1>2, <2>1, <2>2, <2>3 DEF SameTarget, TypeOK
<1>6. QED
  BY <1>3, <1>4, <1>5

\* The steps taken over from ReceiveSession open no session, and turn nobody away.
LEMMA BaseOpen ==
    ASSUME V1IInv, V1LastInv, BaseStep, UNCHANGED v1vars
    PROVE  /\ UNCHANGED prepare
           /\ \A u \in Uploads : /\ req'[u].fid = req[u].fid
                                 /\ req'[u].outcome = "refused" <=> req[u].outcome = "refused"
           /\ \A s \in Sessions : uploadSessions'[s] # Nil =>
                uploadSessions[s] # Nil /\ uploadSessions'[s] \subseteq uploadSessions[s]
           /\ \A s \in Sessions : Open(s)' => Open(s)
           /\ V1LastInv'
<1>1. TypeOK /\ V1TypeOK /\ AnsweredInv /\ V1StaysWithItsSender
  BY DEF V1IInv
<1>2. /\ v1Sessions' = v1Sessions /\ sender' = sender /\ answered' = answered
      /\ meant' = meant /\ unmapped' = unmapped /\ displaced' = displaced
      /\ v1Cancel' = v1Cancel
  BY DEF v1vars
<1>3. ASSUME NEW u \in Uploads, UploadStep(u)
      PROVE  /\ \A v \in Uploads : /\ req'[v].fid = req[v].fid
                                   /\ req'[v].outcome = "refused" <=> req[v].outcome = "refused"
             /\ \A s \in Sessions : uploadSessions'[s] # Nil =>
                  uploadSessions[s] # Nil /\ uploadSessions'[s] \subseteq uploadSessions[s]
             /\ \A c \in Cancels : cancel'[c] = cancel[c]
             /\ V1LastInv'
  <2>1. /\ \A v \in Uploads \ {u} : req'[v] = req[v]
        /\ cancel' = cancel
        /\ req'[u].pc \notin {"query", "validate"}
        /\ req'[u].sid = req[u].sid /\ req'[u].fid = req[u].fid /\ req[u].sid \in Sessions
        /\ req[u].outcome # "refused" /\ req'[u].outcome # "refused"
        /\ \A s \in Sessions : uploadSessions'[s] # Nil =>
             uploadSessions[s] # Nil /\ uploadSessions'[s] \subseteq uploadSessions[s]
        /\ \/ /\ req'[u].stats = req[u].stats
              /\ req[u].stats # Nil => req'[u].pc = "done"
           \/ req'[u].pc = "resume" /\ uploadSessions'[req[u].sid] = Nil
    BY <1>1, <1>3, UploadOpen DEF TypeOK
  <2>2. ASSUME NEW v \in Uploads, req'[v].stats # Nil
        PROVE  /\ req'[v].pc \in {"resume", "done"}
               /\ uploadSessions'[req'[v].sid] = Nil
    <3>1. CASE v # u
      <4>1. req[v].sid \in Sessions
        BY <1>1, <2>1, <2>2, <3>1 DEF V1LastInv, TypeOK
      <4>2. QED
        BY <2>1, <2>2, <3>1, <4>1 DEF V1LastInv
    <3>2. CASE v = u
      BY <2>1, <2>2, <3>2 DEF V1LastInv
    <3>3. QED
      BY <3>1, <3>2
  <2>3. \A v \in Uploads : /\ req'[v].pc \notin {"query", "validate"}
                           /\ req'[v].outcome = "refused" => At(v, "done")'
    BY <2>1 DEF V1LastInv, At
  <2>4. V1LastInv'
    BY <1>2, <2>2, <2>3 DEF V1LastInv
  <2>5. QED
    BY <2>1, <2>4
<1>4. ASSUME \/ \E u \in Uploads : EndStep(u)
             \/ \E c \in Cancels : CancelStep(c) \/ \E s \in Sessions : CancelArrive(c, s)
      PROVE  /\ req' = req
             /\ \A s \in Sessions : uploadSessions'[s] # Nil => uploadSessions'[s] = uploadSessions[s]
             /\ \A c \in Cancels : cancel[c].pc = "done" => cancel'[c] = cancel[c]
             /\ V1LastInv'
  <2>1. \/ uploadSessions' = uploadSessions
        \/ \E s : uploadSessions' = [uploadSessions EXCEPT ![s] = Nil]
    BY <1>4 DEF EndStep, EndNotify, EndCleanup, EndRemove, CancelStep, CancelRemove,
          CancelDestroy, CancelArrive, RemoveUploadSession, caches
  <2>2. \A s \in Sessions : uploadSessions'[s] # Nil => uploadSessions'[s] = uploadSessions[s]
    BY <1>1, <2>1 DEF TypeOK
  <2>3. req' = req
    BY <1>4 DEF EndStep, EndNotify, EndCleanup, EndRemove, CancelStep, CancelRemove,
          CancelDestroy, CancelArrive
  <2>4. \A c \in Cancels : cancel[c].pc = "done" => cancel'[c] = cancel[c]
    BY <1>1, <1>4 DEF EndStep, EndNotify, EndCleanup, EndRemove, CancelStep, CancelRemove,
          CancelDestroy, CancelArrive, TypeOK, CancelRequest
  <2>5. V1LastInv'
    <3>1. \A v \in Uploads : req[v].stats # Nil => uploadSessions'[req[v].sid] = Nil
      BY <1>1, <2>2 DEF V1LastInv, TypeOK
    <3>2. QED
      BY <1>2, <2>3, <3>1 DEF V1LastInv, At
  <2>6. QED
    BY <2>2, <2>3, <2>4, <2>5
<1>5. /\ \A u \in Uploads : /\ req'[u].fid = req[u].fid
                            /\ req'[u].outcome = "refused" <=> req[u].outcome = "refused"
      /\ \A s \in Sessions : uploadSessions'[s] # Nil =>
           uploadSessions[s] # Nil /\ uploadSessions'[s] \subseteq uploadSessions[s]
      /\ \A c \in Cancels : cancel[c].pc = "done" => cancel'[c] = cancel[c]
      /\ V1LastInv'
  BY <1>3, <1>4 DEF BaseStep
<1>6. ASSUME NEW s \in Sessions, Open(s)'
      PROVE  Open(s)
  BY <1>1, <1>2, <1>5, <1>6, BaseFrame DEF Open, CancelDone
<1>7. QED
  BY <1>1, <1>5, <1>6, BaseFrame

\* So they keep the invariant.
LEMMA BaseReaches ==
    ASSUME V1IInv, OpenInv, BaseStep, UNCHANGED v1vars
    PROVE  OpenInv'
<1>1. TypeOK /\ V1TypeOK /\ AnsweredInv /\ V1LastInv
  BY DEF V1IInv, OpenInv
<1>2. /\ v1Sessions' = v1Sessions /\ sender' = sender /\ answered' = answered
      /\ meant' = meant /\ unmapped' = unmapped /\ displaced' = displaced
      /\ v1Cancel' = v1Cancel
  BY DEF v1vars
<1>3. /\ prepare' = prepare
      /\ \A u \in Uploads : /\ req'[u].sid = req[u].sid /\ req'[u].fid = req[u].fid
                            /\ At(u, "idle")' <=> At(u, "idle")
                            /\ req'[u].outcome = "refused" <=> req[u].outcome = "refused"
      /\ \A s \in Sessions : uploadSessions'[s] # Nil =>
           uploadSessions[s] # Nil /\ uploadSessions'[s] \subseteq uploadSessions[s]
      /\ \A s \in Sessions : Open(s)' => Open(s)
      /\ V1LastInv'
  BY <1>1, BaseOpen, BaseFrame
<1>4. OneOpen' /\ MapOpen' /\ Mapping'
  BY <1>2, <1>3 DEF OpenInv, OneOpen, MapOpen, Mapping
<1>5. Led'
  BY <1>1, <1>2, <1>3 DEF OpenInv, Led, Reached, AnsweredInv, V1TypeOK
<1>6. QED
  BY <1>3, <1>4, <1>5 DEF OpenInv

-----------------------------------------------------------------------------
(* The steps of V1Session itself, without Overlap                          *)

\* Where an upload has gone is a session of the address that sent it.
LEMMA UploadSender ==
    ASSUME V1IInv, NEW u \in Uploads, ~At(u, "idle")
    PROVE  /\ meant[u] \in answered /\ meant[u] \in Sessions
           /\ req[u].sid \in Sessions
           /\ sender[req[u].sid] = From(u) /\ sender[meant[u]] = From(u) /\ From(u) \in Addrs
           /\ prepare[req[u].sid] # "none" /\ prepare[meant[u]] = "ready"
<1>1. TypeOK /\ V1TypeOK /\ AnsweredInv /\ V1StaysWithItsSender
  BY DEF V1IInv
<1>2. meant[u] \in answered /\ meant[u] \in Sessions /\ prepare[meant[u]] = "ready"
  BY <1>1 DEF AnsweredInv, V1TypeOK
<1>3. req[u].sid \in Sessions /\ sender[req[u].sid] = From(u) /\ From(u) = sender[meant[u]]
  BY <1>1 DEF TypeOK, V1StaysWithItsSender, From, At
<1>4. QED
  BY <1>1, <1>2, <1>3 DEF V1TypeOK

\* A sender that may ask for a session has no open one.
LEMMA AskedIsOver ==
    ASSUME V1IInv, V1LastInv, ~Overlap, NEW a \in Addrs, MayAsk(a),
           NEW s \in Sessions, sender[s] = a
    PROVE  ~Open(s)
BY DEF MayAsk, Open, Over, CancelDone

\* A session that is asked for is the only open one of its address.
LEMMA AcceptReaches ==
    ASSUME V1IInv, OpenInv, ~Overlap, NEW s \in Sessions, NEW a \in Addrs,
           NEW fs \in SUBSET Files, V1Accept(s, a, fs)
    PROVE  OpenInv'
<1>1. TypeOK /\ V1TypeOK /\ AnsweredInv /\ V1StaysWithItsSender /\ V1LastInv
  BY DEF V1IInv, OpenInv
<1>2. /\ prepare[s] = "none" /\ prepare' = [prepare EXCEPT ![s] = "accepted"]
      /\ uploadSessions' = [uploadSessions EXCEPT ![s] = fs]
      /\ req' = req /\ ending' = ending /\ cancel' = cancel
      /\ sender' = [sender EXCEPT ![s] = a]
      /\ v1Sessions' = v1Sessions /\ answered' = answered
      /\ meant' = meant /\ unmapped' = unmapped /\ displaced' = displaced
      /\ v1Cancel' = v1Cancel
      /\ MayAsk(a)
  BY DEF V1Accept, PrepareAccept
<1>3. \A t \in Sessions \ {s} : /\ prepare'[t] = prepare[t] /\ sender'[t] = sender[t]
                                /\ uploadSessions'[t] = uploadSessions[t]
                                /\ Open(t)' => Open(t)
  BY <1>1, <1>2 DEF TypeOK, V1TypeOK, Open, CancelDone
<1>4. prepare'[s] = "accepted" /\ sender'[s] = a
  BY <1>1, <1>2 DEF TypeOK, V1TypeOK
<1>5. \A u \in Uploads : ~At(u, "idle") => req[u].sid # s /\ meant[u] # s
                                           /\ req[u].sid \in Sessions /\ meant[u] \in Sessions
  BY <1>2, UploadSender
<1>6. OneOpen'
  <2> SUFFICES ASSUME NEW t \in Sessions, NEW x \in Sessions, t # x, sender'[t] = sender'[x],
                      x # s
               PROVE  ~Open(t)' \/ ~Open(x)'
    BY DEF OneOpen
  <2>1. CASE t = s
    BY <1>1, <1>2, <1>3, <1>4, <2>1, AskedIsOver
  <2>2. CASE t # s
    BY <1>3, <2>2 DEF OpenInv, OneOpen
  <2>3. QED
    BY <2>1, <2>2
<1>7. MapOpen' /\ Mapping'
  BY <1>2, <1>3, <1>4 DEF OpenInv, MapOpen, Mapping
<1>8. V1LastInv'
  <2>1. \A u \in Uploads : req[u].stats # Nil => uploadSessions'[req[u].sid] = Nil
    BY <1>1, <1>3, <1>5 DEF V1LastInv, At
  <2>2. QED
    BY <1>1, <1>2, <2>1 DEF V1LastInv, At
<1>9. Led'
  BY <1>2, <1>3, <1>5 DEF OpenInv, Led, Reached, At
<1>10. QED
  BY <1>6, <1>7, <1>8, <1>9 DEF OpenInv

\* The map is set to it.
LEMMA StoreReaches ==
    ASSUME V1IInv, OpenInv, NEW s \in Sessions, V1Store(s)
    PROVE  OpenInv'
<1>1. TypeOK /\ V1TypeOK /\ V1LastInv
  BY DEF V1IInv, OpenInv
<1>2. /\ prepare[s] = "accepted" /\ prepare' = [prepare EXCEPT ![s] = "ready"]
      /\ v1Sessions' = [v1Sessions EXCEPT ![sender[s]] = s]
      /\ uploadSessions' = uploadSessions
      /\ UNCHANGED <<req, cancel, sender, answered, meant, displaced, v1Cancel>>
  BY DEF V1Store, Mapped, caches
<1>3. sender[s] \in Addrs /\ s # Nil /\ s \notin answered
  BY <1>1, <1>2, ConstantsAssumption DEF V1TypeOK
<1>4. \A t \in Sessions : /\ Open(t)' => Open(t)
                          /\ t # s => prepare'[t] = prepare[t]
  BY <1>1, <1>2 DEF TypeOK, Open, CancelDone
<1>5. \A t \in Sessions \ {s} : sender[t] = sender[s] => ~Open(t)
  BY <1>2, <1>3 DEF OpenInv, OneOpen, Open
<1>6. \A a \in Addrs : v1Sessions'[a] = IF a = sender[s] THEN s ELSE v1Sessions[a]
  BY <1>1, <1>2 DEF V1TypeOK
<1>7. OneOpen'
  BY <1>2, <1>4 DEF OpenInv, OneOpen
<1>8. MapOpen'
  <2> SUFFICES ASSUME NEW a \in Addrs, NEW t \in Sessions, v1Sessions'[a] # Nil,
                      v1Sessions'[a] # t, sender[t] = a, prepare'[t] = "ready"
               PROVE  ~Open(t)
    BY <1>2, <1>4 DEF MapOpen
  <2>1. t # s
    BY <1>6
  <2>2. QED
    BY <1>4, <1>5, <1>6, <2>1 DEF OpenInv, MapOpen
<1>9. Mapping'
  <2> SUFFICES ASSUME NEW t \in Sessions, prepare'[t] = "ready", uploadSessions[t] # Nil,
                      \A c \in Cancels : v1Cancel[c].sid # t
               PROVE  v1Sessions'[sender[t]] = t \/ t \in displaced
    BY <1>2 DEF Mapping
  <2>1. CASE t = s
    BY <1>3, <1>6, <2>1
  <2>2. CASE t # s
    <3>1. prepare[t] = "ready" /\ Open(t) /\ sender[t] \in Addrs
      BY <1>1, <1>4, <2>2 DEF Open, V1TypeOK
    <3>2. QED
      BY <1>5, <1>6, <2>2, <3>1 DEF OpenInv, Mapping
  <2>3. QED
    BY <2>1, <2>2
<1>10. V1LastInv' /\ Led'
  BY <1>1, <1>2 DEF V1LastInv, OpenInv, Led, Reached, At
<1>11. QED
  BY <1>7, <1>8, <1>9, <1>10 DEF OpenInv

\* The reply leaves it open for the sake of its files, or closes it.
LEMMA RespondReaches ==
    ASSUME V1IInv, OpenInv, NEW s \in Sessions, V1Respond(s)
    PROVE  OpenInv'
<1>1. /\ answered' = answered \cup {s} /\ uploadSessions' = uploadSessions
      /\ UNCHANGED <<prepare, req, cancel, v1Sessions, sender, meant, displaced, v1Cancel>>
  BY DEF V1Respond
<1>2. \A t \in Sessions : Open(t)' => Open(t)
  BY <1>1 DEF Open, CancelDone
<1>3. QED
  BY <1>1, <1>2 DEF OpenInv, OneOpen, MapOpen, Mapping, V1LastInv, Led, Reached, At

\* An upload whose file is expected finds its session in the map.
LEMMA ArriveReaches ==
    ASSUME V1IInv, OpenInv, ~Overlap, NEW u \in Uploads, NEW s \in Sessions,
           NEW f \in Files, V1UploadArrive(u, s, f)
    PROVE  OpenInv'
<1>1. /\ TypeOK /\ V1TypeOK /\ V1LastInv
      /\ req[u] \in Request /\ req \in [Uploads -> Request]
  BY DEF V1IInv, OpenInv, TypeOK
<1> DEFINE found == v1Sessions[sender[s]]
<1>2. /\ req[u].pc = "idle" /\ s \in answered
      /\ \A c \in Cancels : v1Cancel[c].sid # s
      /\ meant' = [meant EXCEPT ![u] = s]
      /\ UNCHANGED <<prepare, uploadSessions, cancel, v1Sessions, sender, answered,
                     displaced, v1Cancel>>
  BY DEF V1UploadArrive, V1MaySend, At, caches
<1>3. /\ req'[u].fid = f /\ req'[u].stats = req[u].stats
      /\ \A v \in Uploads \ {u} : req'[v] = req[v]
      /\ \/ req'[u].pc = "done" /\ found = Nil /\ req'[u].outcome = "refused"
         \/ /\ req'[u].pc = "lookup" /\ found # Nil /\ req'[u].sid = found
            /\ req'[u].outcome = req[u].outcome
  <2>1. CASE found = Nil
    BY <1>1, <2>1 DEF V1UploadArrive, Request
  <2>2. CASE found # Nil
    BY <1>1, <2>2 DEF V1UploadArrive, Request
  <2>3. QED
    BY <2>1, <2>2
<1>4. req[u].stats = Nil /\ req[u].outcome # "refused"
  BY <1>1, <1>2 DEF V1LastInv, At
<1>5. V1LastInv'
  BY <1>1, <1>2, <1>3, <1>4 DEF V1LastInv, At
<1>6. \A t \in Sessions : Open(t)' => Open(t)
  BY <1>2, <1>3, <1>4 DEF Open, CancelDone
<1>7. OneOpen' /\ MapOpen' /\ Mapping'
  BY <1>2, <1>6 DEF OpenInv, OneOpen, MapOpen, Mapping
<1>8. \A v \in Uploads : meant'[v] = IF v = u THEN s ELSE meant[v]
  BY <1>1, <1>2 DEF V1TypeOK
<1>9. uploadSessions[s] # Nil => \/ found = s /\ s # Nil
                                 \/ found = Nil /\ s \in displaced
  <2>1. /\ prepare[s] = "ready" /\ s \in Sessions /\ s # Nil /\ sender[s] \in Addrs
    BY <1>1, <1>2, ConstantsAssumption DEF V1TypeOK
  <2>2. uploadSessions[s] # Nil => found = s \/ found = Nil
    BY <2>1 DEF OpenInv, MapOpen, Open
  <2>3. QED
    BY <1>2, <2>1, <2>2 DEF OpenInv, Mapping
<1>10. Led'
  <2> SUFFICES ASSUME NEW v \in Uploads, ~At(v, "idle")', uploadSessions'[meant'[v]] # Nil
               PROVE  Reached(v)'
    BY DEF Led
  <2>1. CASE v = u
    <3>1. meant'[u] = s /\ uploadSessions[s] # Nil /\ displaced' = displaced
      BY <1>2, <1>8, <2>1
    <3>2. CASE found = s /\ s # Nil
      BY <1>3, <1>4, <2>1, <3>1, <3>2 DEF Reached
    <3>3. CASE found = Nil /\ s \in displaced
      <4>1. req'[u].outcome = "refused"
        BY <1>3, <3>3
      <4>2. QED
        BY <2>1, <3>1, <3>3, <4>1 DEF Reached
    <3>4. QED
      BY <1>9, <3>1, <3>2, <3>3
  <2>2. CASE v # u
    BY <1>2, <1>3, <1>8, <2>2 DEF OpenInv, Led, Reached, At
  <2>3. QED
    BY <2>1, <2>2
<1>11. QED
  BY <1>5, <1>7, <1>10 DEF OpenInv

\* When an address is forgotten, none of its sessions is expected but one that is being
\* cancelled, and one that is displaced.
LEMMA ForgetReaches ==
    ASSUME V1IInv, OpenInv, NEW a \in Addrs,
           v1Sessions' = [v1Sessions EXCEPT ![a] = Nil],
           UNCHANGED <<vars, sender, answered, meant>>, displaced \subseteq displaced',
           V1LastInv', \A s \in Sessions : Open(s)' => Open(s),
           \A c \in Cancels : v1Cancel'[c].sid = v1Cancel[c].sid,
           \A s \in Sessions : sender[s] = a /\ (\A c \in Cancels : v1Cancel[c].sid # s)
              => uploadSessions[s] = Nil \/ prepare[s] # "ready" \/ s \in displaced'
    PROVE  OpenInv'
<1>1. UNCHANGED <<prepare, uploadSessions, req>>
  BY DEF vars, caches
<1>2. \A b \in Addrs : v1Sessions'[b] = IF b = a THEN Nil ELSE v1Sessions[b]
  BY DEF V1IInv, V1TypeOK
<1>3. OneOpen' /\ MapOpen'
  BY <1>1, <1>2 DEF OpenInv, OneOpen, MapOpen
<1>4. Mapping'
  <2> SUFFICES ASSUME NEW s \in Sessions, prepare[s] = "ready", uploadSessions[s] # Nil,
                      \A c \in Cancels : v1Cancel[c].sid # s, s \notin displaced'
               PROVE  v1Sessions'[sender[s]] = s
    BY <1>1 DEF Mapping
  <2>1. sender[s] \in Addrs /\ sender[s] # a
    BY DEF V1IInv, V1TypeOK
  <2>2. QED
    BY <1>2, <2>1 DEF OpenInv, Mapping
<1>5. Led'
  BY <1>1 DEF OpenInv, Led, Reached, At
<1>6. QED
  BY <1>3, <1>4, <1>5 DEF OpenInv

\* The end of a failed session.
LEMMA EndUnmapReaches ==
    ASSUME V1IInv, OpenInv, NEW u \in Uploads, V1EndUnmap(u)
    PROVE  OpenInv'
<1>1. TypeOK /\ V1TypeOK /\ V1LastInv
  BY DEF V1IInv, OpenInv
<1>2. /\ ending[u].pc = "cleanup" /\ v1Sessions' = [v1Sessions EXCEPT ![From(u)] = Nil]
      /\ displaced' = displaced \cup ({v1Sessions[From(u)]} \ {meant[u], Nil})
      /\ UNCHANGED <<vars, sender, answered, meant, v1Cancel>>
  BY DEF V1EndUnmap, RemoveV1Session
<1>3. /\ req[u].stats # Nil /\ req[u].pc = "done" /\ uploadSessions[req[u].sid] = Nil
  BY <1>1, <1>2, NilAssumption DEF TypeOK, V1LastInv
<1>4. /\ From(u) \in Addrs /\ meant[u] \in Sessions /\ ~At(u, "idle")
      /\ sender[meant[u]] = From(u)
  BY <1>1, <1>3, UploadSender DEF At
<1>5. uploadSessions[meant[u]] = Nil \/ meant[u] \in displaced
  BY <1>3, <1>4 DEF OpenInv, Led, Reached
<1>6. ASSUME NEW s \in Sessions, sender[s] = From(u), \A c \in Cancels : v1Cancel[c].sid # s,
             prepare[s] = "ready", uploadSessions[s] # Nil
      PROVE  s \in displaced'
  <2>1. v1Sessions[From(u)] = s \/ s \in displaced
    BY <1>6 DEF OpenInv, Mapping
  <2>2. CASE s = meant[u]
    BY <1>2, <1>5, <1>6, <2>2
  <2>3. CASE s # meant[u]
    BY <1>2, <2>1, <2>3, ConstantsAssumption
  <2>4. QED
    BY <2>2, <2>3
<1>7. V1LastInv' /\ \A s \in Sessions : Open(s)' => Open(s)
  BY <1>1, <1>2 DEF V1LastInv, Open, CancelDone, At, vars, caches
<1> DEFINE a == From(u)
<1>8. /\ a \in Addrs /\ v1Sessions' = [v1Sessions EXCEPT ![a] = Nil]
      /\ \A s \in Sessions : sender[s] = a /\ (\A c \in Cancels : v1Cancel[c].sid # s)
           => uploadSessions[s] = Nil \/ prepare[s] # "ready" \/ s \in displaced'
  BY <1>2, <1>4, <1>6
<1> HIDE DEF a
<1>9. QED
  BY <1>2, <1>7, <1>8, ForgetReaches

\* The end of a cancel.
LEMMA CancelUnmapReaches ==
    ASSUME V1IInv, OpenInv, NEW c \in Cancels, V1CancelUnmap(c)
    PROVE  OpenInv'
<1>1. /\ TypeOK /\ V1TypeOK /\ V1LastInv /\ V1StaysWithItsSender
      /\ v1Cancel[c] \in V1CancelRequest /\ v1Cancel \in [Cancels -> V1CancelRequest]
  BY DEF V1IInv, OpenInv, V1TypeOK
<1>2. /\ cancel[c].pc = "done" /\ cancel[c].found /\ v1Cancel[c].addr # Nil
      /\ v1Sessions' = [v1Sessions EXCEPT ![v1Cancel[c].addr] = Nil]
      /\ v1Cancel' = [v1Cancel EXCEPT ![c].addr = Nil]
      /\ UNCHANGED <<vars, sender, answered, meant, displaced>>
  BY DEF V1CancelUnmap, RemoveV1Session
<1>3. PICK a \in Addrs, t \in Sessions : a = v1Cancel[c].addr /\ t = v1Cancel[c].sid
  BY <1>1, <1>2 DEF V1CancelRequest, V1LastInv
<1>4. sender[t] = a /\ a # Nil
  BY <1>1, <1>2, <1>3 DEF V1StaysWithItsSender, V1LastInv
<1>5. Open(t)
  BY <1>1, <1>2, <1>3, <1>4 DEF Open, CancelDone, V1TypeOK
<1>6. ASSUME NEW s \in Sessions, sender[s] = a, \A d \in Cancels : v1Cancel[d].sid # s
      PROVE  uploadSessions[s] = Nil
  <2>1. s # t
    BY <1>3, <1>6
  <2>2. QED
    BY <1>1, <1>4, <1>5, <1>6, <2>1 DEF OpenInv, OneOpen, Open, V1TypeOK
<1>7. \A d \in Cancels : /\ v1Cancel'[d].sid = v1Cancel[d].sid
                         /\ v1Cancel'[d].addr \in {Nil, v1Cancel[d].addr}
  BY <1>1, <1>2 DEF V1CancelRequest
<1>8. V1LastInv' /\ \A s \in Sessions : Open(s)' => Open(s)
  BY <1>1, <1>2, <1>7 DEF V1LastInv, Open, CancelDone, At, vars, caches
<1>9. v1Sessions' = [v1Sessions EXCEPT ![a] = Nil]
  BY <1>2, <1>3
<1>10. QED
  BY <1>2, <1>6, <1>7, <1>8, <1>9, ForgetReaches

\* Expiry, of an address that has nothing under way.
LEMMA ExpireReaches ==
    ASSUME V1IInv, OpenInv, ~Overlap, NEW a \in Addrs, V1Expire(a)
    PROVE  OpenInv'
<1>1. TypeOK /\ V1TypeOK /\ V1LastInv
  BY DEF V1IInv, OpenInv
<1>2. /\ v1Sessions' = [v1Sessions EXCEPT ![a] = Nil]
      /\ UNCHANGED <<vars, sender, answered, meant, displaced, v1Cancel>>
      /\ \A s \in Sessions : sender[s] = a => uploadSessions[s] = Nil
  BY DEF V1Expire, MayAsk, Over
<1>3. V1LastInv' /\ \A s \in Sessions : Open(s)' => Open(s)
  BY <1>1, <1>2 DEF V1LastInv, Open, CancelDone, At, vars, caches
<1>4. QED
  BY <1>2, <1>3, ForgetReaches

\* A cancel takes up the session the map leads to, when no other of its address is open.
LEMMA CancelReaches ==
    ASSUME V1IInv, OpenInv, ~Overlap, NEW c \in Cancels, NEW a \in Addrs,
           V1CancelArrive(c, a)
    PROVE  OpenInv'
<1>1. /\ TypeOK /\ V1TypeOK /\ V1LastInv /\ V1StaysWithItsSender
  BY DEF V1IInv, OpenInv
<1> DEFINE t == v1Sessions[a]
<1>2. /\ \A s \in Sessions : sender[s] = a => s \in answered
      /\ v1Cancel[c].sid = Nil /\ t # Nil
      /\ v1Cancel' = [v1Cancel EXCEPT ![c] = [addr |-> a, sid |-> t]]
      /\ UNCHANGED <<vars, v1Sessions, sender, answered, meant, displaced>>
  BY DEF V1CancelArrive, MayCancel
<1>3. t \in Sessions /\ sender[t] = a
  BY <1>1, <1>2 DEF V1TypeOK, V1StaysWithItsSender
<1>4. UNCHANGED <<prepare, uploadSessions, req, cancel>>
  BY <1>2 DEF vars, caches
<1>5. /\ v1Cancel'[c].sid = t
      /\ \A d \in Cancels \ {c} : v1Cancel'[d] = v1Cancel[d]
  BY <1>1, <1>2 DEF V1TypeOK
<1> HIDE DEF t
<1>6. \A s \in Sessions \ {t} : Open(s)' => Open(s)
  BY <1>2, <1>4, <1>5 DEF Open, CancelDone
<1>7. \A s \in Sessions \ {t} : sender[s] = a => ~Open(s)
  BY <1>1, <1>2 DEF OpenInv, MapOpen, V1TypeOK, t
<1>8. OneOpen'
  BY <1>2, <1>3, <1>6, <1>7 DEF OpenInv, OneOpen
<1>9. MapOpen'
  BY <1>2, <1>3, <1>4, <1>6 DEF OpenInv, MapOpen, t
<1>10. Mapping'
  <2>1. ASSUME NEW s \in Sessions, \A d \in Cancels : v1Cancel'[d].sid # s
        PROVE  \A d \in Cancels : v1Cancel[d].sid # s
    BY <1>2, <1>5, <2>1, ConstantsAssumption
  <2>2. QED
    BY <1>2, <1>4, <2>1 DEF OpenInv, Mapping
<1>11. V1LastInv'
  <2>1. t # Nil
    BY <1>2
  <2>2. QED
    BY <1>1, <1>4, <1>5, <2>1 DEF V1LastInv, At
<1>12. Led'
  BY <1>2, <1>4 DEF OpenInv, Led, Reached, At
<1>13. QED
  BY <1>8, <1>9, <1>10, <1>11, <1>12 DEF OpenInv

\* The invariant behind V1UploadReachesItsSession is inductive.
THEOREM V1OpenInvariance == ~Overlap => (V1Spec => [](V1IInv /\ OpenInv))
<1> SUFFICES ASSUME ~Overlap PROVE V1Spec => [](V1IInv /\ OpenInv)
  OBVIOUS
<1>1. V1Init => OpenInv
  BY DEF V1Init, Init, OpenInv, V1LastInv, OneOpen, MapOpen, Mapping, Open,
        Led, At
<1>2. V1IInv /\ OpenInv /\ [V1Next]_allvars => OpenInv'
  <2> SUFFICES ASSUME V1IInv, OpenInv, [V1Next]_allvars PROVE OpenInv'
    OBVIOUS
  <2>1. CASE UNCHANGED allvars
    BY <2>1 DEF allvars, vars, caches, v1vars, OpenInv, V1LastInv, OneOpen, MapOpen, Mapping,
          Open, CancelDone, Led, Reached, At
  <2>2. ASSUME NEW u \in Uploads, UploadStep(u) /\ UNCHANGED v1vars
        PROVE  OpenInv'
    BY <2>2, BaseReaches DEF BaseStep
  <2>3. ASSUME NEW u \in Uploads, V1EndStep(u)
        PROVE  OpenInv'
    BY <2>3, BaseReaches DEF BaseStep, V1EndStep, EndStep
  <2>4. ASSUME NEW c \in Cancels, V1CancelStep(c)
        PROVE  OpenInv'
    <3>1. v1Cancel[c].sid # Nil => v1Cancel[c].sid \in Sessions
      BY DEF V1IInv, V1TypeOK, V1CancelRequest
    <3>2. QED
      BY <2>4, <3>1, BaseReaches DEF BaseStep, V1CancelStep
  <2>5. QED
    BY <2>1, <2>2, <2>3, <2>4, AcceptReaches, StoreReaches, RespondReaches, ArriveReaches,
       EndUnmapReaches, CancelReaches, CancelUnmapReaches, ExpireReaches DEF V1Next
<1>3. QED
  BY <1>1, <1>2, V1Invariance, PTL DEF V1Spec

\* A sender that is done with one session, as far as it can tell, before it asks for
\* the next never has a file put into another session while its session expects it, and
\* has it turned away only after a goroutine that was still ending an earlier session of
\* its own has deleted the mapping: no other address, no cancel, and no end of the
\* session itself can.
THEOREM V1UploadsArrive == V1Spec => []V1UploadReachesItsSession
<1>1. CASE Overlap
  <2>1. V1UploadReachesItsSession
    BY <1>1 DEF V1UploadReachesItsSession
  <2>2. QED
    BY <2>1, PTL
<1>2. CASE ~Overlap
  <2>1. V1IInv /\ OpenInv => V1UploadReachesItsSession
    BY DEF OpenInv, Led, Reached, V1UploadReachesItsSession, Pending
  <2>2. V1Spec => [](V1IInv /\ OpenInv)
    BY <1>2, V1OpenInvariance
  <2>3. QED
    BY <2>1, <2>2, PTL
<1>3. QED
  BY <1>1, <1>2

-----------------------------------------------------------------------------
(* Behind the map: what holds in ReceiveSession holds for senders of v1    *)

\* The map leads to sessions that requests may be about.
MapReady == \A a \in Addrs : v1Sessions[a] # Nil => prepare[v1Sessions[a]] = "ready"

\* StoreV1Session and the tally: no request is touched, and the caches that IInv speaks
\* of are left alone.
LEMMA RepliesKeep ==
    ASSUME IInv, TypeOK', UNCHANGED <<uploadSessions, sessionContexts, cancelled, disk,
                                      req, cancel, ending>>,
           \A s \in Sessions : prepare[s] # "none" => prepare'[s] # "none",
           \A s \in Sessions : prepare[s] = "ready" => prepare'[s] = "ready"
    PROVE  IInv'
<1>1. SessionsInv'
  BY DEF IInv, TypeOK, SessionsInv, Closed
<1>2. LastInv'
  BY DEF IInv, LastInv, Ended
<1>3. KnownInv'
  BY DEF IInv, KnownInv, Pending
<1>4. LateInv'
  BY DEF IInv, LateInv, Closed
<1>5. DiskInv'
  BY DEF IInv, DiskInv, OwnPath
<1>6. QED
  BY <1>1, <1>2, <1>3, <1>4, <1>5 DEF IInv

\* An upload that the map sends to a session, or that is turned away, has done nothing.
LEMMA V1ArriveBehind ==
    ASSUME TypeOK', V1TypeOK, IInv, MapReady, NEW u \in Uploads, NEW s \in Sessions,
           NEW f \in Files, V1UploadArrive(u, s, f)
    PROVE  IInv' /\ LastsKept
<1>1. /\ req[u].pc = "idle" /\ req \in [Uploads -> Request] /\ req[u] \in Request
      /\ s \in answered /\ prepare[s] = "ready"
      /\ UNCHANGED <<prepare, caches, disk, cancel, ending>>
  BY DEF V1UploadArrive, V1MaySend, At, IInv, TypeOK, V1TypeOK
<1>2. UNCHANGED <<uploadSessions, sessionContexts, cancelled>>
  BY <1>1 DEF caches
<1>3. /\ ~req[u].whole /\ req[u].path = Nil /\ req[u].stats = Nil /\ req[u].outcome = "none"
      /\ ~req[u].late /\ \A p \in DOMAIN disk : disk[p] # u
  BY <1>1 DEF IInv, LateInv, DiskInv, LastInv
<1> DEFINE Arrived(r) ==
      /\ r.sid \in Sessions /\ prepare[r.sid] = "ready"
      /\ r.pc = "lookup" \/ (r.pc = "done" /\ r.outcome # "saved")
      /\ r.late => CancelAnswered(r.sid)
      /\ ~r.whole /\ r.path = Nil /\ r.stats = Nil /\ r.outcome \in {"none", "refused"}
      /\ r.outcome = "refused" => r.pc = "done"
<1>4. PICK r : /\ Arrived(r)
               /\ \A v \in Uploads : req'[v] = IF v = u THEN r ELSE req[v]
  <2>1. PICK found \in Sessions \cup {Nil} : found = v1Sessions[sender[s]]
    BY <1>1 DEF V1TypeOK
  <2>2. CASE found = Nil
    <3> DEFINE r == [req[u] EXCEPT !.pc = "done", !.sid = s, !.fid = f, !.outcome = "refused"]
    <3>1. \A v \in Uploads : req'[v] = IF v = u THEN r ELSE req[v]
      BY <1>1, <2>1, <2>2 DEF V1UploadArrive
    <3>2. Arrived(r)
      BY <1>1, <1>3 DEF Request
    <3>3. QED
      BY <3>1, <3>2
  <2>3. CASE found # Nil
    <3> DEFINE r == [req[u] EXCEPT !.pc = "lookup", !.sid = found, !.fid = f,
                                   !.late = CancelAnswered(found)]
    <3>1. \A v \in Uploads : req'[v] = IF v = u THEN r ELSE req[v]
      BY <1>1, <2>1, <2>3 DEF V1UploadArrive
    <3>2. found \in Sessions /\ prepare[found] = "ready"
      BY <1>1, <2>1, <2>3 DEF MapReady, V1TypeOK
    <3>3. Arrived(r)
      BY <1>1, <1>3, <3>2 DEF Request
    <3>4. QED
      BY <3>1, <3>3
  <2>4. QED
    BY <2>2, <2>3
<1> HIDE DEF Arrived
<1>5. \A v \in Uploads \ {u} : req'[v] = req[v]
  BY <1>4
<1>6. req'[u] = r
  BY <1>4
<1>7. SessionsInv'
  BY <1>1, <1>2, <1>4 DEF Arrived, IInv, SessionsInv, Closed
<1>8. LastInv'
  BY <1>1, <1>2, <1>4 DEF Arrived, IInv, LastInv, Ended
<1>9. KnownInv'
  BY <1>2, <1>4 DEF Arrived, IInv, KnownInv, Pending
<1>10. r.late => Closed(r.sid)
  BY <1>4 DEF Arrived, IInv, SessionsInv, CancelAnswered
<1>11. LateInv'
  BY <1>1, <1>2, <1>3, <1>4, <1>10 DEF Arrived, IInv, LateInv, Closed
<1>12. DiskInv'
  <2>1. \A v \in Uploads : req'[v].path = req[v].path
    BY <1>3, <1>4 DEF Arrived
  <2>2. \A v \in Uploads : OwnPath(v)' <=> OwnPath(v)
    BY <2>1 DEF OwnPath
  <2>3. QED
    BY <1>1, <1>3, <1>4, <2>2 DEF Arrived, IInv, TypeOK, DiskInv
<1>13. LastsKept
  BY <1>3, <1>4 DEF Arrived, LastsKept
<1>14. QED
  BY <1>7, <1>8, <1>9, <1>11, <1>12, <1>13 DEF IInv

\* The steps of a session that are steps of ReceiveSession.
LEMMA BehindIsNext ==
    ASSUME V1IInv, [V1Next]_allvars
    PROVE  \/ [Next]_vars
           \/ \E s \in Sessions : V1Store(s) \/ V1Respond(s)
           \/ \E u \in Uploads, s \in Sessions, f \in Files : V1UploadArrive(u, s, f)
<1>1. \A c \in Cancels : v1Cancel[c].sid # Nil => v1Cancel[c].sid \in Sessions
  BY DEF V1IInv, V1TypeOK, V1CancelRequest
<1>2. QED
  BY <1>1 DEF V1Next, Next, V1Accept, PrepareStep, V1EndUnmap, V1EndStep, EndStep,
        V1CancelArrive, V1CancelStep, V1CancelUnmap, V1Expire, allvars

\* A session that requests may be about stays one.
LEMMA ReadyStays ==
    ASSUME V1IInv, [V1Next]_allvars, NEW s \in Sessions
    PROVE  /\ prepare[s] = "ready" => prepare'[s] = "ready"
           /\ (prepare'[s] = "none") => (prepare[s] = "none")
<1>1. prepare \in [Sessions -> {"none", "accepted", "ready"}]
  BY DEF V1IInv, TypeOK
<1>2. CASE BaseStep
  BY <1>2, BaseFrame DEF V1IInv
<1>3. CASE \E t \in Sessions : V1Store(t) \/ V1Respond(t)
  BY <1>1, <1>3 DEF V1Store, V1Respond
<1>4. CASE \E t \in Sessions, a \in Addrs, fs \in SUBSET Files : V1Accept(t, a, fs)
  BY <1>1, <1>4 DEF V1Accept, PrepareAccept
<1>5. CASE UNCHANGED prepare
  BY <1>5
<1>6. \A c \in Cancels : v1Cancel[c].sid # Nil => v1Cancel[c].sid \in Sessions
  BY DEF V1IInv, V1TypeOK, V1CancelRequest
<1>7. QED
  BY <1>2, <1>3, <1>4, <1>5, <1>6 DEF V1Next, BaseStep, V1EndUnmap, V1EndStep, EndStep,
        V1UploadArrive, V1CancelArrive, V1CancelStep, V1CancelUnmap, V1Expire, allvars, vars

\* The map only gets sessions that are ready.
LEMMA MapReadyStep ==
    ASSUME V1IInv, V1IInv', MapReady, [V1Next]_allvars
    PROVE  MapReady'
<1>1. ASSUME NEW a \in Addrs, v1Sessions'[a] # Nil
      PROVE  prepare'[v1Sessions'[a]] = "ready"
  <2>1. CASE \E s \in Sessions : V1Store(s)
    <3>1. PICK s \in Sessions : V1Store(s)
      BY <2>1
    <3>2. v1Sessions'[a] \in {s, v1Sessions[a]} /\ prepare'[s] = "ready"
      BY <1>1, <3>1 DEF V1Store, Mapped, V1IInv, TypeOK, V1TypeOK
    <3>3. QED
      BY <1>1, <3>2, ReadyStays DEF MapReady, V1IInv, V1TypeOK
  <2>2. CASE v1Sessions'[a] = v1Sessions[a]
    BY <1>1, <2>2, ReadyStays DEF MapReady, V1IInv, V1TypeOK
  <2>3. CASE \E b \in Addrs : RemoveV1Session(b)
    BY <1>1, <2>2, <2>3 DEF RemoveV1Session, V1IInv, V1TypeOK
  <2>4. CASE \E u \in Uploads : V1EndUnmap(u)
    BY <1>1, <2>2, <2>4 DEF V1EndUnmap, RemoveV1Session, V1IInv, V1TypeOK
  <2>5. CASE \E c \in Cancels : V1CancelUnmap(c)
    BY <1>1, <2>2, <2>5 DEF V1CancelUnmap, RemoveV1Session, V1IInv, V1TypeOK
  <2>6. CASE \E b \in Addrs : V1Expire(b)
    BY <1>1, <2>2, <2>6 DEF V1Expire, V1IInv, V1TypeOK
  <2>7. QED
    BY <2>1, <2>2, <2>4, <2>5, <2>6 DEF V1Next, V1Accept, V1Respond, V1UploadArrive,
       V1EndStep, V1CancelArrive, V1CancelStep, allvars, v1vars
<1>2. QED
  BY <1>1 DEF MapReady

\* Every step keeps the whole of IInv.
LEMMA BehindStays ==
    ASSUME V1IInv, V1IInv', IInv, MapReady, [V1Next]_allvars
    PROVE  IInv'
<1>1. TypeOK' /\ V1TypeOK
  BY DEF V1IInv
<1>2. CASE [Next]_vars
  BY <1>2, InvariantStep
<1>3. CASE \E s \in Sessions : V1Store(s) \/ V1Respond(s)
  <2>1. UNCHANGED <<uploadSessions, sessionContexts, cancelled, disk, req, cancel, ending>>
    BY <1>3 DEF V1Store, V1Respond, caches
  <2>2. QED
    BY <1>1, <2>1, ReadyStays, RepliesKeep
<1>4. CASE \E u \in Uploads, s \in Sessions, f \in Files : V1UploadArrive(u, s, f)
  BY <1>1, <1>4, V1ArriveBehind
<1>5. QED
  BY <1>2, <1>3, <1>4, BehindIsNext

\* The invariant of ReceiveSession is one of V1Session, overlapping sessions of an
\* address and stale entries of the map included.
THEOREM V1BehindInvariance == V1Spec => [](V1IInv /\ IInv /\ MapReady)
<1>1. V1Init => IInv /\ MapReady
  BY InitialInvariant DEF V1Init, MapReady
<1>2. V1IInv /\ V1IInv' /\ IInv /\ MapReady /\ [V1Next]_allvars => IInv' /\ MapReady'
  BY BehindStays, MapReadyStep
<1>3. QED
  BY <1>1, <1>2, V1Invariance, PTL DEF V1Spec

\* What holds of sessions of v2 holds of those of v1, whatever the map says: one
\* upload_end, no saved file unmarked, nothing back after a cancel, no file of a late
\* upload or of a body that was turned down, and every reported file on disk.
THEOREM V1Safety ==
    V1Spec => [](/\ OneUploadEnd /\ SavedFileWasKnown /\ CancelledStaysClosed
                 /\ LateUploadWritesNothing /\ FailedWholeUploadIsRemoved
                 /\ SavedFileOnDisk)
<1>1. IInv => /\ OneUploadEnd /\ SavedFileWasKnown /\ CancelledStaysClosed
              /\ LateUploadWritesNothing /\ FailedWholeUploadIsRemoved
              /\ SavedFileOnDisk
  BY InvariantImplies
<1>2. QED
  BY <1>1, V1BehindInvariance, PTL

\* And a session of v1 keeps the promise of UploadPromise.
THEOREM V1PromiseKept == V1Spec => ImplementsPromise
<1>1. V1Init => Promise!Init
  BY InitialPromise DEF V1Init
<1>2. V1IInv /\ V1IInv' /\ IInv /\ MapReady /\ [V1Next]_allvars
        => [Promise!Next]_(Promise!vars)
  <2> SUFFICES ASSUME V1IInv, V1IInv', IInv, MapReady, [V1Next]_allvars
               PROVE  [Promise!Next]_(Promise!vars)
    OBVIOUS
  <2>1. CASE [Next]_vars
    BY <2>1, StepImplements
  <2>2. CASE \E s \in Sessions : V1Store(s) \/ V1Respond(s)
    <3>1. UNCHANGED <<uploadSessions, req, ending>>
      BY <2>2 DEF V1Store, V1Respond, caches
    <3>2. \A s \in Sessions : (prepare'[s] = "none") <=> (prepare[s] = "none")
      BY <2>2 DEF V1Store, V1Respond, V1IInv, TypeOK
    <3>3. QED
      BY <3>1, <3>2, NotSeen DEF LastsKept, Notified
  <2>3. CASE \E u \in Uploads, s \in Sessions, f \in Files : V1UploadArrive(u, s, f)
    <3>1. UNCHANGED <<prepare, uploadSessions, ending>>
      BY <2>3 DEF V1UploadArrive, caches
    <3>2. LastsKept
      BY <2>3, V1ArriveBehind DEF V1IInv
    <3>3. QED
      BY <3>1, <3>2, NotSeen DEF Notified
  <2>4. QED
    BY <2>1, <2>2, <2>3, BehindIsNext
<1>3. QED
  BY <1>1, <1>2, V1BehindInvariance, PTL DEF V1Spec, ImplementsPromise, Promise!Spec

=============================================================================
