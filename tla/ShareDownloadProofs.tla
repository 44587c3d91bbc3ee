------------------------ MODULE ShareDownloadProofs ------------------------
(***************************************************************************)
(* Invariants of ShareDownload, and that it implements Consent, for any    *)
(* sessions and any number of requests.                                    *)
(***************************************************************************)
EXTENDS ShareDownload, FiniteSetTheorems, TLAPS

-----------------------------------------------------------------------------
(* Types and the pause counter *)

\* The downloads that are being served.
Serving == {d \in Downloads : download[d] = "serve"}

\* The counter is a natural number because it counts the downloads being served.
TypeInv == TypeOK /\ PausedForDownloads

\* A session step keeps the types.
LEMMA SessionKeepsTypeOK ==
    ASSUME TypeInv, NEW s \in Sessions, SessionStep(s)
    PROVE  TypeInv'
<1>1. CASE Create(s)
  BY <1>1 DEF Create, TypeInv, TypeOK, PausedForDownloads, askVars, downloadVars
<1>2. CASE CloseArrive(s)
  BY <1>2 DEF CloseArrive, TypeInv, TypeOK, PausedForDownloads, askVars, downloadVars
<1>3. CASE RemoveShareSession(s)
  BY <1>3 DEF RemoveShareSession, TypeInv, TypeOK, PausedForDownloads, downloadVars
<1>4. CASE Expire(s)
  BY <1>4 DEF Expire, TypeInv, TypeOK, PausedForDownloads, downloadVars
<1>5. QED
  BY <1>1, <1>2, <1>3, <1>4 DEF SessionStep

\* What a step of a prepare-download does to its record: it never goes back, it is
\* answered once, and no other record changes.
LEMMA PrepareTurns ==
    ASSUME TypeOK, NEW p \in Prepares, PrepareArrive(p) \/ PrepareStep(p)
    PROVE  /\ prepare' \in [Prepares -> Prepare]
           /\ \A q \in Prepares \ {p} : prepare'[q] = prepare[q]
           /\ prepare[p].asked => prepare'[p].asked
           /\ prepare'[p].verdict # prepare[p].verdict =>
                /\ prepare[p].pc \in {"idle", "notify", "wait", "list"}
                /\ prepare'[p].pc \in {"leave", "done"}
           /\ UNCHANGED <<sessionVars, downloadVars, confirm, heard>>
<1>1. prepare \in [Prepares -> Prepare]
  BY DEF TypeOK
<1>2. CASE PrepareArrive(p)
  BY <1>1, <1>2 DEF PrepareArrive, Goes, Refused, Prepare
<1>3. CASE PrepareQuery(p)
  BY <1>1, <1>3 DEF PrepareQuery, Goes, Prepare
<1>4. CASE PrepareRegister(p)
  BY <1>1, <1>4 DEF PrepareRegister, Prepare
<1>5. CASE PrepareNotify(p)
  BY <1>1, <1>5 DEF PrepareNotify, Goes, Refused, Prepare
<1>6. CASE PrepareHear(p)
  BY <1>1, <1>6 DEF PrepareHear, Goes, Refused, Prepare
<1>7. CASE PrepareTimeout(p)
  BY <1>1, <1>7 DEF PrepareTimeout, Refused, Prepare
<1>8. CASE PrepareMark(p)
  BY <1>1, <1>8 DEF PrepareMark, Goes, Prepare
<1>9. CASE PrepareAnswer(p)
  BY <1>1, <1>9 DEF PrepareAnswer, Prepare
<1>10. CASE PrepareLeave(p)
  BY <1>1, <1>10 DEF PrepareLeave, Goes, Prepare
<1>11. QED
  BY <1>2, <1>3, <1>4, <1>5, <1>6, <1>7, <1>8, <1>9, <1>10 DEF PrepareStep

\* What it does to the caches.
LEMMA PrepareCaches ==
    ASSUME TypeOK, NEW p \in Prepares, PrepareArrive(p) \/ PrepareStep(p)
    PROVE  /\ confirmDownloadChans' \in [Sessions -> Prepares \cup {NoPrepare}]
           /\ confirmedDownloadSess' \subseteq Sessions
           /\ answer' \in [Prepares -> {"none", "yes", "no"}]
<1>1. SessionOf[p] \in Sessions
  BY ConstantsAssumption
<1>2. CASE PrepareRegister(p)
  BY <1>1, <1>2 DEF PrepareRegister, TypeOK
<1>3. CASE PrepareHear(p) \/ PrepareMark(p) \/ PrepareLeave(p)
  BY <1>1, <1>3 DEF PrepareHear, PrepareMark, PrepareLeave, TypeOK
<1>4. CASE PrepareArrive(p) \/ PrepareQuery(p) \/ PrepareNotify(p) \/ PrepareTimeout(p)
             \/ PrepareAnswer(p)
  BY <1>4 DEF PrepareArrive, PrepareQuery, PrepareNotify, PrepareTimeout, PrepareAnswer,
        TypeOK
<1>5. QED
  BY <1>2, <1>3, <1>4 DEF PrepareStep

\* What a confirm-download does.
LEMMA ConfirmTurns ==
    ASSUME TypeOK, NEW c \in Confirms, ConfirmStep(c)
    PROVE  /\ confirm' \in [Confirms -> Confirm]
           /\ \A b \in Confirms \ {c} : confirm'[b] = confirm[b]
           /\ confirm'[c].pc \in {"send", "delete"} => confirm'[c].prepare \in Prepares
           /\ confirmDownloadChans' \in [Sessions -> Prepares \cup {NoPrepare}]
           /\ answer' \in [Prepares -> {"none", "yes", "no"}]
           /\ heard' \in [Prepares -> {"nothing", "yes", "no"}]
           /\ UNCHANGED <<confirmedDownloadSess, prepare, sessionVars, downloadVars>>
<1>1. confirm \in [Confirms -> Confirm]
  BY DEF TypeOK
<1>2. CASE ConfirmArrive(c)
  <2>1. PICK s \in Sessions, says \in {"yes", "no"} :
          confirm' = [confirm EXCEPT ![c] =
            IF confirmDownloadChans[s] = NoPrepare
            THEN [confirm[c] EXCEPT !.pc = "missed"]
            ELSE [pc |-> "send", prepare |-> confirmDownloadChans[s], says |-> says]]
    BY <1>2 DEF ConfirmArrive
  <2> DEFINE r == IF confirmDownloadChans[s] = NoPrepare
                  THEN [confirm[c] EXCEPT !.pc = "missed"]
                  ELSE [pc |-> "send", prepare |-> confirmDownloadChans[s], says |-> says]
  <2>2. r \in Confirm /\ (r.pc \in {"send", "delete"} => r.prepare \in Prepares)
    BY <1>1 DEF TypeOK, Confirm
  <2> HIDE DEF r
  <2>3. confirm' = [confirm EXCEPT ![c] = r]
    BY <2>1 DEF r
  <2>4. QED
    BY <1>1, <1>2, <2>2, <2>3 DEF ConfirmArrive, TypeOK
<1>3. CASE ConfirmSend(c)
  BY <1>1, <1>3 DEF ConfirmSend, TypeOK, Confirm
<1>4. CASE ConfirmDelete(c)
  BY <1>1, <1>4 DEF ConfirmDelete, TypeOK, Confirm
<1>5. QED
  BY <1>2, <1>3, <1>4 DEF ConfirmStep

\* A download raises and lowers the counter as it enters and leaves the served ones.
LEMMA DownloadKeepsTypeInv ==
    ASSUME TypeInv, NEW d \in Downloads, DownloadStep(d)
    PROVE  TypeInv'
<1>1. /\ download \in [Downloads -> {"idle", "pause", "serve", "done"}]
      /\ scanPauseCount \in Nat /\ scanPauseCount = Cardinality(Serving)
  BY DEF TypeInv, TypeOK, PausedForDownloads, Serving
<1>2. IsFiniteSet(Serving)
  BY ConstantsAssumption, FS_Subset DEF Serving
<1>3. download' \in [Downloads -> {"idle", "pause", "serve", "done"}]
  BY <1>1 DEF DownloadStep, DownloadArrive, DownloadPause, DownloadServed
<1>4. scanPauseCount' \in Nat /\ scanPauseCount' = Cardinality(Serving')
  <2>1. CASE DownloadArrive(d)
    <3>1. Serving' = Serving
      BY <1>1, <2>1 DEF DownloadArrive, Serving
    <3>2. QED
      BY <1>1, <2>1, <3>1 DEF DownloadArrive
  <2>2. CASE DownloadPause(d)
    <3>1. Serving' = Serving \cup {d} /\ d \notin Serving
      BY <1>1, <2>2 DEF DownloadPause, Serving
    <3>2. Cardinality(Serving') = Cardinality(Serving) + 1
      BY <1>2, <3>1, FS_AddElement
    <3>3. QED
      BY <1>1, <2>2, <3>2 DEF DownloadPause
  <2>3. CASE DownloadServed(d)
    <3>1. Serving' = Serving \ {d} /\ d \in Serving
      BY <1>1, <2>3 DEF DownloadServed, Serving
    <3>2. Cardinality(Serving') = Cardinality(Serving) - 1
      BY <1>2, <3>1, FS_RemoveElement
    <3>3. IsFiniteSet(Serving') /\ Cardinality(Serving') \in Nat
      BY <1>2, <3>1, FS_RemoveElement, FS_CardinalityType
    <3>4. QED
      BY <1>1, <2>3, <3>2, <3>3 DEF DownloadServed
  <2>4. QED
    BY <2>1, <2>2, <2>3 DEF DownloadStep
<1>5. UNCHANGED <<sessionVars, askVars>>
  BY DEF DownloadStep, DownloadArrive, DownloadPause, DownloadServed
<1>6. QED
  BY <1>3, <1>4, <1>5 DEF TypeInv, TypeOK, PausedForDownloads, Serving, sessionVars, askVars

\* TypeInv is inductive.
THEOREM TypeInvariance == Spec => []TypeInv
<1>1. Init => TypeInv
  <2> SUFFICES ASSUME Init PROVE TypeInv
    OBVIOUS
  <2>1. /\ prepare \in [Prepares -> Prepare]
        /\ confirm \in [Confirms -> Confirm]
        /\ \A c \in Confirms : confirm[c].pc = "idle"
    BY DEF Init, Prepare, Confirm
  <2>2. Serving = {}
    BY DEF Init, Serving
  <2>3. PausedForDownloads
    BY <2>2, FS_EmptySet DEF Init, PausedForDownloads, Serving
  <2>4. TypeOK
    BY <2>1 DEF Init, TypeOK
  <2>5. QED
    BY <2>3, <2>4 DEF TypeInv
<1>2. TypeInv /\ [Next]_vars => TypeInv'
  <2> SUFFICES ASSUME TypeInv, [Next]_vars PROVE TypeInv'
    OBVIOUS
  <2> USE DEF TypeInv
  <2>1. CASE UNCHANGED vars
    BY <2>1 DEF vars, sessionVars, askVars, downloadVars, TypeOK, PausedForDownloads
  <2>2. ASSUME NEW p \in Prepares, PrepareArrive(p) \/ PrepareStep(p) PROVE TypeInv'
    <3>1. /\ prepare' \in [Prepares -> Prepare]
          /\ UNCHANGED <<sessionVars, downloadVars, confirm, heard>>
      BY <2>2, PrepareTurns
    <3>2. /\ confirmDownloadChans' \in [Sessions -> Prepares \cup {NoPrepare}]
          /\ confirmedDownloadSess' \subseteq Sessions
          /\ answer' \in [Prepares -> {"none", "yes", "no"}]
      BY <2>2, PrepareCaches
    <3>3. TypeOK'
      BY <3>1, <3>2 DEF TypeOK, sessionVars, downloadVars
    <3>4. PausedForDownloads'
      BY <3>1 DEF PausedForDownloads, downloadVars
    <3>5. QED
      BY <3>3, <3>4
  <2>3. ASSUME NEW c \in Confirms, ConfirmStep(c) PROVE TypeInv'
    <3>1. /\ confirm' \in [Confirms -> Confirm]
          /\ \A b \in Confirms : confirm'[b].pc \in {"send", "delete"}
                                   => confirm'[b].prepare \in Prepares
      BY <2>3, ConfirmTurns DEF TypeOK
    <3>2. /\ confirmDownloadChans' \in [Sessions -> Prepares \cup {NoPrepare}]
          /\ answer' \in [Prepares -> {"none", "yes", "no"}]
          /\ heard' \in [Prepares -> {"nothing", "yes", "no"}]
          /\ UNCHANGED <<confirmedDownloadSess, prepare, sessionVars, downloadVars>>
      BY <2>3, ConfirmTurns
    <3>3. TypeOK'
      BY <3>1, <3>2 DEF TypeOK, sessionVars, downloadVars
    <3>4. QED
      BY <3>2, <3>3 DEF PausedForDownloads, downloadVars
  <2>4. QED
    BY <2>1, <2>2, <2>3, SessionKeepsTypeOK, DownloadKeepsTypeInv DEF Next
<1>3. QED
  BY <1>1, <1>2, PTL DEF Spec

\* TypeOK holds in every reachable state.
THEOREM TypeCorrect == Spec => []TypeOK
BY TypeInvariance, PTL DEF TypeInv

\* The pauses of downloads are given back, each once.
THEOREM DownloadPausesBalanced == Spec => []PausedForDownloads
BY TypeInvariance, PTL DEF TypeInv

-----------------------------------------------------------------------------
(* Requests, channels and answers *)

\* The record of a request agrees with what its channel holds and has heard.
AskOK(p) ==
    /\ prepare[p].verdict = "open"
         <=> prepare[p].pc \in {"idle", "query", "register", "notify", "wait", "mark",
                                "list"}
    /\ prepare[p].pc \in {"idle", "query", "register"} => ~prepare[p].asked
    /\ prepare[p].pc \in {"notify", "wait", "mark", "leave"} => prepare[p].asked
    /\ ~prepare[p].asked => heard[p] = "nothing" /\ answer[p] = "none"
    /\ prepare[p].pc \in {"notify", "wait"} =>
         heard[p] = IF answer[p] = "none" THEN "nothing" ELSE answer[p]
    /\ prepare[p].asked /\ (prepare[p].pc \in {"mark", "list"}
                              \/ prepare[p].verdict = "granted")
         => heard[p] = "yes"

\* A confirm-download found the channel of a request that asks, and has made it heard
\* before it deletes the channel.
ConfirmOK(c) ==
    /\ confirm[c].pc \in {"send", "delete"} => prepare[confirm[c].prepare].asked
    /\ confirm[c].pc = "delete" => heard[confirm[c].prepare] # "nothing"

AskInv ==
    /\ \A p \in Prepares : AskOK(p)
    /\ \A c \in Confirms : ConfirmOK(c)
    /\ RegisteredChannelHasReader

\* Every step of a prepare-download keeps its own record in order.
LEMMA PrepareKeepsAskOK ==
    ASSUME TypeOK, AskInv, NEW p \in Prepares, PrepareArrive(p) \/ PrepareStep(p)
    PROVE  AskOK(p)'
<1> USE DEF AskOK
<1>1. /\ prepare \in [Prepares -> Prepare] /\ AskOK(p)
      /\ answer \in [Prepares -> {"none", "yes", "no"}]
      /\ heard \in [Prepares -> {"nothing", "yes", "no"}]
  BY DEF TypeOK, AskInv
<1>2. CASE PrepareArrive(p)
  BY <1>1, <1>2 DEF PrepareArrive, Goes, Refused, Prepare
<1>3. CASE PrepareQuery(p)
  BY <1>1, <1>3 DEF PrepareQuery, Goes, Prepare
<1>4. CASE PrepareRegister(p)
  BY <1>1, <1>4 DEF PrepareRegister, Prepare
<1>5. CASE PrepareNotify(p)
  BY <1>1, <1>5 DEF PrepareNotify, Goes, Refused, Prepare
<1>6. CASE PrepareHear(p)
  BY <1>1, <1>6 DEF PrepareHear, Goes, Refused, Prepare
<1>7. CASE PrepareTimeout(p)
  BY <1>1, <1>7 DEF PrepareTimeout, Refused, Prepare
<1>8. CASE PrepareMark(p)
  BY <1>1, <1>8 DEF PrepareMark, Goes, Prepare
<1>9. CASE PrepareAnswer(p)
  BY <1>1, <1>9 DEF PrepareAnswer, Prepare
<1>10. CASE PrepareLeave(p)
  BY <1>1, <1>10 DEF PrepareLeave, Goes, Prepare
<1>11. QED
  BY <1>2, <1>3, <1>4, <1>5, <1>6, <1>7, <1>8, <1>9, <1>10 DEF PrepareStep

\* It registers its own channel or deletes the one of its session, and empties no
\* channel but its own.
LEMMA PrepareChannel ==
    ASSUME TypeOK, NEW p \in Prepares, PrepareArrive(p) \/ PrepareStep(p)
    PROVE  /\ \A q \in Prepares \ {p} : answer'[q] = answer[q]
           /\ \A s \in Sessions \ {SessionOf[p]} :
                confirmDownloadChans'[s] = confirmDownloadChans[s]
           /\ \/ UNCHANGED confirmDownloadChans /\ (Asking(p) => Asking(p)')
              \/ confirmDownloadChans'[SessionOf[p]] = p /\ Asking(p)'
              \/ confirmDownloadChans'[SessionOf[p]] = NoPrepare
<1>1. /\ prepare \in [Prepares -> Prepare] /\ SessionOf[p] \in Sessions
      /\ answer \in [Prepares -> {"none", "yes", "no"}]
      /\ confirmDownloadChans \in [Sessions -> Prepares \cup {NoPrepare}]
  BY ConstantsAssumption DEF TypeOK
<1>2. CASE PrepareRegister(p)
  BY <1>1, <1>2 DEF PrepareRegister, Prepare, Asking
<1>3. CASE PrepareLeave(p)
  BY <1>1, <1>3 DEF PrepareLeave
<1>4. CASE PrepareHear(p) \/ PrepareMark(p) \/ PrepareAnswer(p)
  BY <1>1, <1>4 DEF PrepareHear, PrepareMark, PrepareAnswer, Goes, Refused, Prepare, Asking
<1>5. CASE PrepareArrive(p) \/ PrepareQuery(p) \/ PrepareNotify(p) \/ PrepareTimeout(p)
  BY <1>1, <1>5 DEF PrepareArrive, PrepareQuery, PrepareNotify, PrepareTimeout, Goes,
        Refused, Prepare, Asking
<1>6. QED
  BY <1>2, <1>3, <1>4, <1>5 DEF PrepareStep

\* AskInv is inductive.
THEOREM AskInvariance == Spec => []AskInv
<1>1. Init => AskInv
  BY ConstantsAssumption
     DEF Init, AskInv, AskOK, ConfirmOK, RegisteredChannelHasReader
<1>2. TypeOK /\ TypeOK' /\ AskInv /\ [Next]_vars => AskInv'
  <2> SUFFICES ASSUME TypeOK, TypeOK', AskInv, [Next]_vars PROVE AskInv'
    OBVIOUS
  <2>1. CASE UNCHANGED vars
    BY <2>1 DEF vars, sessionVars, askVars, downloadVars, AskInv, AskOK, ConfirmOK,
          RegisteredChannelHasReader, Asking
  <2>2. ASSUME NEW s \in Sessions, SessionStep(s) PROVE AskInv'
    <3>1. UNCHANGED <<prepare, answer, confirm, heard>>
      BY <2>2 DEF SessionStep, Create, CloseArrive, RemoveShareSession, Expire, askVars
    <3>2. \A r \in Sessions : \/ confirmDownloadChans'[r] = confirmDownloadChans[r]
                              \/ confirmDownloadChans'[r] = NoPrepare
      BY <2>2 DEF SessionStep, Create, CloseArrive, RemoveShareSession, Expire, askVars,
            TypeOK
    <3>3. QED
      BY <3>1, <3>2, ConstantsAssumption
         DEF AskInv, AskOK, ConfirmOK, RegisteredChannelHasReader, Asking
  <2>3. ASSUME NEW p \in Prepares, PrepareArrive(p) \/ PrepareStep(p) PROVE AskInv'
    <3>1. \A q \in Prepares : AskOK(q)'
      <4>1. AskOK(p)'
        BY <2>3, PrepareKeepsAskOK
      <4>2. \A q \in Prepares \ {p} : AskOK(q)'
        BY <2>3, PrepareTurns, PrepareChannel DEF AskInv, AskOK
      <4>3. QED
        BY <4>1, <4>2
    <3>2. \A c \in Confirms : ConfirmOK(c)'
      BY <2>3, PrepareTurns DEF AskInv, ConfirmOK, TypeOK
    <3>3. RegisteredChannelHasReader'
      BY <2>3, PrepareTurns, PrepareChannel, ConstantsAssumption
         DEF AskInv, RegisteredChannelHasReader, Asking
    <3>4. QED
      BY <3>1, <3>2, <3>3 DEF AskInv
  <2>4. ASSUME NEW c \in Confirms, ConfirmStep(c) PROVE AskInv'
    <3>1. CASE ConfirmArrive(c)
      <4>1. confirm'[c].pc = "send"
              => \E s \in Sessions : confirm'[c].prepare = confirmDownloadChans[s]
        BY <3>1 DEF ConfirmArrive, TypeOK, Confirm
      <4>2. confirm'[c].pc \in {"send", "missed"}
        BY <3>1 DEF ConfirmArrive, TypeOK, Confirm
      <4>3. ConfirmOK(c)'
        BY <2>4, <3>1, <4>1, <4>2, ConfirmTurns
           DEF AskInv, ConfirmOK, RegisteredChannelHasReader, Asking, ConfirmArrive
      <4>4. QED
        BY <2>4, <3>1, <4>3, ConfirmTurns
           DEF AskInv, AskOK, ConfirmOK, RegisteredChannelHasReader, Asking, ConfirmArrive
    <3>2. CASE ConfirmSend(c)
      <4> DEFINE p == confirm[c].prepare
      <4>1. p \in Prepares /\ prepare[p].asked /\ confirm[c].says \in {"yes", "no"}
        BY <3>2 DEF AskInv, ConfirmOK, TypeOK, Confirm, ConfirmSend
      <4>2. CASE answer[p] = "none"
        <5>1. /\ answer' = [answer EXCEPT ![p] = confirm[c].says]
              /\ heard' = [heard EXCEPT ![p] =
                             IF heard[p] = "nothing" THEN confirm[c].says ELSE heard[p]]
              /\ confirm' = [confirm EXCEPT ![c].pc = "delete"]
              /\ UNCHANGED <<prepare, confirmDownloadChans>>
          BY <3>2, <4>2 DEF ConfirmSend
        <5>2. \A q \in Prepares : AskOK(q)'
          BY <4>1, <4>2, <5>1 DEF AskInv, AskOK, TypeOK
        <5>3. \A b \in Confirms : ConfirmOK(b)'
          BY <4>1, <5>1 DEF AskInv, ConfirmOK, TypeOK, Confirm
        <5>4. QED
          BY <5>1, <5>2, <5>3 DEF AskInv, RegisteredChannelHasReader, Asking
      <4>3. CASE answer[p] # "none"
        <5>1. /\ confirm' = [confirm EXCEPT ![c].pc = "busy"]
              /\ UNCHANGED <<prepare, answer, heard, confirmDownloadChans>>
          BY <3>2, <4>3 DEF ConfirmSend
        <5>2. \A b \in Confirms : ConfirmOK(b)'
          BY <5>1 DEF AskInv, ConfirmOK, TypeOK, Confirm
        <5>3. QED
          BY <5>1, <5>2 DEF AskInv, AskOK, RegisteredChannelHasReader, Asking
      <4>4. QED
        BY <4>2, <4>3
    <3>3. CASE ConfirmDelete(c)
      BY <3>3, ConstantsAssumption
         DEF ConfirmDelete, AskInv, AskOK, ConfirmOK, RegisteredChannelHasReader, Asking,
             TypeOK, Confirm
    <3>4. QED
      BY <2>4, <3>1, <3>2, <3>3 DEF ConfirmStep
  <2>5. ASSUME NEW d \in Downloads, DownloadStep(d) PROVE AskInv'
    BY <2>5 DEF DownloadStep, DownloadArrive, DownloadPause, DownloadServed, askVars,
          AskInv, AskOK, ConfirmOK, RegisteredChannelHasReader, Asking
  <2>6. QED
    BY <2>1, <2>2, <2>3, <2>4, <2>5 DEF Next
<1>3. QED
  BY <1>1, <1>2, TypeCorrect, PTL DEF Spec

\* No channel is left behind.
THEOREM NoChannelLeft == Spec => []RegisteredChannelHasReader
BY AskInvariance, PTL DEF AskInv

\* What displaces a request stays: who has left does not come back, and what was heard is
\* not forgotten.
LEMMA DisplacedStays ==
    ASSUME TypeOK, [Next]_vars, NEW p \in Prepares, Displaced(p)
    PROVE  Displaced(p)'
<1>1. PICK q \in Prepares \ {p} :
        /\ SessionOf[q] = SessionOf[p]
        /\ prepare[q].asked
        /\ prepare[q].pc = "done" \/ heard[q] # "nothing"
  BY DEF Displaced
<1>2. /\ prepare'[q].asked
      /\ prepare[q].pc = "done" => prepare'[q].pc = "done"
      /\ heard[q] # "nothing" => heard'[q] # "nothing"
  <2>1. CASE UNCHANGED vars
    BY <1>1, <2>1 DEF vars, askVars
  <2>2. ASSUME NEW s \in Sessions, SessionStep(s)
        PROVE  UNCHANGED <<prepare, heard>>
    BY <2>2 DEF SessionStep, Create, CloseArrive, RemoveShareSession, Expire, askVars
  <2>3. ASSUME NEW r \in Prepares, PrepareArrive(r) \/ PrepareStep(r)
        PROVE  /\ UNCHANGED heard
               /\ prepare'[q].asked
               /\ prepare[q].pc = "done" => prepare'[q].pc = "done"
    <3>1. prepare \in [Prepares -> Prepare]
      BY DEF TypeOK
    <3>2. CASE PrepareArrive(r) \/ PrepareQuery(r) \/ PrepareRegister(r) \/ PrepareNotify(r)
      BY <1>1, <3>1, <3>2 DEF PrepareArrive, PrepareQuery, PrepareRegister, PrepareNotify, Goes,
            Refused, Prepare
    <3>3. CASE PrepareHear(r) \/ PrepareTimeout(r) \/ PrepareMark(r) \/ PrepareAnswer(r)
                 \/ PrepareLeave(r)
      BY <1>1, <3>1, <3>3 DEF PrepareHear, PrepareTimeout, PrepareMark, PrepareAnswer,
            PrepareLeave, Goes, Refused, Prepare
    <3>4. QED
      BY <2>3, <3>2, <3>3 DEF PrepareStep
  <2>4. ASSUME NEW c \in Confirms, ConfirmStep(c)
        PROVE  UNCHANGED prepare /\ (heard[q] # "nothing" => heard'[q] # "nothing")
    <3>1. CASE ConfirmSend(c)
      BY <3>1 DEF ConfirmSend, TypeOK
    <3>2. CASE ConfirmArrive(c) \/ ConfirmDelete(c)
      BY <3>2 DEF ConfirmArrive, ConfirmDelete
    <3>3. QED
      BY <2>4, <3>1, <3>2 DEF ConfirmStep
  <2>5. ASSUME NEW d \in Downloads, DownloadStep(d)
        PROVE  UNCHANGED <<prepare, heard>>
    BY <2>5 DEF DownloadStep, DownloadArrive, DownloadPause, DownloadServed, askVars
  <2>6. QED
    BY <1>1, <2>1, <2>2, <2>3, <2>4, <2>5 DEF Next
<1>3. QED
  BY <1>1, <1>2 DEF Displaced

\* Who waits has found the session, whose id is not given out again.
FoundInv ==
    /\ \A p \in Prepares : prepare[p].pc \notin {"idle", "done"} => SessionOf[p] \in issued
    /\ PendingIsFound

\* A step of a session that takes a channel away takes the session, too.
LEMMA SessionKeepsFoundInv ==
    ASSUME TypeOK, FoundInv, NEW s \in Sessions, SessionStep(s), [Next]_vars
    PROVE  FoundInv'
<1>1. UNCHANGED <<prepare, heard>> /\ issued \subseteq issued'
  BY DEF SessionStep, Create, CloseArrive, RemoveShareSession, Expire, askVars
<1>2. SUFFICES ASSUME NEW p \in Prepares, Pending(p), SessionOf[p] \in shareSessions',
                      ~Displaced(p)
               PROVE  confirmDownloadChans'[SessionOf[p]] # NoPrepare
  BY <1>1, DisplacedStays DEF FoundInv, PendingIsFound, Pending
<1>3. SessionOf[p] \in issued
  BY <1>2 DEF FoundInv, Pending
<1>4. /\ SessionOf[p] \in shareSessions
      /\ confirmDownloadChans'[SessionOf[p]] = confirmDownloadChans[SessionOf[p]]
  <2>1. CASE Create(s) \/ CloseArrive(s) \/ Expire(s)
    BY <1>2, <1>3, <2>1 DEF Create, CloseArrive, Expire, askVars
  <2>2. CASE RemoveShareSession(s)
    BY <1>2, <2>2 DEF RemoveShareSession, TypeOK
  <2>3. QED
    BY <2>1, <2>2 DEF SessionStep
<1>5. QED
  BY <1>2, <1>4 DEF FoundInv, PendingIsFound

\* A request that leaves displaces the others of its session.
LEMMA PrepareKeepsFoundInv ==
    ASSUME TypeOK, AskInv, FoundInv, NEW q \in Prepares, PrepareArrive(q) \/ PrepareStep(q),
           [Next]_vars
    PROVE  FoundInv'
<1>1. /\ prepare \in [Prepares -> Prepare] /\ prepare' \in [Prepares -> Prepare]
      /\ \A p \in Prepares \ {q} : prepare'[p] = prepare[p]
      /\ UNCHANGED <<shareSessions, issued, heard>>
  BY PrepareTurns DEF TypeOK, sessionVars
<1>2. prepare'[q].pc \notin {"idle", "done"} => SessionOf[q] \in issued
  <2>1. CASE PrepareArrive(q)
    BY <1>1, <2>1 DEF PrepareArrive, Goes, Refused, Prepare, TypeOK
  <2>2. CASE PrepareStep(q)
    <3>1. prepare[q].pc \notin {"idle", "done"}
      BY <2>2 DEF PrepareStep, PrepareQuery, PrepareRegister, PrepareNotify, PrepareHear,
            PrepareTimeout, PrepareMark, PrepareAnswer, PrepareLeave
    <3>2. QED
      BY <3>1 DEF FoundInv
  <2>3. QED
    BY <2>1, <2>2
<1>3. SUFFICES ASSUME NEW p \in Prepares, Pending(p)', SessionOf[p] \in shareSessions,
                      ~Displaced(p)'
               PROVE  confirmDownloadChans'[SessionOf[p]] # NoPrepare
  BY <1>1, <1>2 DEF FoundInv, PendingIsFound
<1>4. ~Displaced(p)
  BY <1>3, DisplacedStays
<1>5. CASE PrepareRegister(q)
  <2>1. confirmDownloadChans' = [confirmDownloadChans EXCEPT ![SessionOf[q]] = q]
    BY <1>5 DEF PrepareRegister
  <2>2. CASE SessionOf[p] = SessionOf[q]
    BY <2>1, <2>2, ConstantsAssumption DEF TypeOK
  <2>3. CASE SessionOf[p] # SessionOf[q]
    <3>1. Pending(p)
      BY <1>1, <1>3, <2>3 DEF Pending
    <3>2. QED
      BY <1>3, <1>4, <2>1, <2>3, <3>1, ConstantsAssumption DEF FoundInv, PendingIsFound, TypeOK
  <2>4. QED
    BY <2>2, <2>3
<1>6. CASE PrepareLeave(q)
  <2>1. /\ prepare'[q].pc = "done" /\ prepare'[q].asked
        /\ confirmDownloadChans' =
             [confirmDownloadChans EXCEPT ![SessionOf[q]] = NoPrepare]
    BY <1>1, <1>6 DEF PrepareLeave, Goes, Prepare, AskInv, AskOK
  <2>2. p # q
    BY <1>3, <2>1 DEF Pending
  <2>3. SessionOf[p] # SessionOf[q]
    BY <1>3, <2>1, <2>2 DEF Displaced
  <2>4. Pending(p)
    BY <1>1, <1>3, <2>2 DEF Pending
  <2>5. QED
    BY <1>3, <1>4, <2>1, <2>3, <2>4, ConstantsAssumption DEF FoundInv, PendingIsFound, TypeOK
<1>7. CASE ~PrepareRegister(q) /\ ~PrepareLeave(q)
  <2>1. UNCHANGED confirmDownloadChans
    BY <1>7 DEF PrepareStep, PrepareArrive, PrepareQuery, PrepareNotify, PrepareHear,
          PrepareTimeout, PrepareMark, PrepareAnswer
  <2>2. prepare'[q].pc = "wait" => prepare[q].pc = "notify"
    BY <1>1, <1>7 DEF PrepareStep, PrepareArrive, PrepareQuery, PrepareNotify, PrepareHear,
          PrepareTimeout, PrepareMark, PrepareAnswer, Goes, Refused, Prepare
  <2>3. prepare'[q].pc # "notify"
    BY <1>1, <1>7 DEF PrepareStep, PrepareArrive, PrepareQuery, PrepareNotify, PrepareHear,
          PrepareTimeout, PrepareMark, PrepareAnswer, Goes, Refused, Prepare
  <2>4. Pending(p)
    BY <1>1, <1>3, <2>2, <2>3 DEF Pending
  <2>5. QED
    BY <1>3, <1>4, <2>1, <2>4 DEF FoundInv, PendingIsFound
<1>8. QED
  BY <1>5, <1>6, <1>7

\* A confirm-download deletes a channel after it has made a request of the session heard.
LEMMA ConfirmKeepsFoundInv ==
    ASSUME TypeOK, AskInv, FoundInv, NEW c \in Confirms, ConfirmStep(c), [Next]_vars
    PROVE  FoundInv'
<1>1. UNCHANGED <<prepare, shareSessions, issued>>
  BY DEF ConfirmStep, ConfirmArrive, ConfirmSend, ConfirmDelete, sessionVars
<1>2. \A p \in Prepares : heard[p] # "nothing" => heard'[p] # "nothing"
  <2>1. CASE ConfirmSend(c)
    BY <2>1 DEF ConfirmSend, TypeOK
  <2>2. CASE ConfirmArrive(c) \/ ConfirmDelete(c)
    BY <2>2 DEF ConfirmArrive, ConfirmDelete
  <2>3. QED
    BY <2>1, <2>2 DEF ConfirmStep
<1>3. SUFFICES ASSUME NEW p \in Prepares, Pending(p)', SessionOf[p] \in shareSessions,
                      ~Displaced(p)'
               PROVE  confirmDownloadChans'[SessionOf[p]] # NoPrepare
  BY <1>1 DEF FoundInv, PendingIsFound
<1>4. Pending(p) /\ ~Displaced(p)
  BY <1>1, <1>2, <1>3, DisplacedStays DEF Pending
<1>5. confirmDownloadChans[SessionOf[p]] # NoPrepare
  BY <1>3, <1>4 DEF FoundInv, PendingIsFound
<1>6. CASE ConfirmDelete(c)
  <2> DEFINE q == confirm[c].prepare
  <2>1. q \in Prepares /\ prepare[q].asked /\ heard[q] # "nothing"
    BY <1>6 DEF ConfirmDelete, TypeOK, AskInv, ConfirmOK
  <2>2. q # p
    BY <1>4, <2>1 DEF Pending
  <2>3. SessionOf[q] # SessionOf[p]
    BY <1>4, <2>1, <2>2 DEF Displaced
  <2>4. QED
    BY <1>5, <1>6, <2>3, ConstantsAssumption DEF ConfirmDelete, TypeOK
<1>7. CASE ConfirmArrive(c) \/ ConfirmSend(c)
  BY <1>5, <1>7 DEF ConfirmArrive, ConfirmSend
<1>8. QED
  BY <1>6, <1>7 DEF ConfirmStep

\* A request that waits is found by the user's answer, unless another request of its
\* session has displaced it.
THEOREM WaitingIsFound == Spec => []PendingIsFound
<1>1. Init => FoundInv
  BY DEF Init, FoundInv, PendingIsFound, Pending
<1>2. TypeOK /\ AskInv /\ FoundInv /\ [Next]_vars => FoundInv'
  <2> SUFFICES ASSUME TypeOK, AskInv, FoundInv, [Next]_vars PROVE FoundInv'
    OBVIOUS
  <2>1. CASE UNCHANGED vars
    BY <2>1 DEF vars, sessionVars, askVars, FoundInv, PendingIsFound, Pending, Displaced
  <2>2. ASSUME NEW d \in Downloads, DownloadStep(d) PROVE FoundInv'
    BY <2>2 DEF DownloadStep, DownloadArrive, DownloadPause, DownloadServed, sessionVars,
          askVars, FoundInv, PendingIsFound, Pending, Displaced
  <2>3. QED
    BY <2>1, <2>2, SessionKeepsFoundInv, PrepareKeepsFoundInv, ConfirmKeepsFoundInv DEF Next
<1>3. QED
  BY <1>1, <1>2, TypeCorrect, AskInvariance, PTL DEF Spec, FoundInv

-----------------------------------------------------------------------------
(* ShareDownload implements Consent *)

\* The user has said yes to the request, in time.
Agreed(q) ==
    /\ prepare[q].asked
    /\ prepare[q].pc \in {"list", "leave", "done"}
    /\ prepare[q].verdict # "refused"

AgreedFor(s) == \E q \in Prepares : SessionOf[q] = s /\ Agreed(q)

\* A session is confirmed, and a request that did not ask is about to be granted, for a
\* reason.
ConsentInv ==
    /\ \A s \in confirmedDownloadSess : AgreedFor(s)
    /\ \A p \in Prepares :
         prepare[p].pc = "list" /\ ~prepare[p].asked
           => SessionOf[p] \in autoAccept \/ AgreedFor(SessionOf[p])

\* A yes is never taken back.
LEMMA AgreedStays ==
    ASSUME TypeOK, NEW p \in Prepares, PrepareArrive(p) \/ PrepareStep(p),
           NEW q \in Prepares, Agreed(q)
    PROVE  Agreed(q)'
<1>1. prepare \in [Prepares -> Prepare]
  BY DEF TypeOK
<1>2. CASE q # p
  BY <1>2, PrepareTurns DEF Agreed
<1>3. CASE q = p
  BY <1>1, <1>3 DEF Agreed, PrepareArrive, PrepareStep, PrepareQuery, PrepareRegister,
        PrepareNotify, PrepareHear, PrepareTimeout, PrepareMark, PrepareAnswer,
        PrepareLeave, Goes, Prepare
<1>4. QED
  BY <1>2, <1>3

\* ConsentInv is inductive.
THEOREM ConsentInvariance == Spec => []ConsentInv
<1>1. Init => ConsentInv
  BY DEF Init, ConsentInv
<1>2. TypeOK /\ AskInv /\ ConsentInv /\ [Next]_vars => ConsentInv'
  <2> SUFFICES ASSUME TypeOK, AskInv, ConsentInv, [Next]_vars PROVE ConsentInv'
    OBVIOUS
  <2>1. CASE UNCHANGED vars
    BY <2>1 DEF vars, sessionVars, askVars, ConsentInv, AgreedFor, Agreed
  <2>2. ASSUME NEW s \in Sessions, SessionStep(s) PROVE ConsentInv'
    <3>1. /\ UNCHANGED prepare
          /\ confirmedDownloadSess' \subseteq confirmedDownloadSess
          /\ autoAccept \subseteq autoAccept'
      BY <2>2 DEF SessionStep, Create, CloseArrive, RemoveShareSession, Expire, askVars
    <3>2. QED
      BY <3>1 DEF ConsentInv, AgreedFor, Agreed
  <2>3. ASSUME NEW p \in Prepares, PrepareArrive(p) \/ PrepareStep(p) PROVE ConsentInv'
    <3>1. \A s \in Sessions : AgreedFor(s) => AgreedFor(s)'
      BY <2>3, AgreedStays DEF AgreedFor
    <3>2. prepare \in [Prepares -> Prepare] /\ SessionOf[p] \in Sessions
          /\ SessionOf \in [Prepares -> Sessions] /\ confirmedDownloadSess \subseteq Sessions
      BY ConstantsAssumption DEF TypeOK
    <3>3. \A s \in confirmedDownloadSess' : AgreedFor(s)'
      <4>1. CASE PrepareMark(p)
        <5>1. Agreed(p)'
          BY <3>2, <4>1 DEF PrepareMark, Goes, Agreed, AskInv, AskOK, Prepare
        <5>2. AgreedFor(SessionOf[p])'
          BY <5>1 DEF AgreedFor
        <5>3. QED
          BY <3>1, <3>2, <4>1, <5>2 DEF PrepareMark, ConsentInv
      <4>2. CASE ~PrepareMark(p)
        <5>1. UNCHANGED confirmedDownloadSess
          BY <2>3, <4>2 DEF PrepareArrive, PrepareStep, PrepareQuery, PrepareRegister,
                PrepareNotify, PrepareHear, PrepareTimeout, PrepareAnswer, PrepareLeave
        <5>2. QED
          BY <3>1, <3>2, <5>1 DEF ConsentInv
      <4>3. QED
        BY <4>1, <4>2
    <3>4. ASSUME prepare'[p].pc = "list", ~prepare'[p].asked
          PROVE  SessionOf[p] \in autoAccept \/ AgreedFor(SessionOf[p])
      <4>1. PrepareArrive(p) \/ PrepareQuery(p)
        BY <2>3, <3>2, <3>4 DEF AskInv, AskOK, PrepareStep, PrepareRegister, PrepareNotify,
              PrepareHear, PrepareTimeout, PrepareMark, PrepareAnswer, PrepareLeave, Goes,
              Refused, Prepare
      <4>2. QED
        BY <3>2, <3>4, <4>1 DEF PrepareArrive, PrepareQuery, Goes, Refused, Prepare, ConsentInv
    <3>5. UNCHANGED autoAccept /\ \A q \in Prepares \ {p} : prepare'[q] = prepare[q]
      BY <2>3, PrepareTurns DEF sessionVars
    <3>6. QED
      BY <3>1, <3>2, <3>3, <3>4, <3>5 DEF ConsentInv
  <2>4. ASSUME NEW c \in Confirms, ConfirmStep(c) PROVE ConsentInv'
    BY <2>4, ConfirmTurns DEF sessionVars, ConsentInv, AgreedFor, Agreed
  <2>5. ASSUME NEW d \in Downloads, DownloadStep(d) PROVE ConsentInv'
    BY <2>5 DEF DownloadStep, DownloadArrive, DownloadPause, DownloadServed, sessionVars,
          askVars, ConsentInv, AgreedFor, Agreed
  <2>6. QED
    BY <2>1, <2>2, <2>3, <2>4, <2>5 DEF Next
<1>3. QED
  BY <1>1, <1>2, TypeCorrect, AskInvariance, PTL DEF Spec

\* The variables of Consent, as ShareDownload shows them.
Verdicts == [p \in Prepares |-> prepare[p].verdict]
Exempted == {p \in Prepares : SessionOf[p] \in autoAccept}

\* A step of a prepare-download grants it with consent, refuses it, or is not seen.
LEMMA PrepareImplements ==
    ASSUME TypeOK, AskInv, ConsentInv, NEW p \in Prepares,
           PrepareArrive(p) \/ PrepareStep(p)
    PROVE  [Promise!Next]_(Promise!vars)
<1>1. /\ prepare \in [Prepares -> Prepare] /\ prepare' \in [Prepares -> Prepare]
      /\ \A q \in Prepares \ {p} : prepare'[q] = prepare[q]
      /\ UNCHANGED <<autoAccept, heard>>
  BY PrepareTurns DEF TypeOK, sessionVars
<1>2. UNCHANGED Exempted
  BY <1>1 DEF Exempted
<1>3. CASE PrepareAnswer(p)
  <2>1. Verdicts' = [Verdicts EXCEPT ![p] = "granted"]
    BY <1>1, <1>3 DEF Verdicts, PrepareAnswer, Prepare
  <2>2. Verdicts[p] = "open" /\ heard[p] # "no"
    BY <1>1, <1>3 DEF Verdicts, PrepareAnswer, AskInv, AskOK
  <2>3. p \in Exempted \/ \E q \in Prepares : SessionOf[q] = SessionOf[p] /\ Agreed(q)
    BY <1>1, <1>3 DEF Exempted, PrepareAnswer, ConsentInv, AgreedFor, Agreed, AskInv, AskOK
  <2>4. ASSUME NEW q \in Prepares, Agreed(q)
        PROVE  heard[q] = "yes" /\ Verdicts[q] # "refused"
    BY <1>1, <2>4 DEF Agreed, AskInv, AskOK, Verdicts, Prepare
  <2>5. Promise!Grant(p)
    BY <1>1, <1>2, <2>1, <2>2, <2>3, <2>4
       DEF Promise!Grant, Promise!Agreed, Verdicts, Exempted
  <2>6. QED
    BY <2>5 DEF Promise!Next
<1>4. CASE prepare'[p].verdict = prepare[p].verdict
  BY <1>1, <1>2, <1>4 DEF Promise!vars, Exempted
<1>5. CASE prepare'[p].verdict # prepare[p].verdict /\ ~PrepareAnswer(p)
  <2>1. prepare[p].verdict = "open" /\ prepare'[p].verdict = "refused"
    BY <1>1, <1>5 DEF AskInv, AskOK, PrepareArrive, PrepareStep, PrepareQuery,
          PrepareRegister, PrepareNotify, PrepareHear, PrepareTimeout, PrepareMark,
          PrepareLeave, Goes, Refused, Prepare
  <2>2. Verdicts' = [Verdicts EXCEPT ![p] = "refused"] /\ Verdicts[p] = "open"
    BY <1>1, <2>1 DEF Verdicts
  <2>3. Promise!Refuse(p)
    BY <1>1, <1>2, <2>2 DEF Promise!Refuse, Verdicts, Exempted
  <2>4. QED
    BY <2>3 DEF Promise!Next
<1>6. QED
  BY <1>3, <1>4, <1>5

\* Every step of ShareDownload is a step of Consent or is not seen by it.
LEMMA StepImplements ==
    ASSUME TypeOK, AskInv, ConsentInv, [Next]_vars
    PROVE  [Promise!Next]_(Promise!vars)
<1>1. CASE UNCHANGED vars
  BY <1>1 DEF vars, sessionVars, askVars, Promise!vars
<1>2. ASSUME NEW s \in Sessions, SessionStep(s) PROVE [Promise!Next]_(Promise!vars)
  <2>1. UNCHANGED <<heard, prepare>>
    BY <1>2 DEF SessionStep, Create, CloseArrive, RemoveShareSession, Expire, askVars
  <2>2. UNCHANGED autoAccept \/ autoAccept' = autoAccept \cup {s}
    BY <1>2 DEF SessionStep, Create, CloseArrive, RemoveShareSession, Expire
  <2>3. CASE \E p \in Prepares : SessionOf[p] = s /\ autoAccept' = autoAccept \cup {s}
    <3>1. PICK p \in Prepares : SessionOf[p] = s /\ autoAccept' = autoAccept \cup {s}
      BY <2>3
    <3>2. Exempted' = Exempted \cup {q \in Prepares : SessionOf[q] = SessionOf[p]}
      BY <3>1 DEF Exempted
    <3>3. Promise!Waive(SessionOf[p])
      BY <2>1, <3>2 DEF Promise!Waive, Exempted
    <3>4. QED
      BY <3>3 DEF Promise!Next
  <2>4. CASE UNCHANGED autoAccept \/ ~\E p \in Prepares : SessionOf[p] = s
    <3>1. UNCHANGED Exempted
      BY <2>2, <2>4 DEF Exempted
    <3>2. QED
      BY <2>1, <3>1 DEF Promise!vars, Exempted
  <2>5. QED
    BY <2>2, <2>3, <2>4
<1>3. ASSUME NEW c \in Confirms, ConfirmStep(c) PROVE [Promise!Next]_(Promise!vars)
  <2>1. UNCHANGED <<prepare, autoAccept>>
    BY <1>3, ConfirmTurns DEF sessionVars
  <2>2. CASE UNCHANGED heard
    BY <2>1, <2>2 DEF Promise!vars
  <2>3. CASE ~UNCHANGED heard
    <3> DEFINE p == confirm[c].prepare
    <3>1. /\ ConfirmSend(c) /\ p \in Prepares /\ confirm[c].says \in {"yes", "no"}
          /\ heard' = [heard EXCEPT ![p] =
                         IF heard[p] = "nothing" THEN confirm[c].says ELSE heard[p]]
      BY <1>3, <2>3 DEF ConfirmStep, ConfirmArrive, ConfirmSend, ConfirmDelete, TypeOK, Confirm
    <3>2. heard[p] = "nothing"
      BY <2>3, <3>1 DEF TypeOK
    <3>3. Promise!Hear(p, confirm[c].says)
      BY <2>1, <3>1, <3>2 DEF Promise!Hear
    <3>4. QED
      BY <3>1, <3>3 DEF Promise!Next
  <2>4. QED
    BY <2>2, <2>3
<1>4. ASSUME NEW d \in Downloads, DownloadStep(d) PROVE [Promise!Next]_(Promise!vars)
  BY <1>4 DEF DownloadStep, DownloadArrive, DownloadPause, DownloadServed, sessionVars,
        askVars, Promise!vars
<1>5. QED
  BY <1>1, <1>2, <1>3, <1>4, PrepareImplements DEF Next

\* ShareDownload implements Consent: a file list is sent only for a session that needs
\* no consent or after the user's yes to a request of that session.
THEOREM ConsentKept == Spec => ImplementsConsent
<1>1. Init => Promise!Init
  BY DEF Init, Promise!Init
<1>2. TypeOK /\ AskInv /\ ConsentInv /\ [Next]_vars => [Promise!Next]_(Promise!vars)
  BY StepImplements
<1>3. QED
  BY <1>1, <1>2, TypeCorrect, AskInvariance, ConsentInvariance, PTL
     DEF Spec, ImplementsConsent, Promise!Spec

-----------------------------------------------------------------------------
(* A session that was agreed to asks no more *)

\* From its mark on, a request that asked and was agreed to has confirmed its session.
AgreedInv ==
    \A p \in Prepares :
      /\ prepare[p].asked
      /\ prepare[p].pc = "list" \/ prepare[p].verdict = "granted"
      /\ SessionOf[p] \notin closed \cup lapsed
      => SessionOf[p] \in confirmedDownloadSess

\* AgreedInv is inductive.
THEOREM AgreedInvariance == Spec => []AgreedInv
<1>1. Init => AgreedInv
  BY DEF Init, AgreedInv
<1>2. TypeOK /\ AskInv /\ AgreedInv /\ [Next]_vars => AgreedInv'
  <2> SUFFICES ASSUME TypeOK, AskInv, AgreedInv, [Next]_vars PROVE AgreedInv'
    OBVIOUS
  <2>1. CASE UNCHANGED vars
    BY <2>1 DEF vars, sessionVars, askVars, AgreedInv
  <2>2. ASSUME NEW s \in Sessions, SessionStep(s) PROVE AgreedInv'
    <3>1. /\ UNCHANGED prepare
          /\ closed \subseteq closed' /\ lapsed \subseteq lapsed'
          /\ \A r \in confirmedDownloadSess \ confirmedDownloadSess' : r \in closed' \cup lapsed'
      BY <2>2 DEF SessionStep, Create, CloseArrive, RemoveShareSession, Expire, askVars
    <3>2. QED
      BY <3>1 DEF AgreedInv
  <2>3. ASSUME NEW p \in Prepares, PrepareArrive(p) \/ PrepareStep(p) PROVE AgreedInv'
    <3>1. /\ prepare \in [Prepares -> Prepare]
          /\ UNCHANGED <<closed, lapsed>>
          /\ \A q \in Prepares \ {p} : prepare'[q] = prepare[q]
      BY <2>3, PrepareTurns DEF TypeOK, sessionVars
    <3>2. confirmedDownloadSess \subseteq confirmedDownloadSess'
      BY <2>3 DEF PrepareArrive, PrepareStep, PrepareQuery, PrepareRegister, PrepareNotify,
            PrepareHear, PrepareTimeout, PrepareMark, PrepareAnswer, PrepareLeave
    <3>3. ASSUME prepare'[p].asked, prepare'[p].pc = "list" \/ prepare'[p].verdict = "granted"
          PROVE  \/ PrepareMark(p)
                 \/ prepare[p].asked /\ (prepare[p].pc = "list" \/ prepare[p].verdict = "granted")
      BY <2>3, <3>1, <3>3 DEF AskInv, AskOK, PrepareArrive, PrepareStep, PrepareQuery,
            PrepareRegister, PrepareNotify, PrepareHear, PrepareTimeout, PrepareAnswer,
            PrepareLeave, Goes, Refused, Prepare
    <3>4. PrepareMark(p) => SessionOf[p] \in confirmedDownloadSess'
      BY DEF PrepareMark
    <3>5. QED
      BY <3>1, <3>2, <3>3, <3>4 DEF AgreedInv
  <2>4. ASSUME NEW c \in Confirms, ConfirmStep(c) PROVE AgreedInv'
    BY <2>4, ConfirmTurns DEF sessionVars, AgreedInv
  <2>5. ASSUME NEW d \in Downloads, DownloadStep(d) PROVE AgreedInv'
    BY <2>5 DEF DownloadStep, DownloadArrive, DownloadPause, DownloadServed, sessionVars,
          askVars, AgreedInv
  <2>6. QED
    BY <2>1, <2>2, <2>3, <2>4, <2>5 DEF Next
<1>3. QED
  BY <1>1, <1>2, TypeCorrect, AskInvariance, PTL DEF Spec

\* Once the user has agreed to a request, its session asks no more until it is closed
\* or expires.
THEOREM AgreedOnce == Spec => []AgreedSessionStaysConfirmed
<1>1. AgreedInv => AgreedSessionStaysConfirmed
  BY DEF AgreedInv, AgreedSessionStaysConfirmed
<1>2. QED
  BY <1>1, AgreedInvariance, PTL

=============================================================================
