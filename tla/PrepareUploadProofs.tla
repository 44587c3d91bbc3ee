------------------------ MODULE PrepareUploadProofs ------------------------
(***************************************************************************)
(* Invariants of PrepareUpload, and that it implements Consent, for any    *)
(* requests, answers, devices and configurations.                          *)
(***************************************************************************)
EXTENDS PrepareUpload, FiniteSetTheorems, TLAPS

-----------------------------------------------------------------------------
(* Types *)

\* What a step of a request does: its record stays well-formed, no other record changes,
\* and neither favorites nor the user's answers do.
LEMMA PrepareTurns ==
    ASSUME TypeOK, NEW p \in Prepares, PrepareArrive(p) \/ PrepareStep(p)
    PROVE  /\ prepare' \in [Prepares -> Prepare]
           /\ \A q \in Prepares \ {p} : prepare'[q] = prepare[q]
           /\ prepare[p].pc # "idle" => prepare'[p].protocol = prepare[p].protocol
           /\ UNCHANGED <<config, favoriteVars, reply, heard>>
<1>1. prepare \in [Prepares -> Prepare]
  BY DEF TypeOK
<1>2. CASE PrepareArrive(p)
  <2>1. PICK r \in Prepare : prepare' = [prepare EXCEPT ![p] = r]
    <3>1. PICK protocol \in {"v1", "v2"}, pc \in {"respond", "text", "check"}, outcome \in Outcomes :
            Begins(p, protocol, pc, outcome)
      BY <1>2 DEF PrepareArrive, Outcomes
    <3>2. [pc |-> pc, protocol |-> protocol, outcome |-> outcome, status |-> "none"] \in Prepare
      BY DEF Prepare, Statuses
    <3>3. QED
      BY <3>1, <3>2 DEF Begins
  <2>2. prepare[p].pc = "idle" /\ UNCHANGED <<config, favoriteVars, reply, heard>>
    BY <1>2 DEF PrepareArrive
  <2>3. QED
    BY <1>1, <2>1, <2>2
<1>3. CASE TextShow(p)
  <2>1. CASE Goes(p, "dismiss")
    BY <1>1, <1>3, <2>1 DEF TextShow, Goes, Prepare
  <2>2. CASE Returns(p, "text")
    BY <1>1, <1>3, <2>2 DEF TextShow, Returns, Prepare, Outcomes
  <2>3. QED
    BY <1>3, <2>1, <2>2 DEF TextShow
<1>4. CASE TextDismissed(p)
  BY <1>1, <1>4 DEF TextDismissed, Returns, Prepare, Outcomes
<1>5. CASE TextTimeout(p)
  BY <1>1, <1>5 DEF TextTimeout, Returns, Prepare, Outcomes
<1>6. CASE PrepareCheck(p)
  BY <1>1, <1>6 DEF PrepareCheck, Goes, Prepare
<1>7. CASE PrepareHear(p)
  <2>1. CASE Goes(p, "accept")
    BY <1>1, <1>7, <2>1 DEF PrepareHear, Goes, Prepare
  <2>2. CASE Returns(p, "rejected")
    BY <1>1, <1>7, <2>2 DEF PrepareHear, Returns, Prepare, Outcomes
  <2>3. QED
    BY <1>7, <2>1, <2>2 DEF PrepareHear
<1>8. CASE PrepareTimeout(p)
  BY <1>1, <1>8 DEF PrepareTimeout, Returns, Prepare, Outcomes
<1>9. CASE PrepareAccept(p)
  BY <1>1, <1>9 DEF PrepareAccept, Returns, Prepare, Outcomes
<1>10. CASE PrepareRespond(p)
  <2>1. Status(p) \in Statuses
    BY DEF Status, Statuses
  <2>2. QED
    BY <1>1, <1>10, <2>1 DEF PrepareRespond, Replies, Prepare
<1>11. QED
  BY <1>2, <1>3, <1>4, <1>5, <1>6, <1>7, <1>8, <1>9, <1>10 DEF PrepareStep

\* What it does to the caches, the channel contents and the counter.
LEMMA PrepareCaches ==
    ASSUME TypeOK, NEW p \in Prepares, PrepareArrive(p) \/ PrepareStep(p)
    PROVE  /\ answer' \in [Prepares -> {"none", "yes", "no", "dismiss"}]
           /\ confirmRecvChans' \subseteq Prepares
           /\ textReceivedDismissChans' \subseteq Prepares
           /\ sessions' \subseteq Prepares
           /\ v1Sessions' \in [Devices -> Prepares \cup {NoPrepare}]
           /\ scanPauseCount' \in Nat
           /\ waived' \subseteq Prepares
<1>1. From[p] \in Devices
  BY ConstantsAssumption
<1>2. CASE PrepareRespond(p)
  BY <1>1, <1>2 DEF PrepareRespond, TypeOK
<1>3. CASE TextShow(p) \/ TextDismissed(p) \/ PrepareCheck(p) \/ PrepareHear(p)
  BY <1>3 DEF TextShow, TextDismissed, PrepareCheck, PrepareHear, TypeOK, sessionVars
<1>4. CASE PrepareArrive(p) \/ TextTimeout(p) \/ PrepareTimeout(p) \/ PrepareAccept(p)
  BY <1>4 DEF PrepareArrive, TextTimeout, PrepareTimeout, PrepareAccept, TypeOK,
        channelVars, sessionVars
<1>5. QED
  BY <1>2, <1>3, <1>4 DEF PrepareStep

\* What an answer of the user does.
LEMMA AnswerTurns ==
    ASSUME TypeOK, NEW a \in Answers, AnswerStep(a)
    PROVE  /\ reply' \in [Answers -> Reply]
           /\ \A b \in Answers \ {a} : reply'[b] = reply[b]
           /\ reply'[a].pc \in {"send", "delete"} => reply'[a].prepare \in Prepares
           /\ answer' \in [Prepares -> {"none", "yes", "no", "dismiss"}]
           /\ heard' \in [Prepares -> {"nothing", "yes", "no"}]
           /\ confirmRecvChans' \subseteq confirmRecvChans
           /\ textReceivedDismissChans' \subseteq textReceivedDismissChans
           /\ UNCHANGED <<config, favoriteVars, prepare, sessionVars, waived>>
<1>1. reply \in [Answers -> Reply]
  BY DEF TypeOK
<1>2. CASE AnswerArrive(a)
  <2>1. PICK r \in Reply : /\ reply' = [reply EXCEPT ![a] = r]
                           /\ r.pc \in {"send", "delete"} => r.prepare \in Prepares
    BY <1>1, <1>2 DEF AnswerArrive, Ends, Reply
  <2>2. QED
    BY <1>1, <1>2, <2>1 DEF AnswerArrive, TypeOK, channelVars
<1>3. CASE AnswerSend(a)
  <2>1. reply[a].prepare \in Prepares
    BY <1>3 DEF AnswerSend, TypeOK
  <2>2. /\ reply' \in [Answers -> Reply]
        /\ \A b \in Answers \ {a} : reply'[b] = reply[b]
        /\ reply'[a].pc \in {"send", "delete"} => reply'[a].prepare \in Prepares
    <3>1. CASE reply' = [reply EXCEPT ![a].pc = "delete"]
      BY <1>1, <2>1, <3>1 DEF Reply
    <3>2. CASE Ends(a, "busy")
      BY <1>1, <3>2 DEF Ends, Reply
    <3>3. QED
      BY <1>3, <3>1, <3>2 DEF AnswerSend
  <2>3. reply[a].says \in {"yes", "no", "dismiss"}
    BY <1>1 DEF Reply
  <2>4. answer' \in [Prepares -> {"none", "yes", "no", "dismiss"}]
    BY <1>3, <2>1, <2>3 DEF AnswerSend, TypeOK
  <2>5. heard' \in [Prepares -> {"nothing", "yes", "no"}]
    BY <1>3, <2>1, <2>3 DEF AnswerSend, TypeOK
  <2>6. UNCHANGED <<config, favoriteVars, prepare, confirmRecvChans,
                    textReceivedDismissChans, sessionVars, waived>>
    BY <1>3 DEF AnswerSend
  <2>7. QED
    BY <2>2, <2>4, <2>5, <2>6
<1>4. CASE AnswerDelete(a)
  <2>1. /\ reply' \in [Answers -> Reply]
        /\ \A b \in Answers \ {a} : reply'[b] = reply[b]
        /\ reply'[a].pc = "ok"
    BY <1>1, <1>4 DEF AnswerDelete, Ends, Reply
  <2>2. QED
    BY <1>4, <2>1 DEF AnswerDelete, TypeOK
<1>5. QED
  BY <1>2, <1>3, <1>4 DEF AnswerStep

\* A change of the favorites keeps the types.
LEMMA FavoriteKeepsTypeOK ==
    ASSUME TypeOK, NEW d \in Devices, FavoriteStep(d)
    PROVE  TypeOK'
<1>1. favorites' \subseteq Devices /\ asked' \subseteq Devices
  BY DEF FavoriteStep, AddFavorite, RemoveFavorite, TypeOK
<1>2. file' \in [readable : BOOLEAN, devices : SUBSET Devices]
  <2>1. CASE Written(favorites')
    BY <1>1, <2>1 DEF Written
  <2>2. CASE WriteFails(favorites')
    <3>1. CASE UNCHANGED file
      BY <3>1 DEF TypeOK
    <3>2. CASE \E k \in SUBSET favorites' : file' = [readable |-> TRUE, devices |-> k]
      BY <1>1, <3>2
    <3>3. CASE file' = [readable |-> FALSE, devices |-> {}]
      BY <3>3
    <3>4. QED
      BY <2>2, <3>1, <3>2, <3>3 DEF WriteFails
  <2>3. QED
    BY <2>1, <2>2 DEF FavoriteStep, AddFavorite, RemoveFavorite
<1>3. UNCHANGED <<config, prepare, channelVars, reply, sessionVars, heard, waived>>
  BY DEF FavoriteStep, AddFavorite, RemoveFavorite
<1>4. QED
  BY <1>1, <1>2, <1>3 DEF TypeOK, channelVars, sessionVars

\* TypeOK holds in every reachable state.
THEOREM TypeCorrect == Spec => []TypeOK
<1>1. Init => TypeOK
  <2> SUFFICES ASSUME Init PROVE TypeOK
    OBVIOUS
  <2>1. prepare \in [Prepares -> Prepare]
    BY DEF Init, Prepare, Outcomes, Statuses
  <2>2. /\ reply \in [Answers -> Reply]
        /\ \A a \in Answers : reply[a].pc = "idle"
    BY DEF Init, Reply
  <2>3. config \in [pin : BOOLEAN, autoSave : BOOLEAN, fromFavorites : BOOLEAN]
    BY ConstantsAssumption DEF Init
  <2>4. file \in [readable : BOOLEAN, devices : SUBSET Devices]
    BY DEF Init
  <2>5. QED
    BY <2>1, <2>2, <2>3, <2>4 DEF Init, TypeOK
<1>2. TypeOK /\ [Next]_vars => TypeOK'
  <2> SUFFICES ASSUME TypeOK, [Next]_vars PROVE TypeOK'
    OBVIOUS
  <2>1. CASE UNCHANGED vars
    BY <2>1 DEF vars, favoriteVars, channelVars, sessionVars, TypeOK
  <2>2. ASSUME NEW p \in Prepares, PrepareArrive(p) \/ PrepareStep(p) PROVE TypeOK'
    <3>1. /\ prepare' \in [Prepares -> Prepare]
          /\ UNCHANGED <<config, favoriteVars, reply, heard>>
      BY <2>2, PrepareTurns
    <3>2. /\ answer' \in [Prepares -> {"none", "yes", "no", "dismiss"}]
          /\ confirmRecvChans' \subseteq Prepares
          /\ textReceivedDismissChans' \subseteq Prepares
          /\ sessions' \subseteq Prepares
          /\ v1Sessions' \in [Devices -> Prepares \cup {NoPrepare}]
          /\ scanPauseCount' \in Nat
          /\ waived' \subseteq Prepares
      BY <2>2, PrepareCaches
    <3>3. QED
      BY <3>1, <3>2 DEF TypeOK, favoriteVars
  <2>3. ASSUME NEW a \in Answers, AnswerStep(a) PROVE TypeOK'
    <3>1. /\ reply' \in [Answers -> Reply]
          /\ \A b \in Answers : reply'[b].pc \in {"send", "delete"}
                                  => reply'[b].prepare \in Prepares
      BY <2>3, AnswerTurns DEF TypeOK
    <3>2. /\ answer' \in [Prepares -> {"none", "yes", "no", "dismiss"}]
          /\ heard' \in [Prepares -> {"nothing", "yes", "no"}]
          /\ confirmRecvChans' \subseteq confirmRecvChans
          /\ textReceivedDismissChans' \subseteq textReceivedDismissChans
          /\ UNCHANGED <<config, favoriteVars, prepare, sessionVars, waived>>
      BY <2>3, AnswerTurns
    <3>3. QED
      BY <3>1, <3>2 DEF TypeOK, favoriteVars, sessionVars
  <2>4. QED
    BY <2>1, <2>2, <2>3, FavoriteKeepsTypeOK DEF Next
<1>3. QED
  BY <1>1, <1>2, PTL DEF Spec

-----------------------------------------------------------------------------
(* Requests, channels and answers *)

\* The record of a request agrees with its channels and with what it has heard.
AskOK(p) ==
    /\ prepare[p].outcome = "open"
         <=> prepare[p].pc \in {"idle", "text", "dismiss", "check", "wait", "accept"}
    /\ p \in confirmRecvChans =>
         \/ prepare[p].pc \in {"wait", "accept"}
         \/ prepare[p].pc = "respond" /\ prepare[p].outcome \in {"accepted", "rejected"}
    /\ p \in textReceivedDismissChans =>
         \/ prepare[p].pc = "dismiss"
         \/ prepare[p].pc = "respond" /\ prepare[p].outcome = "text"
    /\ prepare[p].pc \in {"idle", "text", "check"} =>
         heard[p] = "nothing" /\ answer[p] = "none"
    /\ prepare[p].pc = "wait" =>
         heard[p] = IF answer[p] = "none" THEN "nothing" ELSE answer[p]
    /\ prepare[p].pc = "wait" /\ heard[p] = "nothing" => p \in confirmRecvChans

\* An answer under way goes to a request of its kind, and has been heard before the
\* channel is deleted.
AnswerOK(a) ==
    LET p == reply[a].prepare IN
    reply[a].pc \in {"send", "delete"} =>
      /\ IF reply[a].says = "dismiss"
         THEN prepare[p].pc = "dismiss" \/ prepare[p].outcome = "text"
         ELSE \/ prepare[p].pc \in {"wait", "accept"}
              \/ prepare[p].outcome \in {"accepted", "rejected"}
      /\ reply[a].pc = "delete" /\ reply[a].says # "dismiss" => heard[p] # "nothing"

AskInv ==
    /\ \A p \in Prepares : AskOK(p)
    /\ \A a \in Answers : AnswerOK(a)

\* A step of a request touches no channel but its own.
LEMMA PrepareFrame ==
    ASSUME TypeOK, NEW p \in Prepares, PrepareArrive(p) \/ PrepareStep(p),
           NEW q \in Prepares \ {p}
    PROVE  /\ prepare'[q] = prepare[q] /\ heard'[q] = heard[q] /\ answer'[q] = answer[q]
           /\ q \in confirmRecvChans' <=> q \in confirmRecvChans
           /\ q \in textReceivedDismissChans' <=> q \in textReceivedDismissChans
           /\ q \in waived' <=> q \in waived
           /\ q \in sessions' <=> q \in sessions
<1>1. prepare'[q] = prepare[q] /\ heard'[q] = heard[q]
  BY PrepareTurns
<1>2. CASE PrepareRespond(p) \/ TextShow(p) \/ PrepareCheck(p)
  BY <1>1, <1>2 DEF PrepareRespond, TextShow, PrepareCheck, sessionVars
<1>3. CASE TextDismissed(p) \/ PrepareHear(p)
  BY <1>1, <1>3 DEF TextDismissed, PrepareHear, TypeOK, sessionVars
<1>4. CASE PrepareArrive(p) \/ TextTimeout(p) \/ PrepareTimeout(p) \/ PrepareAccept(p)
  BY <1>1, <1>4 DEF PrepareArrive, TextTimeout, PrepareTimeout, PrepareAccept,
        channelVars, sessionVars
<1>5. QED
  BY <1>2, <1>3, <1>4 DEF PrepareStep

\* Where a step of a request leads.
LEMMA PrepareMoves ==
    ASSUME TypeOK, AskInv, NEW p \in Prepares, PrepareArrive(p) \/ PrepareStep(p)
    PROVE  /\ AskOK(p)'
           /\ prepare[p].pc \in {"wait", "accept"} =>
                \/ prepare'[p].pc = "accept"
                \/ prepare'[p].outcome \in {"accepted", "rejected"}
           /\ prepare[p].pc = "dismiss" => prepare'[p].outcome = "text"
           /\ prepare[p].outcome # "open" => prepare'[p].outcome = prepare[p].outcome
<1>1. /\ prepare \in [Prepares -> Prepare]
      /\ answer \in [Prepares -> {"none", "yes", "no", "dismiss"}]
      /\ AskOK(p) /\ heard' = heard
  BY PrepareTurns DEF TypeOK, AskInv
<1>2. CASE PrepareArrive(p)
  <2>1. PICK protocol \in {"v1", "v2"}, pc \in {"respond", "text", "check"},
             outcome \in Outcomes :
          /\ Begins(p, protocol, pc, outcome)
          /\ pc = "respond" <=> outcome # "open"
    BY <1>2 DEF PrepareArrive, Outcomes
  <2>2. /\ prepare[p].pc = "idle"
        /\ prepare'[p].pc = pc /\ prepare'[p].outcome = outcome
        /\ UNCHANGED <<answer, confirmRecvChans, textReceivedDismissChans>>
    BY <1>1, <1>2, <2>1 DEF PrepareArrive, Begins, channelVars
  <2>3. QED
    BY <1>1, <2>1, <2>2 DEF AskOK, Outcomes
<1>3. CASE TextShow(p)
  <2>1. CASE Goes(p, "dismiss")
    BY <1>1, <1>3, <2>1 DEF TextShow, Goes, AskOK, Prepare
  <2>2. CASE Returns(p, "text")
    BY <1>1, <1>3, <2>2 DEF TextShow, Returns, AskOK, Prepare
  <2>3. QED
    BY <1>3, <2>1, <2>2 DEF TextShow
<1>4. CASE TextDismissed(p)
  BY <1>1, <1>4 DEF TextDismissed, Returns, AskOK, Prepare
<1>5. CASE TextTimeout(p)
  BY <1>1, <1>5 DEF TextTimeout, Returns, AskOK, Prepare, channelVars
<1>6. CASE PrepareCheck(p)
  <2>1. CASE Goes(p, "accept") /\ UNCHANGED confirmRecvChans
    BY <1>1, <1>6, <2>1 DEF PrepareCheck, Goes, AskOK, Prepare
  <2>2. CASE Goes(p, "wait") /\ confirmRecvChans' = confirmRecvChans \cup {p}
    BY <1>1, <1>6, <2>2 DEF PrepareCheck, Goes, AskOK, Prepare
  <2>3. QED
    BY <1>6, <2>1, <2>2 DEF PrepareCheck
<1>7. CASE PrepareHear(p)
  <2>1. CASE Goes(p, "accept")
    BY <1>1, <1>7, <2>1 DEF PrepareHear, Goes, AskOK, Prepare
  <2>2. CASE Returns(p, "rejected")
    BY <1>1, <1>7, <2>2 DEF PrepareHear, Returns, AskOK, Prepare
  <2>3. QED
    BY <1>7, <2>1, <2>2 DEF PrepareHear
<1>8. CASE PrepareTimeout(p)
  BY <1>1, <1>8 DEF PrepareTimeout, Returns, AskOK, Prepare, channelVars
<1>9. CASE PrepareAccept(p)
  BY <1>1, <1>9 DEF PrepareAccept, Returns, AskOK, Prepare, channelVars
<1>10. CASE PrepareRespond(p)
  <2>1. /\ prepare[p].pc = "respond"
        /\ prepare'[p].pc = "done" /\ prepare'[p].outcome = prepare[p].outcome
        /\ p \notin confirmRecvChans' /\ p \notin textReceivedDismissChans'
        /\ UNCHANGED answer
    BY <1>1, <1>10 DEF PrepareRespond, Replies, Prepare
  <2>2. QED
    BY <1>1, <2>1 DEF AskOK
<1>11. QED
  BY <1>2, <1>3, <1>4, <1>5, <1>6, <1>7, <1>8, <1>9, <1>10 DEF PrepareStep

\* Answers keep requests and channels in agreement.
LEMMA AnswerKeepsAskInv ==
    ASSUME TypeOK, AskInv, NEW a \in Answers, AnswerStep(a)
    PROVE  AskInv'
<1>1. /\ reply \in [Answers -> Reply] /\ UNCHANGED prepare
      /\ \A b \in Answers \ {a} : reply'[b] = reply[b]
  BY AnswerTurns DEF TypeOK
<1>2. CASE AnswerArrive(a)
  <2>1. UNCHANGED <<heard, answer, confirmRecvChans, textReceivedDismissChans>>
    BY <1>2 DEF AnswerArrive, channelVars
  <2>2. \A p \in Prepares : AskOK(p)'
    BY <1>1, <2>1 DEF AskInv, AskOK
  <2>3. PICK p \in Prepares, says \in {"yes", "no", "dismiss"} :
          IF p \in Channels(says)
          THEN reply' = [reply EXCEPT ![a] = [pc |-> "send", prepare |-> p, says |-> says]]
          ELSE Ends(a, "missed")
    BY <1>2 DEF AnswerArrive
  <2>4. AnswerOK(a)'
    <3>1. CASE p \in Channels(says)
      <4>1. reply'[a] = [pc |-> "send", prepare |-> p, says |-> says]
        BY <1>1, <2>3, <3>1
      <4>2. AskOK(p)
        BY DEF AskInv
      <4>3. QED
        BY <1>1, <3>1, <4>1, <4>2 DEF AnswerOK, Channels, AskOK
    <3>2. CASE p \notin Channels(says)
      BY <1>1, <2>3, <3>2 DEF Ends, AnswerOK
    <3>3. QED
      BY <3>1, <3>2
  <2>5. \A b \in Answers \ {a} : AnswerOK(b)'
    BY <1>1, <2>1 DEF AskInv, AnswerOK
  <2>6. QED
    BY <2>2, <2>4, <2>5 DEF AskInv
<1>3. CASE AnswerSend(a)
  <2>1. PICK p \in Prepares, says \in {"yes", "no", "dismiss"} :
          /\ reply[a].prepare = p /\ reply[a].says = says
          /\ reply[a].pc = "send" /\ AnswerOK(a)
          /\ UNCHANGED <<confirmRecvChans, textReceivedDismissChans>>
    BY <1>1, <1>3 DEF AnswerSend, TypeOK, Reply, AskInv
  <2>2. CASE answer[p] = "none" /\ answer' = [answer EXCEPT ![p] = says]
             /\ heard' = (IF heard[p] = "nothing" /\ says # "dismiss"
                          THEN [heard EXCEPT ![p] = says] ELSE heard)
             /\ reply' = [reply EXCEPT ![a].pc = "delete"]
    <3>1. /\ reply'[a].pc = "delete" /\ reply'[a].prepare = p /\ reply'[a].says = says
      BY <1>1, <2>1, <2>2 DEF Reply
    <3>2. /\ answer'[p] = says
          /\ says # "dismiss" => heard'[p] = IF heard[p] = "nothing" THEN says ELSE heard[p]
          /\ says = "dismiss" => heard'[p] = heard[p]
          /\ \A q \in Prepares \ {p} : answer'[q] = answer[q] /\ heard'[q] = heard[q]
          /\ \A q \in Prepares : heard[q] # "nothing" => heard'[q] # "nothing"
      BY <2>1, <2>2 DEF TypeOK
    <3>3. AskOK(p)'
      BY <1>1, <2>1, <2>2, <3>2 DEF AskInv, AskOK, AnswerOK
    <3>4. \A q \in Prepares \ {p} : AskOK(q)'
      BY <1>1, <2>1, <3>2 DEF AskInv, AskOK
    <3>5. AnswerOK(a)'
      BY <1>1, <2>1, <3>1, <3>2 DEF AnswerOK
    <3>6. \A b \in Answers \ {a} : AnswerOK(b)'
      BY <1>1, <3>2 DEF AskInv, AnswerOK, TypeOK
    <3>7. \A q \in Prepares : AskOK(q)'
      BY <3>3, <3>4
    <3>8. \A b \in Answers : AnswerOK(b)'
      BY <3>5, <3>6
    <3>9. QED
      BY <3>7, <3>8 DEF AskInv
  <2>3. CASE Ends(a, "busy") /\ UNCHANGED <<answer, heard>>
    BY <1>1, <2>1, <2>3 DEF Ends, AskInv, AskOK, AnswerOK
  <2>4. QED
    BY <1>3, <2>1, <2>2, <2>3 DEF AnswerSend
<1>4. CASE AnswerDelete(a)
  <2> DEFINE p == reply[a].prepare
  <2>1. /\ p \in Prepares /\ reply[a].pc = "delete" /\ AnswerOK(a)
        /\ UNCHANGED <<answer, heard>>
        /\ Ends(a, "ok")
    BY <1>4 DEF AnswerDelete, TypeOK, AskInv
  <2>2. /\ confirmRecvChans' \subseteq confirmRecvChans
        /\ textReceivedDismissChans' \subseteq textReceivedDismissChans
        /\ \A q \in Prepares : q \in confirmRecvChans /\ heard[q] = "nothing"
                               => q \in confirmRecvChans'
    BY <1>4, <2>1 DEF AnswerDelete, AnswerOK
  <2>3. \A q \in Prepares : AskOK(q)'
    BY <1>1, <2>1, <2>2 DEF AskInv, AskOK
  <2>4. \A b \in Answers : AnswerOK(b)'
    BY <1>1, <2>1 DEF Ends, AskInv, AnswerOK
  <2>5. QED
    BY <2>3, <2>4 DEF AskInv
<1>5. QED
  BY <1>2, <1>3, <1>4 DEF AnswerStep

\* AskInv is inductive.
THEOREM AskInvariance == Spec => []AskInv
<1>1. Init => AskInv
  BY DEF Init, AskInv, AskOK, AnswerOK
<1>2. TypeOK /\ AskInv /\ [Next]_vars => AskInv'
  <2> SUFFICES ASSUME TypeOK, AskInv, [Next]_vars PROVE AskInv'
    OBVIOUS
  <2>1. CASE UNCHANGED vars
    BY <2>1 DEF vars, channelVars, AskInv, AskOK, AnswerOK
  <2>2. ASSUME NEW d \in Devices, FavoriteStep(d) PROVE AskInv'
    BY <2>2 DEF FavoriteStep, AddFavorite, RemoveFavorite, channelVars, AskInv, AskOK,
         AnswerOK
  <2>3. ASSUME NEW p \in Prepares, PrepareArrive(p) \/ PrepareStep(p) PROVE AskInv'
    <3>1. \A q \in Prepares \ {p} :
            /\ prepare'[q] = prepare[q] /\ heard'[q] = heard[q] /\ answer'[q] = answer[q]
            /\ q \in confirmRecvChans' <=> q \in confirmRecvChans
            /\ q \in textReceivedDismissChans' <=> q \in textReceivedDismissChans
      BY <2>3, PrepareFrame
    <3>2. \A q \in Prepares : AskOK(q)'
      BY <2>3, <3>1, PrepareMoves DEF AskInv, AskOK
    <3>3. UNCHANGED <<reply, heard>>
      BY <2>3, PrepareTurns
    <3>4. \A a \in Answers : AnswerOK(a)'
      <4> SUFFICES ASSUME NEW a \in Answers, reply[a].pc \in {"send", "delete"}
                   PROVE  AnswerOK(a)'
        BY <3>3 DEF AnswerOK
      <4>1. AnswerOK(a) /\ reply[a].prepare \in Prepares
        BY DEF AskInv, TypeOK
      <4>2. CASE reply[a].prepare # p
        BY <3>1, <3>3, <4>1, <4>2 DEF AnswerOK
      <4>3. CASE reply[a].prepare = p
        <5>1. AskOK(p)
          BY DEF AskInv
        <5>2. QED
          BY <2>3, <3>3, <4>1, <4>3, <5>1, PrepareMoves DEF AnswerOK, AskOK
      <4>4. QED
        BY <4>2, <4>3
    <3>5. QED
      BY <3>2, <3>4 DEF AskInv
  <2>4. QED
    BY <2>1, <2>2, <2>3, AnswerKeepsAskInv DEF Next
<1>3. QED
  BY <1>1, <1>2, TypeCorrect, PTL DEF Spec

\* A request that waits for its answer can be found; one that has returned cannot.
THEOREM AnswersArrive == Spec => []ChannelWhileWaiting
<1>1. AskInv => ChannelWhileWaiting
  BY DEF AskInv, AskOK, ChannelWhileWaiting
<1>2. QED
  BY <1>1, AskInvariance, PTL

-----------------------------------------------------------------------------
(* Consent *)

\* How a request begins.
LEMMA Arrives ==
    ASSUME TypeOK, NEW p \in Prepares, PrepareArrive(p)
    PROVE  /\ prepare[p].pc = "idle"
           /\ prepare'[p].pc \in {"respond", "text", "check"}
           /\ prepare'[p].outcome \in {"open", "pin required", "invalid PIN"}
           /\ prepare'[p].status = "none"
           /\ UNCHANGED sessions
<1>1. PICK protocol \in {"v1", "v2"}, pc \in {"respond", "text", "check"},
           outcome \in {"open", "pin required", "invalid PIN"} :
        Begins(p, protocol, pc, outcome)
  BY DEF PrepareArrive
<1>2. QED
  BY <1>1 DEF TypeOK, PrepareArrive, Begins, sessionVars

\* Neither the memory nor the file holds a favorite the user did not ask for.
FavInv == favorites \subseteq asked /\ file.devices \subseteq asked

\* A request about to be accepted has heard yes, or needed no answer and cannot get one.
AcceptOK(p) ==
    prepare[p].pc = "accept" =>
      \/ heard[p] = "yes"
      \/ /\ p \in waived /\ heard[p] = "nothing" /\ p \notin confirmRecvChans
         /\ \A a \in Answers : reply[a].pc = "send" => reply[a].prepare # p

ConsentInv == FavInv /\ \A p \in Prepares : AcceptOK(p)

\* A failed write leaves no favorite in the file that was not there or is not in memory.
LEMMA FavoriteKeepsFavInv ==
    ASSUME FavInv, NEW d \in Devices, FavoriteStep(d)
    PROVE  FavInv'
<1>1. CASE AddFavorite(d)
  <2>1. favorites' \subseteq asked' /\ asked \subseteq asked'
    BY <1>1 DEF AddFavorite, FavInv
  <2>2. file'.devices \subseteq favorites' \/ UNCHANGED file
    BY <1>1 DEF AddFavorite, Written, WriteFails
  <2>3. QED
    BY <2>1, <2>2 DEF FavInv
<1>2. CASE RemoveFavorite(d)
  <2>1. CASE Written(favorites') /\ asked' = asked \ {d}
    BY <1>2, <2>1 DEF RemoveFavorite, Written, FavInv
  <2>2. CASE WriteFails(favorites') /\ UNCHANGED asked
    <3>1. favorites' \subseteq asked'
      BY <1>2, <2>2 DEF RemoveFavorite, FavInv
    <3>2. file'.devices \subseteq favorites' \/ UNCHANGED file
      BY <2>2 DEF WriteFails
    <3>3. QED
      BY <2>2, <3>1, <3>2 DEF FavInv
  <2>3. QED
    BY <1>2, <2>1, <2>2 DEF RemoveFavorite
<1>3. QED
  BY <1>1, <1>2 DEF FavoriteStep

\* A request becomes accepted by configuration, for a favorite, or on a yes.
LEMMA PrepareKeepsAcceptOK ==
    ASSUME TypeOK, AskInv, ConsentInv, NEW p \in Prepares,
           PrepareArrive(p) \/ PrepareStep(p)
    PROVE  AcceptOK(p)'
<1>1. /\ prepare \in [Prepares -> Prepare] /\ AskOK(p)
      /\ UNCHANGED <<reply, heard>>
  BY PrepareTurns DEF TypeOK, AskInv
<1>2. SUFFICES ASSUME prepare'[p].pc = "accept" PROVE AcceptOK(p)'
  BY DEF AcceptOK
<1>3. CASE PrepareCheck(p)
  <2>1. prepare[p].pc = "check" /\ heard[p] = "nothing" /\ p \notin confirmRecvChans
    BY <1>1, <1>3 DEF PrepareCheck, AskOK
  <2>2. /\ config.autoSave \/ (config.fromFavorites /\ IsFavorite(From[p]))
        /\ UNCHANGED confirmRecvChans
    BY <1>1, <1>2, <1>3 DEF PrepareCheck, Goes, Prepare
  <2>3. IsFavorite(From[p]) => From[p] \in asked
    BY DEF IsFavorite, ConsentInv, FavInv
  <2>4. p \in waived'
    BY <1>3, <2>2, <2>3 DEF PrepareCheck
  <2>5. \A a \in Answers : reply[a].pc = "send" => reply[a].prepare # p
    BY <1>1, <2>1 DEF AskInv, AnswerOK, AskOK
  <2>6. QED
    BY <1>1, <2>1, <2>2, <2>4, <2>5 DEF AcceptOK
<1>4. CASE PrepareHear(p)
  <2>1. heard[p] = "yes"
    BY <1>1, <1>2, <1>4 DEF PrepareHear, Returns, AskOK, Prepare
  <2>2. QED
    BY <1>1, <2>1 DEF AcceptOK
<1>5. ASSUME PrepareArrive(p) PROVE FALSE
  BY <1>2, <1>5, Arrives
<1>6. ASSUME TextShow(p) \/ TextDismissed(p) \/ TextTimeout(p) PROVE FALSE
  BY <1>1, <1>2, <1>6 DEF TextShow, TextDismissed, TextTimeout, Goes, Returns, Prepare
<1>7. ASSUME PrepareTimeout(p) \/ PrepareAccept(p) PROVE FALSE
  BY <1>1, <1>2, <1>7 DEF PrepareTimeout, PrepareAccept, Returns, Prepare
<1>8. ASSUME PrepareRespond(p) PROVE FALSE
  BY <1>1, <1>2, <1>8 DEF PrepareRespond, Replies, Prepare
<1>9. QED
  BY <1>3, <1>4, <1>5, <1>6, <1>7, <1>8 DEF PrepareStep

\* ConsentInv is inductive.
THEOREM ConsentInvariance == Spec => []ConsentInv
<1>1. Init => ConsentInv
  BY DEF Init, ConsentInv, FavInv, AcceptOK
<1>2. TypeOK /\ AskInv /\ ConsentInv /\ [Next]_vars => ConsentInv'
  <2> SUFFICES ASSUME TypeOK, AskInv, ConsentInv, [Next]_vars PROVE ConsentInv'
    OBVIOUS
  <2>1. CASE UNCHANGED vars
    BY <2>1 DEF vars, favoriteVars, channelVars, ConsentInv, FavInv, AcceptOK
  <2>2. ASSUME NEW d \in Devices, FavoriteStep(d) PROVE ConsentInv'
    <3>1. UNCHANGED <<prepare, confirmRecvChans, reply, heard, waived>>
      BY <2>2 DEF FavoriteStep, AddFavorite, RemoveFavorite, channelVars
    <3>2. QED
      BY <2>2, <3>1, FavoriteKeepsFavInv DEF ConsentInv, AcceptOK
  <2>3. ASSUME NEW p \in Prepares, PrepareArrive(p) \/ PrepareStep(p) PROVE ConsentInv'
    <3>1. FavInv'
      BY <2>3, PrepareTurns DEF favoriteVars, ConsentInv, FavInv
    <3>2. \A q \in Prepares \ {p} : AcceptOK(q)'
      BY <2>3, PrepareTurns, PrepareFrame DEF ConsentInv, AcceptOK
    <3>3. QED
      BY <2>3, <3>1, <3>2, PrepareKeepsAcceptOK DEF ConsentInv
  <2>4. ASSUME NEW a \in Answers, AnswerStep(a) PROVE ConsentInv'
    <3>1. /\ UNCHANGED <<favoriteVars, prepare, waived>>
          /\ confirmRecvChans' \subseteq confirmRecvChans
          /\ \A b \in Answers \ {a} : reply'[b] = reply[b]
          /\ reply \in [Answers -> Reply]
      BY <2>4, AnswerTurns DEF TypeOK
    <3>2. \A p \in Prepares : heard[p] # "nothing" => heard'[p] = heard[p]
      BY <2>4 DEF AnswerStep, AnswerArrive, AnswerSend, AnswerDelete, TypeOK
    <3>3. ASSUME NEW p \in Prepares, prepare[p].pc = "accept", heard[p] = "nothing",
                 reply[a].pc = "send" => reply[a].prepare # p
          PROVE  heard'[p] = "nothing"
      BY <2>4, <3>3 DEF AnswerStep, AnswerArrive, AnswerSend, AnswerDelete, TypeOK
    <3>4. ASSUME NEW p \in Prepares, prepare[p].pc = "accept", p \notin confirmRecvChans,
                 reply'[a].pc = "send"
          PROVE  reply'[a].prepare # p
      <4>1. PICK q \in Prepares, says \in {"yes", "no", "dismiss"} :
              /\ q \in Channels(says)
              /\ reply' = [reply EXCEPT ![a] = [pc |-> "send", prepare |-> q, says |-> says]]
        BY <2>4, <3>1, <3>4
           DEF AnswerStep, AnswerArrive, AnswerSend, AnswerDelete, Ends, Reply
      <4>2. p \notin textReceivedDismissChans
        BY <3>4 DEF AskInv, AskOK
      <4>3. q # p
        BY <3>4, <4>1, <4>2 DEF Channels
      <4>4. QED
        BY <3>1, <4>1, <4>3
    <3>5. FavInv'
      BY <3>1 DEF favoriteVars, ConsentInv, FavInv
    <3>6. ASSUME NEW p \in Prepares PROVE AcceptOK(p)'
      <4> SUFFICES ASSUME prepare[p].pc = "accept" PROVE AcceptOK(p)'
        BY <3>1 DEF AcceptOK
      <4>1. AcceptOK(p)
        BY DEF ConsentInv
      <4>2. CASE heard[p] = "yes"
        BY <3>2, <4>2 DEF AcceptOK
      <4>3. CASE heard[p] # "yes"
        BY <3>1, <3>3, <3>4, <4>1, <4>3 DEF AcceptOK
      <4>4. QED
        BY <4>2, <4>3
    <3>7. QED
      BY <3>5, <3>6 DEF ConsentInv
  <2>5. QED
    BY <2>1, <2>2, <2>3, <2>4 DEF Next
<1>3. QED
  BY <1>1, <1>2, TypeCorrect, AskInvariance, PTL DEF Spec

\* The verdict on each request, as Consent sees it.
Verdicts == [p \in Prepares |->
               CASE prepare[p].outcome = "open" -> "open"
                 [] prepare[p].outcome = "accepted" -> "granted"
                 [] OTHER -> "refused"]

\* A step of a request grants it with consent, refuses it, waives the question, or is
\* not seen.
LEMMA PrepareImplements ==
    ASSUME TypeOK, AskInv, ConsentInv, NEW p \in Prepares,
           PrepareArrive(p) \/ PrepareStep(p)
    PROVE  [Promise!Next]_(Promise!vars)
<1>1. /\ prepare \in [Prepares -> Prepare] /\ prepare' \in [Prepares -> Prepare]
      /\ \A q \in Prepares \ {p} : prepare'[q] = prepare[q]
      /\ UNCHANGED heard /\ AskOK(p) /\ AcceptOK(p)
  BY PrepareTurns DEF TypeOK, AskInv, ConsentInv
<1>2. CASE PrepareAccept(p)
  <2>1. /\ prepare[p].pc = "accept" /\ prepare[p].outcome = "open"
        /\ prepare'[p].outcome = "accepted" /\ UNCHANGED waived
    BY <1>1, <1>2 DEF PrepareAccept, Returns, AskOK, Prepare
  <2>2. Verdicts' = [Verdicts EXCEPT ![p] = "granted"] /\ Verdicts[p] = "open"
    BY <1>1, <2>1 DEF Verdicts
  <2>3. heard[p] # "no" /\ (p \in waived \/ heard[p] = "yes")
    BY <1>1, <2>1 DEF AcceptOK
  <2>4. Promise!Grant(p)
    BY <1>1, <2>1, <2>2, <2>3 DEF Promise!Grant, Promise!Agreed, Verdicts
  <2>5. QED
    BY <2>4 DEF Promise!Next
<1>3. CASE PrepareCheck(p)
  <2>1. prepare'[p].outcome = prepare[p].outcome
    BY <1>1, <1>3 DEF PrepareCheck, Goes, Prepare
  <2>2. UNCHANGED Verdicts
    BY <1>1, <2>1 DEF Verdicts
  <2>3. CASE UNCHANGED waived
    BY <1>1, <2>2, <2>3 DEF Promise!vars, Verdicts
  <2>4. CASE waived' = waived \cup {p}
    <3>1. {q \in Prepares : [r \in Prepares |-> r][q] = p} = {p}
      OBVIOUS
    <3>2. Promise!Waive(p)
      BY <1>1, <2>2, <2>4, <3>1 DEF Promise!Waive, Verdicts
    <3>3. QED
      BY <3>2 DEF Promise!Next
  <2>5. QED
    BY <1>3, <2>3, <2>4 DEF PrepareCheck
<1>4. CASE ~PrepareAccept(p) /\ ~PrepareCheck(p)
  <2>1. UNCHANGED waived
    BY <1>4 DEF PrepareArrive, PrepareStep, TextShow, TextDismissed, TextTimeout,
         PrepareHear, PrepareTimeout, PrepareRespond
  <2>2. \/ prepare'[p].outcome = prepare[p].outcome
        \/ prepare[p].outcome = "open" /\ prepare'[p].outcome \notin {"open", "accepted"}
    <3>1. CASE PrepareArrive(p)
      BY <1>1, <3>1, Arrives DEF AskOK
    <3>2. CASE TextShow(p)
      BY <1>1, <3>2 DEF TextShow, Goes, Returns, AskOK, Prepare
    <3>3. CASE TextDismissed(p) \/ TextTimeout(p) \/ PrepareTimeout(p)
      BY <1>1, <3>3 DEF TextDismissed, TextTimeout, PrepareTimeout, Returns, AskOK, Prepare
    <3>4. CASE PrepareHear(p)
      BY <1>1, <3>4 DEF PrepareHear, Goes, Returns, AskOK, Prepare
    <3>5. CASE PrepareRespond(p)
      BY <1>1, <3>5 DEF PrepareRespond, Replies, Prepare
    <3>6. QED
      BY <1>4, <3>1, <3>2, <3>3, <3>4, <3>5 DEF PrepareStep
  <2>3. CASE prepare'[p].outcome = prepare[p].outcome
    <3>1. UNCHANGED Verdicts
      BY <1>1, <2>3 DEF Verdicts
    <3>2. QED
      BY <1>1, <2>1, <3>1 DEF Promise!vars, Verdicts
  <2>4. CASE prepare[p].outcome = "open" /\ prepare'[p].outcome \notin {"open", "accepted"}
    <3>1. Verdicts' = [Verdicts EXCEPT ![p] = "refused"] /\ Verdicts[p] = "open"
      BY <1>1, <2>4 DEF Verdicts
    <3>2. Promise!Refuse(p)
      BY <1>1, <2>1, <3>1 DEF Promise!Refuse, Verdicts
    <3>3. QED
      BY <3>2 DEF Promise!Next
  <2>5. QED
    BY <2>2, <2>3, <2>4
<1>5. QED
  BY <1>2, <1>3, <1>4

\* Every step of PrepareUpload is a step of Consent or is not seen by it.
LEMMA StepImplements ==
    ASSUME TypeOK, AskInv, ConsentInv, [Next]_vars
    PROVE  [Promise!Next]_(Promise!vars)
<1>1. CASE UNCHANGED vars
  BY <1>1 DEF vars, Promise!vars
<1>2. ASSUME NEW d \in Devices, FavoriteStep(d) PROVE [Promise!Next]_(Promise!vars)
  BY <1>2 DEF FavoriteStep, AddFavorite, RemoveFavorite, Promise!vars
<1>3. ASSUME NEW a \in Answers, AnswerStep(a) PROVE [Promise!Next]_(Promise!vars)
  <2>1. UNCHANGED <<prepare, waived>>
    BY <1>3, AnswerTurns
  <2>2. CASE UNCHANGED heard
    BY <2>1, <2>2 DEF Promise!vars
  <2>3. CASE ~UNCHANGED heard
    <3>1. PICK p \in Prepares, says \in {"yes", "no"} :
            heard[p] = "nothing" /\ heard' = [heard EXCEPT ![p] = says]
      BY <1>3, <2>3 DEF AnswerStep, AnswerArrive, AnswerSend, AnswerDelete, TypeOK, Reply
    <3>2. Promise!Hear(p, says)
      BY <2>1, <3>1 DEF Promise!Hear
    <3>3. QED
      BY <3>2 DEF Promise!Next
  <2>4. QED
    BY <2>2, <2>3
<1>4. QED
  BY <1>1, <1>2, <1>3, PrepareImplements DEF Next

\* PrepareUpload implements Consent: a session is made only by configuration, for a
\* device the user wants as a favorite, or on a yes to this request given in time.
THEOREM ConsentKept == Spec => ImplementsConsent
<1>1. Init => Promise!Init
  BY DEF Init, Promise!Init
<1>2. TypeOK /\ AskInv /\ ConsentInv /\ [Next]_vars => [Promise!Next]_(Promise!vars)
  BY StepImplements
<1>3. QED
  BY <1>1, <1>2, TypeCorrect, AskInvariance, ConsentInvariance, PTL
     DEF Spec, ImplementsConsent, Promise!Spec

-----------------------------------------------------------------------------
(* Replies *)

\* The requests that were answered with a session.
Served == {p \in Prepares : prepare[p].status = "OK"}

\* Sessions, replies, mappings of addresses and the counter agree.
ReplyOK(p) ==
    /\ p \in sessions <=> prepare[p].outcome = "accepted"
    /\ prepare[p].status = "OK"
         <=> prepare[p].pc = "done" /\ prepare[p].outcome = "accepted"

MappingOK(d) ==
    v1Sessions[d] # NoPrepare =>
      /\ From[v1Sessions[d]] = d
      /\ prepare[v1Sessions[d]].protocol = "v1"
      /\ prepare[v1Sessions[d]].status = "OK"

ReplyInv ==
    /\ \A p \in Prepares : ReplyOK(p)
    /\ \A d \in Devices : MappingOK(d)
    /\ scanPauseCount = Cardinality(Served)

\* The reply itself.
LEMMA RespondKeepsReplyInv ==
    ASSUME TypeOK, ReplyInv, NEW p \in Prepares, PrepareRespond(p)
    PROVE  ReplyInv'
<1>1. /\ prepare \in [Prepares -> Prepare] /\ From \in [Prepares -> Devices]
      /\ v1Sessions \in [Devices -> Prepares \cup {NoPrepare}] /\ NoPrepare \notin Prepares
      /\ scanPauseCount = Cardinality(Served) /\ ReplyOK(p)
  BY ConstantsAssumption DEF TypeOK, ReplyInv
<1>2. Status(p) = "OK" <=> prepare[p].outcome = "accepted"
  BY DEF Status
<1>3. /\ prepare' = [prepare EXCEPT ![p].pc = "done", ![p].status = Status(p)]
      /\ prepare[p].pc = "respond" /\ UNCHANGED sessions
  BY DEF PrepareRespond, Replies
<1>4. /\ prepare'[p].pc = "done" /\ prepare'[p].status = Status(p)
      /\ prepare'[p].outcome = prepare[p].outcome
      /\ prepare'[p].protocol = prepare[p].protocol
      /\ \A q \in Prepares \ {p} : prepare'[q] = prepare[q]
  BY <1>1, <1>3 DEF Prepare
<1>5. \A q \in Prepares : ReplyOK(q)'
  BY <1>1, <1>2, <1>3, <1>4 DEF ReplyInv, ReplyOK
<1>6. p \notin Served
  BY <1>1, <1>3 DEF Served, ReplyOK
<1>7. CASE prepare[p].outcome = "accepted"
  <2>1. Served' = Served \cup {p}
    BY <1>1, <1>2, <1>4, <1>7 DEF Served
  <2>2. IsFiniteSet(Served)
    BY ConstantsAssumption, FS_Subset DEF Served
  <2>3. scanPauseCount' = Cardinality(Served')
    BY <1>1, <1>6, <1>7, <2>1, <2>2, FS_AddElement DEF PrepareRespond
  <2>4. ASSUME NEW d \in Devices PROVE MappingOK(d)'
    <3>1. CASE v1Sessions'[d] = v1Sessions[d]
      BY <1>1, <1>2, <1>4, <1>7, <3>1 DEF ReplyInv, MappingOK
    <3>2. CASE v1Sessions'[d] # v1Sessions[d]
      <4>1. d = From[p] /\ v1Sessions'[d] = p /\ prepare[p].protocol = "v1"
        BY <1>1, <1>7, <3>2 DEF PrepareRespond
      <4>2. QED
        BY <1>2, <1>4, <1>7, <4>1 DEF MappingOK
    <3>3. QED
      BY <3>1, <3>2
  <2>5. QED
    BY <1>5, <2>3, <2>4 DEF ReplyInv
<1>8. CASE prepare[p].outcome # "accepted"
  <2>1. Served' = Served
    BY <1>2, <1>4, <1>6, <1>8 DEF Served
  <2>2. UNCHANGED <<scanPauseCount, v1Sessions>>
    BY <1>8 DEF PrepareRespond
  <2>3. ASSUME NEW d \in Devices PROVE MappingOK(d)'
    <3>1. v1Sessions[d] # p
      BY <1>1, <1>6 DEF ReplyInv, MappingOK, Served
    <3>2. QED
      BY <1>1, <1>4, <2>2, <3>1 DEF ReplyInv, MappingOK
  <2>4. QED
    BY <1>1, <1>5, <2>1, <2>2, <2>3 DEF ReplyInv
<1>9. QED
  BY <1>7, <1>8

\* ReplyInv is inductive.
THEOREM ReplyInvariance == Spec => []ReplyInv
<1>1. Init => ReplyInv
  <2> SUFFICES ASSUME Init PROVE ReplyInv
    OBVIOUS
  <2>1. Served = {}
    BY DEF Init, Served
  <2>2. QED
    BY <2>1, FS_EmptySet DEF Init, ReplyInv, ReplyOK, MappingOK
<1>2. TypeOK /\ AskInv /\ ReplyInv /\ [Next]_vars => ReplyInv'
  <2> SUFFICES ASSUME TypeOK, AskInv, ReplyInv, [Next]_vars PROVE ReplyInv'
    OBVIOUS
  <2>1. CASE UNCHANGED <<prepare, sessions, v1Sessions, scanPauseCount>>
    BY <2>1 DEF ReplyInv, ReplyOK, MappingOK, Served
  <2>2. ASSUME NEW d \in Devices, FavoriteStep(d) PROVE ReplyInv'
    BY <2>1, <2>2 DEF FavoriteStep, AddFavorite, RemoveFavorite, sessionVars
  <2>3. ASSUME NEW a \in Answers, AnswerStep(a) PROVE ReplyInv'
    BY <2>1, <2>3, AnswerTurns DEF sessionVars
  <2>4. ASSUME NEW p \in Prepares, PrepareArrive(p) \/ PrepareStep(p) PROVE ReplyInv'
    <3>1. CASE PrepareRespond(p)
      BY <3>1, RespondKeepsReplyInv
    <3>2. CASE ~PrepareRespond(p)
      <4>1. /\ prepare \in [Prepares -> Prepare] /\ AskOK(p) /\ ReplyOK(p)
            /\ \A q \in Prepares \ {p} : prepare'[q] = prepare[q]
            /\ prepare[p].pc # "idle" => prepare'[p].protocol = prepare[p].protocol
        BY <2>4, PrepareTurns DEF TypeOK, AskInv, ReplyInv
      <4>2. UNCHANGED <<v1Sessions, scanPauseCount>>
        BY <2>4, <3>2 DEF PrepareArrive, PrepareStep, TextShow, TextDismissed, TextTimeout,
             PrepareCheck, PrepareHear, PrepareTimeout, PrepareAccept, sessionVars
      <4>3. /\ prepare[p].status # "OK" /\ prepare'[p].status # "OK"
            /\ prepare'[p].pc # "done"
            /\ p \in sessions' <=> prepare'[p].outcome = "accepted"
            /\ \A q \in Prepares \ {p} : q \in sessions' <=> q \in sessions
        <5>1. CASE PrepareArrive(p)
          BY <4>1, <5>1, Arrives DEF AskOK, ReplyOK
        <5>2. CASE PrepareAccept(p)
          BY <4>1, <5>2 DEF PrepareAccept, Returns, AskOK, ReplyOK, Prepare
        <5>3. CASE TextShow(p) \/ TextDismissed(p) \/ TextTimeout(p)
          <6>1. UNCHANGED sessions /\ prepare[p].pc \in {"text", "dismiss"}
            BY <5>3 DEF TextShow, TextDismissed, TextTimeout, sessionVars
          <6>2. Goes(p, "dismiss") \/ Returns(p, "text")
            BY <5>3 DEF TextShow, TextDismissed, TextTimeout
          <6>3. QED
            BY <4>1, <6>1, <6>2 DEF Goes, Returns, AskOK, ReplyOK, Prepare
        <5>4. CASE PrepareCheck(p) \/ PrepareHear(p) \/ PrepareTimeout(p)
          <6>1. UNCHANGED sessions /\ prepare[p].pc \in {"check", "wait"}
            BY <5>4 DEF PrepareCheck, PrepareHear, PrepareTimeout, sessionVars
          <6>2. Goes(p, "accept") \/ Goes(p, "wait") \/ Returns(p, "rejected")
            BY <5>4 DEF PrepareCheck, PrepareHear, PrepareTimeout
          <6>3. QED
            BY <4>1, <6>1, <6>2 DEF Goes, Returns, AskOK, ReplyOK, Prepare
        <5>5. QED
          BY <2>4, <3>2, <5>1, <5>2, <5>3, <5>4 DEF PrepareStep
      <4>4. Served' = Served
        BY <4>1, <4>3 DEF Served
      <4>5. \A q \in Prepares : ReplyOK(q)'
        BY <4>1, <4>3 DEF ReplyInv, ReplyOK
      <4>6. ASSUME NEW d \in Devices PROVE MappingOK(d)'
        <5>1. v1Sessions[d] # p
          BY <4>3, ConstantsAssumption DEF ReplyInv, MappingOK
        <5>2. v1Sessions[d] \in Prepares \cup {NoPrepare}
          BY DEF TypeOK
        <5>3. QED
          BY <4>1, <4>2, <5>1, <5>2 DEF ReplyInv, MappingOK
      <4>7. QED
        BY <4>2, <4>4, <4>5, <4>6 DEF ReplyInv
    <3>3. QED
      BY <3>1, <3>2
  <2>5. QED
    BY <2>1, <2>2, <2>3, <2>4 DEF Next, vars, sessionVars
<1>3. QED
  BY <1>1, <1>2, TypeCorrect, AskInvariance, PTL DEF Spec

\* A reply tells whether there is a session, its mapping and its pause.
THEOREM RepliesHonest == Spec => []ReplyTellsSession
<1>1. AskInv /\ ReplyInv => ReplyTellsSession
  BY DEF ReplyInv, ReplyOK, MappingOK, Served, ReplyTellsSession
<1>2. QED
  BY <1>1, AskInvariance, ReplyInvariance, PTL

=============================================================================
