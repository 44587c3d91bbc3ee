--------------------------- MODULE DiscoveryProofs ---------------------------
(***************************************************************************)
(* Invariants of Discovery, for every number of devices, addresses, tasks, *)
(* announcements, probes, scans and moves.                                 *)
(***************************************************************************)
EXTENDS Discovery, TLAPS

-----------------------------------------------------------------------------
(* Tasks *)

\* What is always true of a task's record: whom it calls and whose entry it sets is
\* known, a call is answered by another device, and an entry of a device in its own list
\* is set for a user who named it, one in asked.
Sound(r, asked) ==
    /\ r \in Task
    /\ r.pc = "free" <=> r.node = Nil
    /\ r.pc \in {"get", "set", "notify"} =>
         /\ r.at \in Devices /\ r.about \in Devices /\ r.ip \in Addrs
         /\ r.at = r.about => r.at \in asked
    /\ r.pc \in {"get", "set", "notify", "post", "reply"} => r.target \in Addrs
    /\ r.pc = "reply" => r.at \in Devices /\ r.at # r.node

TasksInv == \A t \in Tasks : Sound(task[t], askedSelf)

\* A task starts to set an entry.
LEMMA SetterSound ==
    ASSUME NEW r \in Task, NEW asked, NEW at \in Devices, NEW about \in Devices,
           NEW ip \in Addrs, r.node # Nil, r.target \in Addrs, at = about => at \in asked
    PROVE  Sound(Setter(r, at, about, ip), asked)
<1> DEFINE q == Setter(r, at, about, ip)
<1>1. q \in Task
  BY DEF Setter, Task
<1>2. /\ q.pc = "get" /\ q.at = at /\ q.about = about /\ q.ip = ip
      /\ q.node = r.node /\ q.target = r.target
  BY DEF Setter, Task
<1>3. QED
  BY <1>1, <1>2 DEF Sound

\* The free task is sound.
LEMMA FreeSound ==
    ASSUME NEW asked
    PROVE  Free \in Task /\ Sound(Free, asked) /\ Free.pc = "free"
<1>1. Free \in Task /\ Free.pc = "free" /\ Free.node = Nil
  BY DEF Free, Task
<1>2. QED
  BY <1>1 DEF Sound

\* A fallback, a call and a probe, made from the free task.
LEMMA StartSound ==
    ASSUME NEW asked, NEW d \in Devices, NEW a \in Addrs,
           NEW kind \in {"none", "callback", "probe", "named"}, NEW now \in BOOLEAN
    PROVE  /\ [Free EXCEPT !.kind = kind, !.node = d, !.target = a] \in Task
           /\ [Free EXCEPT !.kind = kind, !.node = d, !.target = a].node = d
           /\ [Free EXCEPT !.kind = kind, !.node = d, !.target = a].target = a
           /\ Sound([Free EXCEPT !.pc = "fallback", !.node = d], asked)
           /\ Sound([Free EXCEPT !.pc = "post", !.kind = kind, !.node = d, !.target = a], asked)
           /\ Sound(Probe(d, a, now), asked)
<1>1. d # Nil
  BY ConstantsAssumption
<1>2. /\ [Free EXCEPT !.kind = kind, !.node = d, !.target = a] \in Task
      /\ [Free EXCEPT !.kind = kind, !.node = d, !.target = a].node = d
      /\ [Free EXCEPT !.kind = kind, !.node = d, !.target = a].target = a
  BY DEF Free, Task
<1>3. ASSUME NEW q, q \in { [Free EXCEPT !.pc = "fallback", !.node = d],
                            [Free EXCEPT !.pc = "post", !.kind = kind, !.node = d,
                                         !.target = a],
                            Probe(d, a, now) }
      PROVE  q \in Task /\ q.pc \in {"fallback", "post"} /\ q.node = d
             /\ (q.pc = "post" => q.target = a)
  BY <1>3 DEF Free, Probe, Task
<1>4. ASSUME NEW q, q \in Task /\ q.pc \in {"fallback", "post"} /\ q.node = d
             /\ (q.pc = "post" => q.target = a)
      PROVE  Sound(q, asked)
  BY <1>1, <1>4 DEF Sound
<1>5. QED
  BY <1>2, <1>3, <1>4

\* What follows a call of SetUserScanCurrent.
LEMMA ReturnSound ==
    ASSUME NEW r, NEW asked, Sound(r, asked), r.pc \in {"set", "notify"}
    PROVE  Sound(Return(r), asked) /\ Return(r).pc # "notify" /\ Return(r).pc # "set"
<1>1. /\ r \in Task /\ r.at \in Devices /\ r.target \in Addrs /\ r.node # Nil
  BY DEF Sound
<1>2. CASE r.at # r.node
  <2> DEFINE q == [r EXCEPT !.pc = "reply", !.about = Nil, !.ip = Nil, !.known = Nil]
  <2>1. /\ q \in Task /\ q.pc = "reply" /\ q.at = r.at /\ q.node = r.node
        /\ q.target = r.target
    BY <1>1 DEF Task
  <2>2. Return(r) = q
    BY <1>2 DEF Return
  <2> HIDE DEF q
  <2>3. QED
    BY <1>1, <1>2, <2>1, <2>2 DEF Sound
<1>3. CASE r.at = r.node /\ r.kind = "callback"
  <2> DEFINE q == [Free EXCEPT !.pc = "post", !.kind = "callback", !.node = r.node,
                               !.target = r.target]
  <2>1. Return(r) = q
    BY <1>3 DEF Return
  <2>2. Sound(q, asked) /\ q.pc = "post"
    BY <1>1, <1>3, StartSound DEF Free
  <2>3. QED
    BY <2>1, <2>2
<1>4. CASE r.at = r.node /\ r.kind # "callback"
  <2>1. Return(r) = Free
    BY <1>4 DEF Return
  <2>2. QED
    BY <2>1, FreeSound
<1>5. QED
  BY <1>2, <1>3, <1>4

\* What follows a call that failed.
LEMMA FailsSound ==
    ASSUME TypeOK, TasksInv, NEW t \in Tasks, task[t].pc # "free", Fails(t)
    PROVE  \E r : /\ task' = [task EXCEPT ![t] = r]
                  /\ Sound(r, askedSelf) /\ r.pc \notin {"notify", "set"}
<1>1. task[t].node \in Devices
  BY DEF TasksInv, Sound, Task
<1>2. CASE task[t].kind = "callback"
  <2>1. Sound([Free EXCEPT !.pc = "fallback", !.node = task[t].node], askedSelf)
    <3>1. PICK a : a \in Addrs
      BY <1>1 DEF TypeOK
    <3>2. QED
      BY <1>1, <3>1, StartSound
  <2>2. [Free EXCEPT !.pc = "fallback", !.node = task[t].node].pc = "fallback"
    BY DEF Free
  <2>3. QED
    BY <1>2, <2>1, <2>2 DEF Fails
<1>3. CASE task[t].kind # "callback"
  BY <1>3, FreeSound DEF Fails
<1>4. QED
  BY <1>2, <1>3
-----------------------------------------------------------------------------
(* Steps *)

\* The record of task t becomes r.  Only SetGet gets a task to "set", only SetSet to
\* "notify", and only SetNotify away from it.
Becomes(t, r) ==
    /\ task' = [task EXCEPT ![t] = r]
    /\ Sound(r, askedSelf')
    /\ task[t].pc = "notify" => SetNotify(t)
    /\ r.pc = "notify" => SetSet(t)
    /\ r.pc = "set" => SetGet(t)

\* A step of a task.
LEMMA TaskStepKinds ==
    ASSUME TypeOK, TasksInv, NEW t \in Tasks, TaskStep(t)
    PROVE  \E r : Becomes(t, r)
<1>1. Sound(task[t], askedSelf) /\ task \in [Tasks -> Task] /\ task[t] \in Task
  BY DEF TasksInv, TypeOK
<1>2. addr \in [Devices -> Addrs]
  BY DEF TypeOK
<1>3. CASE SetGet(t)
  <2> DEFINE x == UserScanCurrent[task[t].at][task[t].about]
             r == [task[t] EXCEPT !.pc = "set", !.known = x]
  <2>1. task[t].at \in Devices /\ task[t].about \in Devices
    BY <1>1, <1>3 DEF SetGet, Sound
  <2>2. x \in Addrs \cup {Nil}
    BY <2>1 DEF TypeOK
  <2>3. r \in Task /\ r.pc = "set" /\ r.at = task[t].at /\ r.about = task[t].about
        /\ r.ip = task[t].ip /\ r.node = task[t].node /\ r.target = task[t].target
    BY <1>1, <2>2 DEF Task
  <2>4. task' = [task EXCEPT ![t] = r] /\ askedSelf' = askedSelf /\ task[t].pc = "get"
    BY <1>3 DEF SetGet, history
  <2> HIDE DEF r
  <2>5. Sound(r, askedSelf)
    BY <1>1, <2>3, <2>4 DEF Sound
  <2>6. QED
    BY <1>3, <2>3, <2>4, <2>5 DEF Becomes
<1>4. CASE SetSet(t)
  <2> DEFINE r == [task[t] EXCEPT !.pc = "notify", !.known = Nil]
  <2>1. r \in Task /\ r.pc = "notify" /\ r.at = task[t].at /\ r.about = task[t].about
        /\ r.ip = task[t].ip /\ r.node = task[t].node /\ r.target = task[t].target
    BY <1>1 DEF Task
  <2>2. /\ \/ task' = [task EXCEPT ![t] = r]
           \/ task' = [task EXCEPT ![t] = Return(task[t])]
        /\ askedSelf' = askedSelf /\ task[t].pc = "set"
    BY <1>4 DEF SetSet, history
  <2> HIDE DEF r
  <2>3. Sound(r, askedSelf)
    BY <1>1, <2>1, <2>2 DEF Sound
  <2>4. Sound(Return(task[t]), askedSelf) /\ Return(task[t]).pc \notin {"notify", "set"}
    BY <1>1, <2>2, ReturnSound
  <2>5. QED
    BY <1>4, <2>1, <2>2, <2>3, <2>4 DEF Becomes
<1>5. CASE SetNotify(t)
  <2>1. /\ task' = [task EXCEPT ![t] = Return(task[t])]
        /\ askedSelf' = askedSelf /\ task[t].pc = "notify"
    BY <1>5 DEF SetNotify
  <2>2. Sound(Return(task[t]), askedSelf) /\ Return(task[t]).pc \notin {"notify", "set"}
    BY <1>1, <2>1, ReturnSound
  <2>3. QED
    BY <1>5, <2>1, <2>2 DEF Becomes
<1>6. CASE PostFails(t) \/ ReplyFails(t)
  <2>1. Fails(t) /\ task[t].pc \in {"post", "reply"} /\ askedSelf' = askedSelf
    BY <1>6 DEF PostFails, ReplyFails, history
  <2>2. QED
    BY <2>1, FailsSound DEF Becomes
<1>7. ASSUME NEW d \in Devices, Register(t, d)
      PROVE  \E r : Becomes(t, r)
  <2> DEFINE r == Setter(task[t], d, task[t].node, addr[task[t].node])
  <2>1. task[t].pc = "post" /\ askedSelf' = askedSelf
    BY <1>7 DEF Register, history
  <2>2. CASE d = task[t].node
    <3>1. Fails(t)
      BY <1>7, <2>2 DEF Register
    <3>2. QED
      BY <2>1, <3>1, FailsSound DEF Becomes
  <2>3. CASE d # task[t].node
    <3>1. task[t].node # Nil /\ task[t].node \in Devices /\ task[t].target \in Addrs
      BY <1>1, <2>1 DEF Sound, Task
    <3>2. Sound(r, askedSelf)
      BY <1>1, <1>2, <2>3, <3>1, SetterSound
    <3>3. r.pc = "get"
      BY <1>1 DEF Setter, Task
    <3>4. task' = [task EXCEPT ![t] = r]
      BY <1>7, <2>3 DEF Register
    <3>5. QED
      BY <2>1, <3>2, <3>3, <3>4 DEF Becomes
  <2>4. QED
    BY <2>2, <2>3
<1>8. CASE Reply(t)
  <2> DEFINE r == Setter(task[t], task[t].node, task[t].at, task[t].target)
  <2>1. task[t].pc = "reply" /\ askedSelf' = askedSelf
    BY <1>8 DEF Reply, history
  <2>2. /\ task[t].node # Nil /\ task[t].node \in Devices /\ task[t].target \in Addrs
        /\ task[t].at \in Devices /\ task[t].at # task[t].node
    BY <1>1, <2>1 DEF Sound, Task
  <2>3. Sound(r, askedSelf)
    BY <1>1, <2>2, SetterSound
  <2>4. r.pc = "get"
    BY <1>1 DEF Setter, Task
  <2>5. task' = [task EXCEPT ![t] = Free] \/ task' = [task EXCEPT ![t] = r]
    BY <1>8 DEF Reply
  <2>6. QED
    BY <2>1, <2>3, <2>4, <2>5, FreeSound DEF Becomes
<1>9. CASE Fallback(t)
  BY <1>9, FreeSound DEF Fallback, Becomes, history
<1>10. QED
  BY <1>3, <1>4, <1>5, <1>6, <1>7, <1>8, <1>9 DEF TaskStep

\* A task that was free starts with something.
LEMMA StartKinds ==
    ASSUME TypeOK, NEW t \in Tasks,
           \/ \E p \in net : Hear(p, t)
           \/ \E d \in Devices, a \in Addrs : AutoProbe(d, a, t)
           \/ \E d \in Devices, e \in Devices : NameDevice(d, e, t)
           \/ \E d \in Devices, a \in Addrs : ScanNowProbe(d, a, t)
    PROVE  \E r : Becomes(t, r)
<1>1. ASSUME NEW p \in net, Hear(p, t)
      PROVE  \E r : Becomes(t, r)
  <2> DEFINE b == [Free EXCEPT !.kind = "callback", !.node = p.to, !.target = p.ip]
             r == Setter(b, p.to, p.from, p.ip)
  <2>1. p.to \in Devices /\ p.from \in Devices /\ p.ip \in Addrs
    BY DEF TypeOK, Packet
  <2>2. p.to # p.from
    BY <1>1 DEF Hear, ShouldRespond
  <2>3. b \in Task /\ b.node = p.to /\ b.target = p.ip
    BY <2>1, StartSound
  <2>4. /\ task' = [task EXCEPT ![t] = r] /\ askedSelf' = askedSelf
        /\ task[t].pc = "free"
    BY <1>1 DEF Hear, history
  <2> HIDE DEF b
  <2>5. Sound(r, askedSelf)
    BY <2>1, <2>2, <2>3, ConstantsAssumption, SetterSound
  <2>6. r.pc = "get"
    BY <2>3 DEF Setter, Task
  <2>7. QED
    BY <2>4, <2>5, <2>6 DEF Becomes
<1>2. ASSUME NEW d \in Devices, NEW a \in Addrs, AutoProbe(d, a, t) \/ ScanNowProbe(d, a, t)
      PROVE  \E r : Becomes(t, r)
  <2>1. PICK now \in BOOLEAN : task' = [task EXCEPT ![t] = Probe(d, a, now)]
    BY <1>2 DEF AutoProbe, ScanNowProbe
  <2>2. askedSelf' = askedSelf /\ task[t].pc = "free"
    BY <1>2 DEF AutoProbe, ScanNowProbe, history
  <2>3. Sound(Probe(d, a, now), askedSelf)
    BY StartSound
  <2>4. Probe(d, a, now).pc = "post"
    BY DEF Probe, Free
  <2>5. QED
    BY <2>1, <2>2, <2>3, <2>4 DEF Becomes
<1>3. ASSUME NEW d \in Devices, NEW e \in Devices, NameDevice(d, e, t)
      PROVE  \E r : Becomes(t, r)
  <2> DEFINE b == [Free EXCEPT !.kind = "named", !.node = d, !.target = addr[e]]
             r == Setter(b, d, e, addr[e])
  <2>1. addr[e] \in Addrs
    BY DEF TypeOK
  <2>2. b \in Task /\ b.node = d /\ b.target = addr[e]
    BY <2>1, StartSound
  <2>3. /\ task' = [task EXCEPT ![t] = r] /\ task[t].pc = "free"
        /\ askedSelf' = askedSelf \cup ({d} \cap {e})
    BY <1>3 DEF NameDevice
  <2> HIDE DEF b
  <2>4. d = e => d \in askedSelf'
    BY <2>3
  <2>5. Sound(r, askedSelf')
    BY <2>1, <2>2, <2>4, ConstantsAssumption, SetterSound
  <2>6. r.pc = "get"
    BY <2>2 DEF Setter, Task
  <2>7. QED
    BY <2>3, <2>5, <2>6 DEF Becomes
<1>4. QED
  BY <1>1, <1>2, <1>3

\* Every step leaves all tasks alone, or is one of one task.
LEMMA TaskKinds ==
    ASSUME TypeOK, TasksInv, [Next]_vars
    PROVE  /\ task' = task \/ \E t \in Tasks : \E r : Becomes(t, r)
           /\ askedSelf \subseteq askedSelf'
<1>1. ASSUME \/ \E d \in Devices :
                  \/ Move(d) \/ Announce(d) \/ ScanNowStart(d)
                  \/ ScanNowScan(d) \/ ScanNowAnswer(d)
                  \/ \E e \in Devices : Expire(d, e) \/ ScanNowClear(d, e)
             \/ \E p \in net : Lose(p) \/ Ignore(p)
             \/ UNCHANGED vars
      PROVE  task' = task
  BY <1>1 DEF Move, Announce, ScanNowStart, ScanNowScan, ScanNowAnswer, Expire, ScanNowClear,
        Lose, Ignore, vars
<1>2. askedSelf \subseteq askedSelf'
  BY DEF Next, vars, history, Move, Announce, ScanNowStart, ScanNowStep, ScanNowScan,
     ScanNowAnswer, Expire, ScanNowClear, ScanNowProbe, Lose, Receive, Ignore, Hear,
     AutoProbe, NameDevice, TaskStep, SetGet, SetSet, SetNotify, PostFails, Register,
     Reply, ReplyFails, Fallback
<1>3. QED
  BY <1>1, <1>2, TaskStepKinds, StartKinds DEF Next, ScanNowStep, Receive

\* The records of the tasks stay sound.
LEMMA TasksStep ==
    ASSUME TypeOK, TasksInv, [Next]_vars
    PROVE  TasksInv' /\ task' \in [Tasks -> Task]
<1>1. ASSUME NEW t \in Tasks, Sound(task[t], askedSelf)
      PROVE  Sound(task[t], askedSelf')
  BY <1>1, TaskKinds DEF Sound
<1>2. \A t \in Tasks : Sound(task[t], askedSelf')
  BY <1>1 DEF TasksInv
<1>3. task \in [Tasks -> Task]
  BY DEF TypeOK
<1>4. CASE task' = task
  BY <1>2, <1>3, <1>4 DEF TasksInv
<1>5. CASE \E t \in Tasks : \E r : Becomes(t, r)
  <2>0. PICK t \in Tasks : \E r : Becomes(t, r)
    BY <1>5
  <2>1. PICK r : Becomes(t, r)
    BY <2>0
  <2>2. r \in Task
    BY <2>1 DEF Becomes, Sound
  <2>3. \A u \in Tasks : Sound(task'[u], askedSelf')
    BY <1>2, <1>3, <2>1 DEF Becomes
  <2>4. QED
    BY <1>3, <2>1, <2>2, <2>3 DEF TasksInv, Becomes
<1>6. QED
  BY <1>4, <1>5, TaskKinds
-----------------------------------------------------------------------------
(* Type correctness *)

\* No two devices have one address at a time.
LEMMA AddrStep ==
    ASSUME TypeOK, [Next]_vars
    PROVE  /\ addr' \in [Devices -> Addrs]
           /\ \A d, e \in Devices : addr'[d] = addr'[e] => d = e
<1>1. CASE \E d \in Devices : Move(d)
  BY <1>1 DEF Move, TypeOK
<1>2. CASE ~\E d \in Devices : Move(d)
  <2>1. addr' = addr
    BY <1>2 DEF Next, vars, Announce, ScanNowStart, ScanNowStep, ScanNowScan,
       ScanNowAnswer, Expire, ScanNowClear, ScanNowProbe, Lose, Receive, Ignore, Hear,
       AutoProbe, NameDevice, TaskStep, SetGet, SetSet, SetNotify, PostFails, Register,
       Reply, ReplyFails, Fallback
  <2>2. QED
    BY <2>1 DEF TypeOK
<1>3. QED
  BY <1>1, <1>2

\* What changes a list: a setter, a removal.
LEMMA ListKinds ==
    ASSUME TypeOK, [Next]_vars
    PROVE  \/ UNCHANGED <<UserScanCurrent, removed>>
           \/ removed' = removed /\ \E t \in Tasks : SetSet(t)
           \/ \E d, e \in Devices : Remove(d, e)
BY DEF Next, vars, history, Move, Announce, ScanNowStart, ScanNowStep, ScanNowScan,
   ScanNowAnswer, Expire, ScanNowClear, ScanNowProbe, Lose, Receive, Ignore, Hear,
   AutoProbe, NameDevice, TaskStep, SetGet, SetSet, SetNotify, PostFails, Register,
   Reply, ReplyFails, Fallback

\* The lists stay lists.
LEMMA ListStep ==
    ASSUME TypeOK, TasksInv, [Next]_vars
    PROVE  /\ UserScanCurrent' \in [Devices -> [Devices -> Addrs \cup {Nil}]]
           /\ removed' \in [Devices -> SUBSET Devices]
<1>1. ASSUME NEW t \in Tasks, SetSet(t)
      PROVE  UserScanCurrent' \in [Devices -> [Devices -> Addrs \cup {Nil}]]
  BY <1>1 DEF SetSet, TypeOK, TasksInv, Sound
<1>2. ASSUME NEW d \in Devices, NEW e \in Devices, Remove(d, e)
      PROVE  /\ UserScanCurrent' \in [Devices -> [Devices -> Addrs \cup {Nil}]]
             /\ removed' \in [Devices -> SUBSET Devices]
  BY <1>2 DEF Remove, TypeOK
<1>3. QED
  BY <1>1, <1>2, ListKinds DEF TypeOK

\* What is under way are packets.
LEMMA NetStep ==
    ASSUME TypeOK, TasksInv, [Next]_vars
    PROVE  net' \subseteq Packet
<1>1. ASSUME NEW d \in Devices, NEW b \in BOOLEAN
      PROVE  [to : Devices, from : {d}, ip : {addr[d]}, announce : {b}] \subseteq Packet
  BY DEF Packet, TypeOK
<1>2. \A d \in Devices, b \in BOOLEAN : Multicast(d, b) => net' \subseteq Packet
  BY <1>1 DEF Multicast, TypeOK
<1>3. ASSUME NEW t \in Tasks, Fallback(t)
      PROVE  net' \subseteq Packet
  <2>1. task[t].node \in Devices
    BY <1>3 DEF Fallback, TasksInv, Sound, Task
  <2>2. QED
    BY <1>2, <1>3, <2>1 DEF Fallback, FallbackMulticast, TypeOK
<1>4. ASSUME NEW d \in Devices, Announce(d)
      PROVE  net' \subseteq Packet
  BY <1>2, <1>4 DEF Announce
<1>5. CASE /\ ~\E t \in Tasks : Fallback(t)
           /\ ~\E d \in Devices : Announce(d)
  <2>1. net' \subseteq net
    BY <1>5 DEF Next, vars, Move, ScanNowStart, ScanNowStep, ScanNowScan,
       ScanNowAnswer, Expire, ScanNowClear, ScanNowProbe, Lose, Receive, Ignore, Hear,
       AutoProbe, NameDevice, TaskStep, SetGet, SetSet, SetNotify, PostFails, Register,
       Reply, ReplyFails
  <2>2. QED
    BY <2>1 DEF TypeOK
<1>6. QED
  BY <1>3, <1>4, <1>5

\* The requests of scan-now keep their type.
LEMMA ScanNowStepTyped ==
    ASSUME TypeOK, TasksInv, [Next]_vars
    PROVE  scanNow' \in [Devices -> ScanNow]
<1>0. scanNow \in [Devices -> ScanNow]
  BY DEF TypeOK
<1>1. ASSUME NEW t \in Tasks, SetSet(t)
      PROVE  scanNow' \in [Devices -> ScanNow]
  <2>1. task[t].about \in Devices
    BY <1>1 DEF SetSet, TasksInv, Sound
  <2>2. QED
    BY <1>0, <1>1, <2>1 DEF SetSet, ScanNow
<1>2. ASSUME NEW d \in Devices, ScanNowStart(d)
      PROVE  scanNow' \in [Devices -> ScanNow]
  BY <1>0, <1>2 DEF ScanNowStart, ScanNow, Listed
<1>3. ASSUME NEW d \in Devices, NEW e \in Devices, ScanNowClear(d, e)
      PROVE  scanNow' \in [Devices -> ScanNow]
  BY <1>0, <1>3 DEF ScanNowClear, ScanNow
<1>4. ASSUME NEW d \in Devices, ScanNowScan(d)
      PROVE  scanNow' \in [Devices -> ScanNow]
  <2> DEFINE r == [scanNow[d] EXCEPT !.pc = "scan", !.todo = Addrs \ {addr[d]}]
  <2>1. r \in ScanNow
    <3>1. /\ scanNow[d] \in ScanNow
          /\ "scan" \in {"idle", "clear", "scan", "done"}
          /\ Addrs \ {addr[d]} \in SUBSET Addrs
      BY <1>0
    <3>2. QED
      BY <3>1, Zenon DEF ScanNow
  <2>2. scanNow' = [scanNow EXCEPT ![d] = r]
    BY <1>4 DEF ScanNowScan
  <2> HIDE DEF r
  <2>3. QED
    BY <1>0, <2>1, <2>2
<1>5. ASSUME NEW d \in Devices, NEW a \in Addrs, NEW t \in Tasks, ScanNowProbe(d, a, t)
      PROVE  scanNow' \in [Devices -> ScanNow]
  BY <1>0, <1>5 DEF ScanNowProbe, ScanNow
<1>6. ASSUME NEW d \in Devices, ScanNowAnswer(d)
      PROVE  scanNow' \in [Devices -> ScanNow]
  <2> DEFINE r == [scanNow[d] EXCEPT !.pc = "done", !.answer = Listed(d)]
  <2>1. r \in ScanNow
    <3>1. /\ scanNow[d] \in ScanNow
          /\ "done" \in {"idle", "clear", "scan", "done"}
          /\ Listed(d) \in SUBSET Devices
      BY <1>0 DEF Listed
    <3>2. QED
      BY <3>1, Zenon DEF ScanNow
  <2>2. scanNow' = [scanNow EXCEPT ![d] = r]
    BY <1>6 DEF ScanNowAnswer
  <2> HIDE DEF r
  <2>3. QED
    BY <1>0, <2>1, <2>2
<1>7. CASE scanNow' = scanNow
  BY <1>0, <1>7
<1>8. QED
  BY <1>1, <1>2, <1>3, <1>4, <1>5, <1>6, <1>7
  DEF Next, vars, Move, Announce, ScanNowStep, Expire, Lose, Receive, Ignore, Hear,
      AutoProbe, NameDevice, TaskStep, SetGet, SetNotify, PostFails, Register,
      Reply, ReplyFails, Fallback

Budget == [announced : [Devices -> 0 .. MaxAnnouncements], probes : 0 .. MaxProbes,
           moves : 0 .. MaxMoves, scans : [Devices -> 0 .. MaxScans]]

\* The bounds are kept.
LEMMA BudgetStep ==
    ASSUME budget \in Budget, [Next]_vars
    PROVE  budget' \in Budget
<1>0. /\ budget.announced \in [Devices -> 0 .. MaxAnnouncements]
      /\ budget.probes \in 0 .. MaxProbes /\ budget.moves \in 0 .. MaxMoves
      /\ budget.scans \in [Devices -> 0 .. MaxScans]
      /\ MaxAnnouncements \in Nat /\ MaxProbes \in Nat
      /\ MaxMoves \in Nat /\ MaxScans \in Nat
  BY ConstantsAssumption DEF Budget
<1>1. ASSUME NEW d \in Devices, Move(d)
      PROVE  budget' \in Budget
  BY <1>0, <1>1 DEF Move, Budget
<1>2. ASSUME NEW d \in Devices, Announce(d)
      PROVE  budget' \in Budget
  BY <1>0, <1>2 DEF Announce, Budget
<1>3. ASSUME NEW d \in Devices, ScanNowStart(d)
      PROVE  budget' \in Budget
  BY <1>0, <1>3 DEF ScanNowStart, Budget
<1>4. ASSUME NEW d \in Devices, NEW t \in Tasks,
             (\E a \in Addrs : AutoProbe(d, a, t)) \/ \E e \in Devices : NameDevice(d, e, t)
      PROVE  budget' \in Budget
  <2>1. budget.probes < MaxProbes /\ budget' = [budget EXCEPT !.probes = @ + 1]
    BY <1>4 DEF AutoProbe, NameDevice
  <2>2. QED
    BY <1>0, <2>1 DEF Budget
<1>5. CASE budget' = budget
  BY <1>5
<1>6. QED
  BY <1>1, <1>2, <1>3, <1>4, <1>5
  DEF Next, vars, ScanNowStep, ScanNowScan,
      ScanNowAnswer, Expire, ScanNowClear, ScanNowProbe, Lose, Receive, Ignore, Hear,
      TaskStep, SetGet, SetSet, SetNotify, PostFails, Register,
      Reply, ReplyFails, Fallback

\* Notifications are only added, and only by SetNotify; so are the devices whose users
\* named them.
LEMMA HistoryStep ==
    ASSUME TypeOK, TasksInv, [Next]_vars
    PROVE  /\ notified' \in [Devices -> SUBSET (Devices \X Addrs)]
           /\ \A d \in Devices : notified[d] \subseteq notified'[d]
           /\ askedSelf' \subseteq Devices
<1>1. ASSUME NEW t \in Tasks, SetNotify(t)
      PROVE  /\ notified' \in [Devices -> SUBSET (Devices \X Addrs)]
             /\ \A d \in Devices : notified[d] \subseteq notified'[d]
  BY <1>1 DEF SetNotify, TypeOK, TasksInv, Sound
<1>2. notified' = notified \/ \E t \in Tasks : SetNotify(t)
  BY DEF Next, vars, history, Move, Announce, ScanNowStart, ScanNowStep, ScanNowScan,
     ScanNowAnswer, Expire, ScanNowClear, ScanNowProbe, Lose, Receive, Ignore, Hear,
     AutoProbe, NameDevice, TaskStep, SetGet, SetSet, PostFails, Register,
     Reply, ReplyFails, Fallback
<1>3. askedSelf' \subseteq Devices
  BY DEF TypeOK, Next, vars, history, Move, Announce, ScanNowStart, ScanNowStep, ScanNowScan,
     ScanNowAnswer, Expire, ScanNowClear, ScanNowProbe, Lose, Receive, Ignore, Hear,
     AutoProbe, NameDevice, TaskStep, SetGet, SetSet, SetNotify, PostFails, Register,
     Reply, ReplyFails, Fallback
<1>4. QED
  BY <1>1, <1>2, <1>3 DEF TypeOK

\* No step leaves the types.
LEMMA TypeCorrectStep ==
    ASSUME TypeOK, TasksInv, [Next]_vars
    PROVE  TypeOK'
<1>1. budget' \in Budget
  BY BudgetStep DEF TypeOK, Budget
<1>2. \A t \in Tasks :
        /\ task'[t].pc = "free" <=> task'[t].node = Nil
        /\ task'[t].pc \in {"get", "set", "notify"} => /\ task'[t].at \in Devices
                                                       /\ task'[t].about \in Devices
                                                       /\ task'[t].ip \in Addrs
        /\ task'[t].pc \in {"post", "reply"} => task'[t].target \in Addrs
  BY TasksStep DEF TasksInv, Sound
<1>3. QED
  BY <1>1, <1>2, AddrStep, ListStep, NetStep, ScanNowStepTyped, HistoryStep, TasksStep
     DEF TypeOK, Setting, Budget

-----------------------------------------------------------------------------
(* The lists *)

\* What a list says of a device was or is about to be told the user.
Noted(d, e, a) ==
    \/ <<e, a>> \in notified[d]
    \/ \E t \in Tasks : task[t].pc = "notify" /\ task[t].at = d
                        /\ task[t].about = e /\ task[t].ip = a

\* The same of the next state.
NotedNext(d, e, a) ==
    \/ <<e, a>> \in notified'[d]
    \/ \E t \in Tasks : task'[t].pc = "notify" /\ task'[t].at = d
                        /\ task'[t].about = e /\ task'[t].ip = a

\* The list of a device, and what a setter has read from it.
NotedInv ==
    /\ \A d, e \in Devices :
         UserScanCurrent[d][e] # Nil => Noted(d, e, UserScanCurrent[d][e])
    /\ \A t \in Tasks : task[t].pc = "set" /\ task[t].known # Nil =>
         Noted(task[t].at, task[t].about, task[t].known)

IInv == TypeOK /\ TasksInv /\ SelfListedOnlyOnRequest /\ NotedInv

\* A note that is about to be made is made.
LEMMA NotedStays ==
    ASSUME TypeOK, TasksInv, [Next]_vars, NEW d \in Devices, NEW e, NEW a, Noted(d, e, a)
    PROVE  NotedNext(d, e, a)
<1>1. CASE <<e, a>> \in notified[d]
  BY <1>1, HistoryStep DEF NotedNext
<1>2. ASSUME NEW t \in Tasks, task[t].pc = "notify", task[t].at = d,
             task[t].about = e, task[t].ip = a
      PROVE  NotedNext(d, e, a)
  <2>1. CASE SetNotify(t)
    BY <1>2, <2>1 DEF SetNotify, NotedNext, TypeOK
  <2>2. CASE ~SetNotify(t)
    <3>1. task'[t] = task[t]
      BY <1>2, <2>2, TaskKinds DEF Becomes, TypeOK
    <3>2. QED
      BY <1>2, <3>1 DEF NotedNext
  <2>3. QED
    BY <2>1, <2>2
<1>3. QED
  BY <1>1, <1>2 DEF Noted

\* What a setter writes is noted: it is about to notify, or has read the same.
LEMMA SetNoted ==
    ASSUME TypeOK, TasksInv, NotedInv, [Next]_vars, NEW t \in Tasks, SetSet(t)
    PROVE  NotedNext(task[t].at, task[t].about, task[t].ip)
<1>1. task[t].at \in Devices /\ task[t].pc = "set" /\ task[t] \in Task
  BY DEF SetSet, TasksInv, Sound
<1>2. CASE task[t].known = Nil \/ InfoChanged(task[t].known, task[t].ip)
  <2>1. /\ task'[t].pc = "notify" /\ task'[t].at = task[t].at
        /\ task'[t].about = task[t].about /\ task'[t].ip = task[t].ip
    BY <1>1, <1>2 DEF SetSet, TypeOK, Task
  <2>2. QED
    BY <2>1 DEF NotedNext
<1>3. CASE task[t].known # Nil /\ task[t].known = task[t].ip
  <2>1. Noted(task[t].at, task[t].about, task[t].ip)
    BY <1>1, <1>3 DEF NotedInv
  <2>2. QED
    BY <1>1, <2>1, NotedStays
<1>4. QED
  BY <1>2, <1>3 DEF InfoChanged

\* Lists and what setters know of them stay noted.
LEMMA NotedStep ==
    ASSUME TypeOK, TasksInv, NotedInv, [Next]_vars
    PROVE  NotedInv'
<1>1. ASSUME NEW d \in Devices, NEW e \in Devices, UserScanCurrent'[d][e] # Nil
      PROVE  NotedNext(d, e, UserScanCurrent'[d][e])
  <2>1. CASE UserScanCurrent'[d][e] = UserScanCurrent[d][e]
    <3>1. Noted(d, e, UserScanCurrent[d][e])
      BY <1>1, <2>1 DEF NotedInv
    <3>2. QED
      BY <2>1, <3>1, NotedStays
  <2>2. ASSUME NEW t \in Tasks, SetSet(t), UserScanCurrent'[d][e] # UserScanCurrent[d][e]
        PROVE  NotedNext(d, e, UserScanCurrent'[d][e])
    <3>1. task[t].at \in Devices /\ task[t].about \in Devices
      BY <2>2 DEF SetSet, TasksInv, Sound
    <3>2. d = task[t].at /\ e = task[t].about /\ UserScanCurrent'[d][e] = task[t].ip
      BY <2>2, <3>1 DEF SetSet, TypeOK
    <3>3. NotedNext(task[t].at, task[t].about, task[t].ip)
      BY <2>2, SetNoted
    <3>4. QED
      BY <3>2, <3>3
  <2>3. ASSUME NEW b \in Devices, NEW c \in Devices, Remove(b, c)
        PROVE  UserScanCurrent'[d][e] \in {Nil, UserScanCurrent[d][e]}
    BY <2>3 DEF Remove, TypeOK
  <2>4. QED
    BY <1>1, <2>1, <2>2, <2>3, ListKinds
<1>2. ASSUME NEW t \in Tasks, task'[t].pc = "set", task'[t].known # Nil
      PROVE  NotedNext(task'[t].at, task'[t].about, task'[t].known)
  <2>1. CASE task'[t] = task[t]
    <3>1. task[t].at \in Devices
      BY <1>2, <2>1 DEF TasksInv, Sound
    <3>2. Noted(task[t].at, task[t].about, task[t].known)
      BY <1>2, <2>1 DEF NotedInv
    <3>3. QED
      BY <2>1, <3>1, <3>2, NotedStays
  <2>2. CASE SetGet(t)
    <3> DEFINE d == task[t].at
               e == task[t].about
               a == UserScanCurrent[d][e]
    <3>1. d \in Devices /\ e \in Devices /\ task[t] \in Task
      BY <2>2 DEF SetGet, TasksInv, Sound
    <3>2. task'[t].at = d /\ task'[t].about = e /\ task'[t].known = a
      BY <2>2, <3>1 DEF SetGet, TypeOK, Task
    <3>3. Noted(d, e, a)
      BY <1>2, <3>1, <3>2 DEF NotedInv
    <3>4. NotedNext(d, e, a)
      BY <3>1, <3>3, NotedStays
    <3>5. QED
      BY <3>2, <3>4
  <2>3. ASSUME NEW u \in Tasks, NEW r, Becomes(u, r), task'[t] # task[t]
        PROVE  SetGet(t)
    BY <1>2, <2>3 DEF Becomes, TypeOK
  <2>4. QED
    BY <2>1, <2>2, <2>3, TaskKinds
<1>3. QED
  BY <1>1, <1>2 DEF NotedInv, Noted, NotedNext

\* Nobody comes to list itself but on the request of its user.
LEMMA SelfStep ==
    ASSUME TypeOK, TasksInv, SelfListedOnlyOnRequest, [Next]_vars
    PROVE  SelfListedOnlyOnRequest'
<1> SUFFICES ASSUME NEW d \in Devices, UserScanCurrent'[d][d] # Nil
             PROVE  d \in askedSelf'
  BY DEF SelfListedOnlyOnRequest
<1>1. CASE UserScanCurrent'[d][d] = UserScanCurrent[d][d]
  BY <1>1, TaskKinds DEF SelfListedOnlyOnRequest
<1>2. ASSUME NEW t \in Tasks, SetSet(t), UserScanCurrent'[d][d] # UserScanCurrent[d][d]
      PROVE  d \in askedSelf'
  <2>1. /\ task[t].at \in Devices /\ task[t].about \in Devices
        /\ task[t].at = task[t].about => task[t].at \in askedSelf
    BY <1>2 DEF SetSet, TasksInv, Sound
  <2>2. d = task[t].at /\ d = task[t].about
    BY <1>2, <2>1 DEF SetSet, TypeOK
  <2>3. QED
    BY <2>1, <2>2, TaskKinds
<1>3. ASSUME NEW b \in Devices, NEW c \in Devices, Remove(b, c)
      PROVE  UserScanCurrent'[d][d] \in {Nil, UserScanCurrent[d][d]}
  BY <1>3 DEF Remove, TypeOK
<1>4. QED
  BY <1>1, <1>2, <1>3, ListKinds

-----------------------------------------------------------------------------
(* The theorems *)

\* IInv is inductive.
THEOREM Invariance == Spec => []IInv
<1>1. Init => IInv
  <2>1. Init => TasksInv
    BY FreeSound DEF Init, TasksInv
  <2>2. Init => TypeOK
    <3> SUFFICES ASSUME Init PROVE TypeOK
      OBVIOUS
    <3>1. /\ addr \in [Devices -> Addrs]
          /\ \A d, e \in Devices : addr[d] = addr[e] => d = e
          /\ UserScanCurrent \in [Devices -> [Devices -> Addrs \cup {Nil}]]
          /\ net \subseteq Packet
          /\ notified \in [Devices -> SUBSET (Devices \X Addrs)]
          /\ removed \in [Devices -> SUBSET Devices]
          /\ askedSelf \subseteq Devices
      BY ConstantsAssumption DEF Init
    <3>2. task \in [Tasks -> Task]
      BY FreeSound DEF Init
    <3>3. \A t \in Tasks :
            /\ task[t].pc = "free" <=> task[t].node = Nil
            /\ Setting(t) => /\ task[t].at \in Devices
                             /\ task[t].about \in Devices
                             /\ task[t].ip \in Addrs
            /\ task[t].pc \in {"post", "reply"} => task[t].target \in Addrs
      BY <2>1 DEF TasksInv, Sound, Setting
    <3>4. scanNow \in [Devices -> ScanNow]
      BY DEF Init, ScanNow
    <3>5. budget \in [announced : [Devices -> 0 .. MaxAnnouncements], probes : 0 .. MaxProbes,
                      moves : 0 .. MaxMoves, scans : [Devices -> 0 .. MaxScans]]
      <4>1. 0 \in 0 .. MaxAnnouncements /\ 0 \in 0 .. MaxProbes
            /\ 0 \in 0 .. MaxMoves /\ 0 \in 0 .. MaxScans
        BY ConstantsAssumption
      <4>2. QED
        BY <4>1 DEF Init
    <3>6. QED
      BY <3>1, <3>2, <3>3, <3>4, <3>5 DEF TypeOK
  <2>3. Init => SelfListedOnlyOnRequest
    BY DEF Init, SelfListedOnlyOnRequest
  <2>4. Init => NotedInv
    BY DEF Init, NotedInv, Free
  <2>5. QED
    BY <2>1, <2>2, <2>3, <2>4 DEF IInv
<1>2. IInv /\ [Next]_vars => IInv'
  BY TypeCorrectStep, TasksStep, SelfStep, NotedStep DEF IInv
<1>3. QED
  BY <1>1, <1>2, PTL DEF Spec

\* TypeOK holds in every reachable state.
THEOREM TypeCorrect == Spec => []TypeOK
<1>1. IInv => TypeOK
  BY DEF IInv
<1>2. QED
  BY <1>1, Invariance, PTL

\* However packets, calls and changes of address interleave, a device enters itself in
\* its list only when its user named its address.
THEOREM NoSelfDiscovery == Spec => []SelfListedOnlyOnRequest
<1>1. IInv => SelfListedOnlyOnRequest
  BY DEF IInv
<1>2. QED
  BY <1>1, Invariance, PTL

\* No list says what its user was not told, although setters overlap.
THEOREM ListsAreNotified == Spec => []ListedWasNotified
<1>1. IInv => ListedWasNotified
  BY DEF IInv, NotedInv, Noted, ListedWasNotified
<1>2. QED
  BY <1>1, Invariance, PTL

-----------------------------------------------------------------------------
(* Scan-now *)

\* Device e lists d, or has dropped the entry.
Backed(e, d) == d \in removed[e] \/ UserScanCurrent[e][d] # Nil

\* A probe of scan-now: its request waits for it.  Where it sets entries, and once the
\* callee has its entry, which is before the reply.
NowSound(r) == r.now =>
    /\ r.kind = "probe" /\ r.node \in Devices
    /\ scanNow[r.node].pc = "scan"
    /\ r.pc \in {"get", "set", "notify"} /\ r.at # r.node => r.about = r.node
    /\ r.pc = "reply" \/ (r.pc = "notify" /\ r.at # r.node) => Backed(r.at, r.node)
    /\ r.pc \in {"get", "set", "notify"} /\ r.at = r.node => Backed(r.about, r.node)

\* A request of scan-now: what it has to clear and to probe it has at its time, and
\* what it found is in the list as long as it scans.
FoundSound(d) ==
    LET s == scanNow[d]
    IN  /\ s.keys # {} => s.pc = "clear"
        /\ s.todo # {} => s.pc = "scan"
        /\ s.pc \in {"idle", "clear"} => s.found = {}
        /\ s.pc = "scan" => \A e \in s.found : UserScanCurrent[d][e] # Nil
        /\ s.pc = "done" => s.found \subseteq s.answer
        /\ \A e \in s.found : Backed(e, d)

NowInv ==
    /\ \A t \in Tasks : NowSound(task[t])
    /\ \A d \in Devices : FoundSound(d)

\* An entry that was made or dropped stays that way, or is made or dropped again.
LEMMA BackedStays ==
    ASSUME TypeOK, TasksInv, [Next]_vars, NEW e \in Devices, NEW d \in Devices, Backed(e, d)
    PROVE  Backed(e, d)'
<1>1. ASSUME NEW t \in Tasks, SetSet(t), removed' = removed
      PROVE  Backed(e, d)'
  <2>1. task[t].at \in Devices /\ task[t].about \in Devices /\ task[t].ip # Nil
    BY <1>1, ConstantsAssumption DEF SetSet, TasksInv, Sound
  <2>2. QED
    BY <1>1, <2>1 DEF SetSet, TypeOK, Backed
<1>2. ASSUME NEW b \in Devices, NEW c \in Devices, Remove(b, c)
      PROVE  Backed(e, d)'
  BY <1>2 DEF Remove, TypeOK, Backed
<1>3. CASE UNCHANGED <<UserScanCurrent, removed>>
  BY <1>3 DEF Backed
<1>4. QED
  BY <1>1, <1>2, <1>3, ListKinds

\* A setter has made its entry.
LEMMA SetBacked ==
    ASSUME TypeOK, TasksInv, NEW t \in Tasks, SetSet(t),
           NEW at, NEW about, at = task[t].at, about = task[t].about
    PROVE  Backed(at, about)' /\ UserScanCurrent'[at][about] # Nil
<1>1. task[t].at \in Devices /\ task[t].about \in Devices /\ task[t].ip # Nil
  BY ConstantsAssumption DEF SetSet, TasksInv, Sound
<1>2. UserScanCurrent'[at][about] # Nil
  BY <1>1 DEF SetSet, TypeOK
<1>3. QED
  BY <1>2 DEF Backed

\* A request waits for its probes.
LEMMA ScanWaits ==
    ASSUME TypeOK, TasksInv, [Next]_vars, NEW t \in Tasks, NEW d \in Devices,
           task[t].now, d = task[t].node, scanNow[d].pc = "scan", scanNow[d].keys = {}
    PROVE  scanNow'[d].pc = "scan"
<1>1. ASSUME NEW u \in Tasks, SetSet(u)
      PROVE  scanNow'[d].pc = "scan"
  BY <1>1 DEF SetSet, TypeOK, ScanNow
<1>2. ASSUME NEW e \in Devices, ScanNowStart(e) \/ ScanNowScan(e)
      PROVE  scanNow'[d].pc = "scan"
  BY <1>2 DEF ScanNowStart, ScanNowScan, TypeOK, ScanNow
<1>3. ASSUME NEW e \in Devices, NEW b \in Devices, ScanNowClear(e, b)
      PROVE  scanNow'[d].pc = "scan"
  BY <1>3 DEF ScanNowClear, TypeOK, ScanNow
<1>4. ASSUME NEW e \in Devices, NEW a \in Addrs, NEW u \in Tasks, ScanNowProbe(e, a, u)
      PROVE  scanNow'[d].pc = "scan"
  BY <1>4 DEF ScanNowProbe, TypeOK, ScanNow
<1>5. ASSUME NEW e \in Devices, ScanNowAnswer(e)
      PROVE  scanNow'[d].pc = "scan"
  <2>1. e # d
    BY <1>5 DEF ScanNowAnswer
  <2>2. QED
    BY <1>5, <2>1 DEF ScanNowAnswer, TypeOK, ScanNow
<1>6. CASE scanNow' = scanNow
  BY <1>6
<1>7. QED
  BY <1>1, <1>2, <1>3, <1>4, <1>5, <1>6
  DEF Next, vars, Move, Announce, ScanNowStep, Expire, Lose, Receive, Ignore, Hear,
      AutoProbe, NameDevice, TaskStep, SetGet, SetNotify, PostFails, Register,
      Reply, ReplyFails, Fallback

\* What is true of a probe stays true as long as it does not move.
LEMMA NowStays ==
    ASSUME TypeOK, TasksInv, NowInv, [Next]_vars, NEW t \in Tasks, NEW q, q = task[t]
    PROVE  NowSound(q)'
<1>1. SUFFICES ASSUME q.now
               PROVE  /\ q.kind = "probe" /\ q.node \in Devices
                      /\ scanNow'[q.node].pc = "scan"
                      /\ q.pc \in {"get", "set", "notify"} /\ q.at # q.node
                           => q.about = q.node
                      /\ q.pc = "reply" \/ (q.pc = "notify" /\ q.at # q.node)
                           => Backed(q.at, q.node)'
                      /\ q.pc \in {"get", "set", "notify"} /\ q.at = q.node
                           => Backed(q.about, q.node)'
  BY Zenon DEF NowSound
<1>2. NowSound(q) /\ Sound(q, askedSelf)
  BY DEF NowInv, TasksInv
<1>3. scanNow'[q.node].pc = "scan"
  BY <1>1, <1>2, ScanWaits DEF NowSound, NowInv, FoundSound
<1>4. ASSUME q.pc = "reply" \/ (q.pc = "notify" /\ q.at # q.node)
      PROVE  Backed(q.at, q.node)'
  <2>1. q.at \in Devices /\ q.node \in Devices /\ Backed(q.at, q.node)
    BY <1>1, <1>2, <1>4 DEF NowSound, Sound
  <2>2. QED
    BY <2>1, BackedStays
<1>5. ASSUME q.pc \in {"get", "set", "notify"}, q.at = q.node
      PROVE  Backed(q.about, q.node)'
  <2>1. q.about \in Devices /\ q.node \in Devices /\ Backed(q.about, q.node)
    BY <1>1, <1>2, <1>5 DEF NowSound, Sound
  <2>2. QED
    BY <2>1, BackedStays
<1>6. QED
  BY <1>1, <1>2, <1>3, <1>4, <1>5 DEF NowSound

\* A probe goes on to set an entry.
LEMMA NowSetter ==
    ASSUME NEW q \in Task, NowSound(q)', NEW at, NEW about, NEW ip,
           q.now => \/ at # q.node /\ about = q.node
                    \/ at = q.node /\ Backed(about, q.node)'
    PROVE  NowSound(Setter(q, at, about, ip))'
<1>1. PICK r : r = Setter(q, at, about, ip)
  OBVIOUS
<1>2. /\ r.pc = "get" /\ r.kind = q.kind /\ r.node = q.node /\ r.now = q.now
      /\ r.at = at /\ r.about = about
  BY <1>1 DEF Setter, Task
<1>3. NowSound(r)'
  BY <1>2 DEF NowSound
<1>4. QED
  BY <1>1, <1>3

\* A task that is not a probe of scan-now.
LEMMA NotNow ==
    ASSUME NEW d, NEW a, NEW kind
    PROVE  /\ ~Free.now
           /\ ~[Free EXCEPT !.pc = "fallback", !.node = d].now
           /\ ~[Free EXCEPT !.pc = "post", !.kind = kind, !.node = d, !.target = a].now
           /\ ~[Free EXCEPT !.kind = kind, !.node = d, !.target = a].now
           /\ ~Probe(d, a, FALSE).now
BY DEF Free, Probe

\* A setter returns.
LEMMA NowReturn ==
    ASSUME NEW q \in Task, NowSound(q)', q.pc \in {"set", "notify"},
           q.pc = "set" => Backed(q.at, q.about)'
    PROVE  NowSound(Return(q))'
<1>1. PICK r : r = Return(q)
  OBVIOUS
<1>2. CASE q.at # q.node
  <2>1. /\ r.pc = "reply" /\ r.kind = q.kind /\ r.node = q.node /\ r.now = q.now
        /\ r.at = q.at
    BY <1>1, <1>2 DEF Return, Task
  <2>2. NowSound(r)'
    BY <1>2, <2>1 DEF NowSound
  <2>3. QED
    BY <1>1, <2>2
<1>3. CASE q.at = q.node
  <2>1. ~Return(q).now
    BY <1>3, NotNow DEF Return
  <2>2. QED
    BY <2>1 DEF NowSound
<1>4. QED
  BY <1>2, <1>3

\* One task moves.
LEMMA NowOne ==
    ASSUME TypeOK, TasksInv, NowInv, [Next]_vars, NEW t \in Tasks, NEW r,
           task' = [task EXCEPT ![t] = r], NowSound(r)'
    PROVE  \A u \in Tasks : NowSound(task[u])'
<1>1. SUFFICES ASSUME NEW u \in Tasks
               PROVE  NowSound(task[u])'
  OBVIOUS
<1>2. PICK q, p : q = task'[u] /\ p = task[u]
  OBVIOUS
<1>3. NowSound(q)'
  <2>1. CASE u = t
    BY <1>2, <2>1 DEF TypeOK
  <2>2. CASE u # t
    <3>1. q = p
      BY <1>2, <2>2 DEF TypeOK
    <3>2. NowSound(p)'
      BY <1>2, NowStays
    <3>3. QED
      BY <3>1, <3>2
  <2>3. QED
    BY <2>1, <2>2
<1>4. QED
  BY <1>2, <1>3

\* A task's step keeps what is true of probes.
LEMMA NowTaskStep ==
    ASSUME TypeOK, TasksInv, NowInv, [Next]_vars, NEW t \in Tasks, TaskStep(t)
    PROVE  \A u \in Tasks : NowSound(task[u])'
<1>1. PICK q : q = task[t]
  OBVIOUS
<1>2. NowSound(q)' /\ NowSound(q) /\ q \in Task /\ Sound(q, askedSelf)
  BY <1>1, NowStays DEF TypeOK, NowInv, TasksInv
<1>3. ASSUME NEW r, task' = [task EXCEPT ![t] = r], ~r.now
      PROVE  \A u \in Tasks : NowSound(task[u])'
  <2>1. NowSound(r)'
    BY <1>3 DEF NowSound
  <2>2. QED
    BY <1>3, <2>1, NowOne
<1>4. CASE SetGet(t)
  <2> DEFINE r == [q EXCEPT !.pc = "set", !.known = UserScanCurrent[task[t].at][task[t].about]]
  <2>1. task' = [task EXCEPT ![t] = r] /\ q.pc = "get"
    BY <1>1, <1>4 DEF SetGet
  <2>2. /\ r.pc = "set" /\ r.kind = q.kind /\ r.node = q.node /\ r.now = q.now
        /\ r.at = q.at /\ r.about = q.about
    BY <1>2 DEF Task
  <2> HIDE DEF r
  <2>3. PICK p : p = r
    OBVIOUS
  <2>4. NowSound(p)'
    BY <1>2, <2>1, <2>2, <2>3 DEF NowSound
  <2>5. QED
    BY <2>1, <2>3, <2>4, NowOne
<1>5. CASE SetSet(t)
  <2> DEFINE r == [q EXCEPT !.pc = "notify", !.known = Nil]
  <2>1. q.pc = "set" /\ \/ task' = [task EXCEPT ![t] = r]
                        \/ task' = [task EXCEPT ![t] = Return(q)]
    BY <1>1, <1>5 DEF SetSet
  <2>2. Backed(q.at, q.about)'
    BY <1>1, <1>5, SetBacked
  <2>3. /\ r.pc = "notify" /\ r.kind = q.kind /\ r.node = q.node /\ r.now = q.now
        /\ r.at = q.at /\ r.about = q.about
    BY <1>2 DEF Task
  <2> HIDE DEF r
  <2>4. PICK p : p = r
    OBVIOUS
  <2>5. NowSound(p)'
    BY <1>2, <2>1, <2>2, <2>3, <2>4 DEF NowSound
  <2>6. NowSound(Return(q))'
    BY <1>2, <2>1, <2>2, NowReturn
  <2>7. QED
    BY <2>1, <2>4, <2>5, <2>6, NowOne
<1>6. CASE SetNotify(t)
  <2>1. q.pc = "notify" /\ task' = [task EXCEPT ![t] = Return(q)]
    BY <1>1, <1>6 DEF SetNotify
  <2>2. NowSound(Return(q))'
    BY <1>2, <2>1, NowReturn
  <2>3. QED
    BY <2>1, <2>2, NowOne
<1>7. CASE Fails(t)
  BY <1>3, <1>7, NotNow DEF Fails
<1>8. ASSUME NEW d \in Devices, Register(t, d), d # task[t].node
      PROVE  \A u \in Tasks : NowSound(task[u])'
  <2>1. PICK ip : task' = [task EXCEPT ![t] = Setter(q, d, q.node, ip)]
    BY <1>1, <1>8 DEF Register
  <2>2. NowSound(Setter(q, d, q.node, ip))'
    BY <1>1, <1>2, <1>8, NowSetter
  <2>3. QED
    BY <2>1, <2>2, NowOne
<1>9. CASE Reply(t)
  <2>1. q.pc = "reply"
    BY <1>1, <1>9 DEF Reply
  <2>2. CASE task' = [task EXCEPT ![t] = Free]
    BY <1>3, <2>2, NotNow
  <2>3. CASE task' = [task EXCEPT ![t] = Setter(q, q.node, q.at, q.target)]
    <3>1. NowSound(Setter(q, q.node, q.at, q.target))'
      <4>1. q.now => Backed(q.at, q.node)'
        BY <1>2, <2>1 DEF NowSound
      <4>2. QED
        BY <1>2, <4>1, NowSetter
    <3>2. QED
      BY <2>3, <3>1, NowOne
  <2>4. QED
    BY <1>1, <1>9, <2>2, <2>3 DEF Reply
<1>10. CASE Fallback(t)
  BY <1>3, <1>10, NotNow DEF Fallback
<1>11. QED
  BY <1>4, <1>5, <1>6, <1>7, <1>8, <1>9, <1>10
     DEF TaskStep, PostFails, ReplyFails, Register

\* So does every step.
LEMMA NowTasks ==
    ASSUME TypeOK, TasksInv, NowInv, [Next]_vars
    PROVE  \A u \in Tasks : NowSound(task[u])'
<1>1. ASSUME NEW t \in Tasks, NEW r, task' = [task EXCEPT ![t] = r], ~r.now
      PROVE  \A u \in Tasks : NowSound(task[u])'
  <2>1. NowSound(r)'
    BY <1>1 DEF NowSound
  <2>2. QED
    BY <1>1, <2>1, NowOne
<1>2. CASE task' = task
  <2>1. SUFFICES ASSUME NEW u \in Tasks
                 PROVE  NowSound(task[u])'
    OBVIOUS
  <2>2. PICK q : q = task[u]
    OBVIOUS
  <2>3. NowSound(q)' /\ q = task'[u]
    BY <1>2, <2>2, NowStays
  <2>4. QED
    BY <2>3
<1>3. ASSUME NEW p \in net, NEW t \in Tasks, Hear(p, t)
      PROVE  \A u \in Tasks : NowSound(task[u])'
  <2> DEFINE q == [Free EXCEPT !.kind = "callback", !.node = p.to, !.target = p.ip]
  <2>1. task' = [task EXCEPT ![t] = Setter(q, p.to, p.from, p.ip)]
    BY <1>3 DEF Hear
  <2>2. ~Setter(q, p.to, p.from, p.ip).now
    BY DEF Free, Setter
  <2>3. QED
    BY <1>1, <2>1, <2>2
<1>4. ASSUME NEW d \in Devices, NEW e \in Devices, NEW t \in Tasks, NameDevice(d, e, t)
      PROVE  \A u \in Tasks : NowSound(task[u])'
  <2> DEFINE q == [Free EXCEPT !.kind = "named", !.node = d, !.target = addr[e]]
  <2>1. task' = [task EXCEPT ![t] = Setter(q, d, e, addr[e])]
    BY <1>4 DEF NameDevice
  <2>2. ~Setter(q, d, e, addr[e]).now
    BY DEF Free, Setter
  <2>3. QED
    BY <1>1, <2>1, <2>2
<1>5. ASSUME NEW d \in Devices, NEW a \in Addrs, NEW t \in Tasks, AutoProbe(d, a, t)
      PROVE  \A u \in Tasks : NowSound(task[u])'
  BY <1>1, <1>5, NotNow DEF AutoProbe
<1>6. ASSUME NEW d \in Devices, NEW a \in Addrs, NEW t \in Tasks, ScanNowProbe(d, a, t)
      PROVE  \A u \in Tasks : NowSound(task[u])'
  <2>1. task' = [task EXCEPT ![t] = Probe(d, a, TRUE)]
    BY <1>6 DEF ScanNowProbe
  <2>2. scanNow[d].pc = "scan"
    BY <1>6 DEF ScanNowProbe, NowInv, FoundSound
  <2>3. scanNow'[d].pc = "scan"
    BY <1>6, <2>2 DEF ScanNowProbe, TypeOK, ScanNow
  <2>4. PICK r : r = Probe(d, a, TRUE)
    OBVIOUS
  <2>5. r.pc = "post" /\ r.kind = "probe" /\ r.node = d
    BY <2>4 DEF Probe, Free
  <2>6. NowSound(r)'
    BY <2>3, <2>5 DEF NowSound
  <2>7. QED
    BY <2>1, <2>4, <2>6, NowOne
<1>7. ASSUME \/ \E d \in Devices :
                  \/ Move(d) \/ Announce(d) \/ ScanNowStart(d)
                  \/ ScanNowScan(d) \/ ScanNowAnswer(d)
                  \/ \E e \in Devices : Expire(d, e) \/ ScanNowClear(d, e)
             \/ \E p \in net : Lose(p) \/ Ignore(p)
             \/ UNCHANGED vars
      PROVE  task' = task
  BY <1>7 DEF Move, Announce, ScanNowStart, ScanNowScan, ScanNowAnswer, Expire, ScanNowClear,
        Lose, Ignore, vars
<1>8. QED
  BY <1>2, <1>3, <1>4, <1>5, <1>6, <1>7, NowTaskStep DEF Next, ScanNowStep, Receive

\* What a request has found stays in the list while it scans, and its probes answer.
LEMMA FoundStep ==
    ASSUME TypeOK, TasksInv, NowInv, [Next]_vars, NEW d \in Devices
    PROVE  FoundSound(d)'
<1>0. /\ scanNow \in [Devices -> ScanNow] /\ FoundSound(d)
      /\ scanNow[d].found \subseteq Devices
  <2>1. scanNow[d] \in ScanNow
    BY DEF TypeOK
  <2>2. QED
    BY <2>1, Zenon DEF TypeOK, NowInv, ScanNow
<1>1. \A e \in scanNow[d].found : Backed(e, d)'
  BY <1>0, BackedStays DEF FoundSound
<1>2. CASE UNCHANGED <<scanNow, UserScanCurrent>>
  BY <1>0, <1>1, <1>2 DEF FoundSound, Backed
<1>3. ASSUME NEW t \in Tasks, SetSet(t)
      PROVE  FoundSound(d)'
  <2>1. PICK q : q = task[t]
    OBVIOUS
  <2>2. /\ q \in Task /\ q.at \in Devices /\ q.about \in Devices /\ q.pc = "set"
        /\ NowSound(q)' /\ q.ip # Nil
    BY <1>3, <2>1, NowStays, ConstantsAssumption DEF SetSet, TypeOK, TasksInv, Sound
  <2>3. \A e \in Devices : UserScanCurrent[d][e] # Nil => UserScanCurrent'[d][e] # Nil
    BY <1>3, <2>1, <2>2 DEF SetSet, TypeOK
  <2>4. CASE q.now /\ q.at = q.node /\ q.node = d
    <3>1. scanNow' = [scanNow EXCEPT ![d].found = @ \cup {q.about}]
      BY <1>3, <2>1, <2>4 DEF SetSet
    <3>2. /\ scanNow'[d].keys = scanNow[d].keys /\ scanNow'[d].todo = scanNow[d].todo
          /\ scanNow'[d].pc = scanNow[d].pc
          /\ scanNow'[d].found = scanNow[d].found \cup {q.about}
      BY <1>0, <3>1 DEF ScanNow
    <3>3. Backed(q.about, q.node)'
      BY <2>2, <2>4 DEF NowSound
    <3>4. UserScanCurrent'[d][q.about] # Nil
      BY <1>3, <2>1, <2>4, SetBacked
    <3>5. scanNow[d].pc = "scan"
      BY <2>1, <2>4 DEF NowInv, NowSound
    <3>6. \A e \in scanNow'[d].found : Backed(e, d)'
      BY <1>1, <2>4, <3>2, <3>3
    <3>7. \A e \in scanNow'[d].found : UserScanCurrent'[d][e] # Nil
      BY <1>0, <2>3, <3>2, <3>4, <3>5 DEF FoundSound
    <3>8. QED
      BY <1>0, <3>2, <3>5, <3>6, <3>7 DEF FoundSound
  <2>5. CASE ~(q.now /\ q.at = q.node /\ q.node = d)
    <3>1. scanNow'[d] = scanNow[d]
      BY <1>0, <1>3, <2>1, <2>5 DEF SetSet
    <3>2. QED
      BY <1>0, <1>1, <2>3, <3>1 DEF FoundSound
  <2>6. QED
    BY <2>4, <2>5
<1>4. ASSUME NEW b \in Devices, NEW e \in Devices, ScanNowClear(b, e)
      PROVE  FoundSound(d)'
  <2>1. scanNow[b].pc = "clear"
    BY <1>4 DEF ScanNowClear, NowInv, FoundSound
  <2>2. CASE b = d
    <3>1. /\ scanNow'[d].pc = "clear" /\ scanNow'[d].todo = scanNow[d].todo
          /\ scanNow'[d].found = scanNow[d].found
      BY <1>0, <1>4, <2>1, <2>2 DEF ScanNowClear, ScanNow
    <3>2. QED
      BY <1>0, <1>1, <2>1, <2>2, <3>1 DEF FoundSound
  <2>3. CASE b # d
    <3>1. scanNow'[d] = scanNow[d] /\ UserScanCurrent'[d] = UserScanCurrent[d]
      BY <1>0, <1>4, <2>3 DEF ScanNowClear, Remove, TypeOK
    <3>2. QED
      BY <1>0, <1>1, <3>1 DEF FoundSound
  <2>4. QED
    BY <2>2, <2>3
<1>5. ASSUME NEW b \in Devices, NEW e \in Devices, Expire(b, e)
      PROVE  FoundSound(d)'
  <2>1. scanNow' = scanNow
    BY <1>5 DEF Expire
  <2>2. scanNow[d].pc = "scan" => \A x \in scanNow[d].found : UserScanCurrent'[d][x] # Nil
    BY <1>0, <1>5 DEF Expire, Remove, FoundSound, TypeOK
  <2>3. QED
    BY <1>0, <1>1, <2>1, <2>2 DEF FoundSound
<1>6. ASSUME NEW b \in Devices, ScanNowStart(b)
      PROVE  FoundSound(d)'
  <2>1. CASE b = d
    <3>1. /\ scanNow'[d].pc = "clear" /\ scanNow'[d].todo = {} /\ scanNow'[d].found = {}
      BY <1>0, <1>6, <2>1 DEF ScanNowStart, ScanNow
    <3>2. QED
      BY <3>1 DEF FoundSound
  <2>2. CASE b # d
    <3>1. scanNow'[d] = scanNow[d] /\ UserScanCurrent' = UserScanCurrent
      BY <1>0, <1>6, <2>2 DEF ScanNowStart
    <3>2. QED
      BY <1>0, <1>1, <3>1 DEF FoundSound
  <2>3. QED
    BY <2>1, <2>2
<1>7. ASSUME NEW b \in Devices, ScanNowScan(b)
      PROVE  FoundSound(d)'
  <2>1. CASE b = d
    <3>1. /\ scanNow'[d].pc = "scan" /\ scanNow'[d].keys = {} /\ scanNow'[d].found = {}
      BY <1>0, <1>7, <2>1 DEF ScanNowScan, Cleared, ScanNow, FoundSound
    <3>2. QED
      BY <3>1 DEF FoundSound
  <2>2. CASE b # d
    <3>1. scanNow'[d] = scanNow[d] /\ UserScanCurrent' = UserScanCurrent
      BY <1>0, <1>7, <2>2 DEF ScanNowScan
    <3>2. QED
      BY <1>0, <1>1, <3>1 DEF FoundSound
  <2>3. QED
    BY <2>1, <2>2
<1>8. ASSUME NEW b \in Devices, NEW a \in Addrs, NEW t \in Tasks, ScanNowProbe(b, a, t)
      PROVE  FoundSound(d)'
  <2>1. scanNow[b].pc = "scan"
    BY <1>8 DEF ScanNowProbe, NowInv, FoundSound
  <2>2. /\ scanNow'[d].pc = scanNow[d].pc /\ scanNow'[d].keys = scanNow[d].keys
        /\ scanNow'[d].found = scanNow[d].found /\ scanNow'[d].answer = scanNow[d].answer
        /\ scanNow'[d].todo \subseteq scanNow[d].todo
        /\ UserScanCurrent' = UserScanCurrent
    BY <1>0, <1>8 DEF ScanNowProbe, ScanNow
  <2>3. QED
    BY <1>0, <1>1, <2>2 DEF FoundSound
<1>9. ASSUME NEW b \in Devices, ScanNowAnswer(b)
      PROVE  FoundSound(d)'
  <2>1. CASE b = d
    <3>1. /\ scanNow[d].pc = "scan" /\ scanNow[d].todo = {}
          /\ scanNow'[d].pc = "done" /\ scanNow'[d].keys = scanNow[d].keys
          /\ scanNow'[d].todo = {} /\ scanNow'[d].found = scanNow[d].found
          /\ scanNow'[d].answer = Listed(d)
      BY <1>0, <1>9, <2>1 DEF ScanNowAnswer, ScanNow
    <3>2. scanNow[d].found \subseteq Listed(d)
      BY <1>0, <3>1 DEF FoundSound, Listed
    <3>3. QED
      BY <1>0, <1>1, <3>1, <3>2 DEF FoundSound
  <2>2. CASE b # d
    <3>1. scanNow'[d] = scanNow[d] /\ UserScanCurrent' = UserScanCurrent
      BY <1>0, <1>9, <2>2 DEF ScanNowAnswer
    <3>2. QED
      BY <1>0, <1>1, <3>1 DEF FoundSound
  <2>3. QED
    BY <2>1, <2>2
<1>10. QED
  BY <1>2, <1>3, <1>4, <1>5, <1>6, <1>7, <1>8, <1>9
  DEF Next, vars, Move, Announce, ScanNowStep, Lose, Receive, Ignore, Hear,
      AutoProbe, NameDevice, TaskStep, SetGet, SetNotify, PostFails, Register,
      Reply, ReplyFails, Fallback

\* The requests of scan-now and their probes, in every state.
THEOREM NowInvariance == Spec => []NowInv
<1>1. Init => NowInv
  <2>1. SUFFICES ASSUME Init
                 PROVE  NowInv
    OBVIOUS
  <2>2. \A t \in Tasks : NowSound(task[t])
    BY <2>1, NotNow DEF Init, NowSound
  <2>3. \A d \in Devices : FoundSound(d)
    BY <2>1 DEF Init, FoundSound
  <2>4. QED
    BY <2>2, <2>3 DEF NowInv
<1>2. IInv /\ NowInv /\ [Next]_vars => NowInv'
  <2>1. SUFFICES ASSUME IInv, NowInv, [Next]_vars
                 PROVE  NowInv'
    OBVIOUS
  <2>2. TypeOK /\ TasksInv
    BY <2>1 DEF IInv
  <2>3. \A t \in Tasks : NowSound(task[t])'
    BY <2>1, <2>2, NowTasks
  <2>4. \A d \in Devices : FoundSound(d)'
    BY <2>1, <2>2, FoundStep
  <2>5. QED
    BY <2>3, <2>4, Zenon DEF NowInv
<1>3. QED
  BY <1>1, <1>2, Invariance, PTL DEF Spec

\* The answer of scan-now names whoever its probes found, however they are spread over
\* workers and interleave with other setters, expiries and changes of address; and those
\* it found have put the one who scanned in their own lists.
THEOREM ScanNowComplete == Spec => []ScanNowTellsWhatItFound
<1>1. NowInv => ScanNowTellsWhatItFound
  BY Zenon DEF NowInv, FoundSound, Backed, ScanNowTellsWhatItFound
<1>2. QED
  BY <1>1, NowInvariance, PTL

=============================================================================
