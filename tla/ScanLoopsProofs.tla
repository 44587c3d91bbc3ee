-------------------------- MODULE ScanLoopsProofs --------------------------
(***************************************************************************)
(* Invariants of ScanLoops, for any number of loops and requests, however  *)
(* they overlap.                                                           *)
(***************************************************************************)
EXTENDS ScanLoops, TLAPS

\* The types and the flags together.
FlagInv == TypeOK /\ RunningMeansALoop

\* Every step of a loop keeps the types, and a flag that is up keeps a loop: the
\* last step of a loop lowers its flag, every other one leaves it registered.
LEMMA LoopKeepsFlagInv ==
    ASSUME FlagInv, NEW l \in Loops, LoopStep(l)
    PROVE  FlagInv'
<1>1. Kind[l] \in Kinds /\ NewTimer(l) \in {"off", "armed"}
      /\ (Kind[l] \in Untimed => NewTimer(l) = "off")
  BY ConstantsAssumption DEF NewTimer
<1>2. CASE LoopStart(l)
  <2> DEFINE pc == IF Kind[l] = "UDP" THEN "dial" ELSE IF loop[l].skip THEN "select" ELSE "scan"
             timer == IF Kind[l] = "UDP" THEN loop[l].timer ELSE NewTimer(l)
             r == [loop[l] EXCEPT !.pc = pc, !.timer = timer, !.skip = FALSE]
  <2>1. loop[l] \in Loop /\ loop \in [Loops -> Loop]
    BY DEF FlagInv, TypeOK
  <2>2. /\ r \in Loop /\ r.pc \in {"dial", "select", "scan"}
        /\ Kind[l] \in Untimed => r.timer = "off"
    BY <1>1, <2>1 DEF Loop, FlagInv, TypeOK
  <2>3. CASE /\ running' = [running EXCEPT ![Kind[l]] = TRUE]
             /\ loop' = [loop EXCEPT ![l] = r]
    <3> HIDE DEF r
    <3>1. TypeOK'
      BY <1>1, <1>2, <2>1, <2>2, <2>3 DEF FlagInv, TypeOK, LoopStart
    <3>2. Registered(l)' /\ \A m \in Loops : Registered(m) => Registered(m)'
      BY <2>1, <2>2, <2>3 DEF Registered
    <3>3. QED
      BY <1>1, <2>3, <3>1, <3>2 DEF FlagInv, TypeOK, RunningMeansALoop
  <2>4. CASE loop' = [loop EXCEPT ![l].pc = "ended"] /\ UNCHANGED running
    BY <1>1, <1>2, <2>1, <2>4 DEF FlagInv, TypeOK, Loop, RunningMeansALoop, LoopStart, Registered
  <2>5. Begun(l) = [loop EXCEPT ![l] = r]
    BY <2>1 DEF Begun, Loop
  <2>6. QED
    BY <1>2, <2>3, <2>4, <2>5 DEF LoopStart
<1>3. CASE LoopDial(l)
  BY <1>1, <1>3 DEF FlagInv, TypeOK, Loop, RunningMeansALoop, LoopDial, Leave, Registered
<1>4. CASE LoopScanned(l) \/ LoopTick(l) \/ LoopTimeout(l)
  BY <1>4 DEF FlagInv, TypeOK, Loop, RunningMeansALoop, LoopScanned, LoopTick, LoopTimeout,
        Leave, Registered
<1>5. CASE TimerFires(l)
  BY <1>1, <1>5 DEF FlagInv, TypeOK, Loop, RunningMeansALoop, TimerFires, Registered
<1>6. CASE LoopRestart(l)
  <2>1. TypeOK'
    BY <1>1, <1>6 DEF FlagInv, TypeOK, Loop, LoopRestart
  <2>2. \A m \in Loops : loop'[m].pc = loop[m].pc
    BY <1>6 DEF FlagInv, TypeOK, Loop, LoopRestart
  <2>3. QED
    BY <1>6, <2>1, <2>2 DEF FlagInv, RunningMeansALoop, LoopRestart, Registered
<1>7. CASE LoopLeave(l)
  BY <1>1, <1>7 DEF FlagInv, TypeOK, Loop, RunningMeansALoop, LoopLeave, Registered
<1>8. QED
  BY <1>2, <1>3, <1>4, <1>5, <1>6, <1>7 DEF LoopStep

\* A request leaves the flags alone; the loops it starts were not registered.
LEMMA RequestKeepsFlagInv ==
    ASSUME FlagInv, NEW r \in Requests, ScanNow(r) \/ RequestStep(r)
    PROVE  FlagInv'
<1>1. CASE RestartLoops(r)
  <2>1. PICK u \in Loops, h \in Loops :
          /\ ~Active(u) /\ ~Active(h)
          /\ loop' = [loop EXCEPT
               ![u] = [pc |-> "spawned", timer |-> "off", skip |-> FALSE],
               ![h] = [pc |-> "spawned", timer |-> "off", skip |-> TRUE]]
    BY <1>1 DEF RestartLoops
  <2>2. \A l \in Loops : Registered(l) => loop'[l] = loop[l]
    BY <2>1 DEF Registered, Active, FlagInv, TypeOK
  <2>3. /\ loop' \in [Loops -> Loop]
        /\ \A l \in Loops : loop[l].timer = "off" => loop'[l].timer = "off"
    BY <2>1 DEF FlagInv, TypeOK, Loop
  <2>4. request' \in [Requests -> RequestPC] /\ owed' \subseteq Loops
    BY <1>1 DEF FlagInv, TypeOK, RestartLoops, Goes, RequestPC
  <2>5. UNCHANGED <<running, restartPending, scanPauseCount>>
    BY <1>1 DEF RestartLoops
  <2>6. TypeOK'
    BY <2>3, <2>4, <2>5 DEF FlagInv, TypeOK
  <2>7. \A l \in Loops : Registered(l) => Registered(l)'
    BY <2>2 DEF Registered
  <2>8. RunningMeansALoop'
    BY <2>5, <2>7 DEF FlagInv, RunningMeansALoop
  <2>9. QED
    BY <2>6, <2>8 DEF FlagInv
<1>2. CASE RestartAutoScan(r)
  BY <1>2 DEF FlagInv, TypeOK, RequestPC, RunningMeansALoop, Registered, RestartAutoScan, Goes
<1>3. CASE ~RestartLoops(r) /\ ~RestartAutoScan(r)
  <2>1. \E pc \in RequestPC : Goes(r, pc)
    BY <1>3 DEF RequestPC, RequestStep, ScanNow, ScanNowScanned, BackgroundTick,
          BackgroundScanned, BackgroundTimeout, CheckRunning
  <2>2. UNCHANGED <<running, restartPending, scanPauseCount, loop, owed>>
    BY <1>3 DEF RequestStep, ScanNow, ScanNowScanned, BackgroundTick, BackgroundScanned,
          BackgroundTimeout, CheckRunning
  <2>3. QED
    BY <2>1, <2>2 DEF FlagInv, TypeOK, RunningMeansALoop, Registered, Goes
<1>4. QED
  BY <1>1, <1>2, <1>3

\* FlagInv is inductive.
THEOREM FlagInvariance == Spec => []FlagInv
<1>1. Init => FlagInv
  <2>1. Init => TypeOK
    <3> SUFFICES ASSUME Init PROVE TypeOK
      OBVIOUS
    <3>1. loop \in [Loops -> Loop] /\ \A l \in Loops : loop[l].timer = "off"
      BY DEF Init, Loop
    <3>2. request \in [Requests -> RequestPC]
      BY DEF Init, RequestPC
    <3>3. scanPauseCount \in Int
      BY DEF Init
    <3>4. running \in [Kinds -> BOOLEAN] /\ restartPending \in BOOLEAN /\ owed \subseteq Loops
      BY Zenon DEF Init
    <3>5. QED
      BY <3>1, <3>2, <3>3, <3>4 DEF TypeOK
  <2>2. Init => RunningMeansALoop
    BY DEF Init, RunningMeansALoop
  <2>3. QED
    BY <2>1, <2>2 DEF FlagInv
<1>2. FlagInv /\ [Next]_vars => FlagInv'
  <2> SUFFICES ASSUME FlagInv, [Next]_vars PROVE FlagInv'
    OBVIOUS
  <2>1. CASE UNCHANGED vars
    BY <2>1 DEF vars, FlagInv, TypeOK, RunningMeansALoop, Registered
  <2>2. CASE PauseScan \/ ResumeScan
    BY <2>2 DEF PauseScan, ResumeScan, FlagInv, TypeOK, RunningMeansALoop, Registered
  <2>3. QED
    BY <2>1, <2>2, LoopKeepsFlagInv, RequestKeepsFlagInv DEF Next
<1>3. QED
  BY <1>1, <1>2, PTL DEF Spec

\* A step of a loop leaves a witness for every loop whose flag is down: the last step of a
\* loop makes it one, and no loop that is one has a step but to register or to fail.
LEMMA LoopKeepsDenied ==
    ASSUME TypeOK, DeniedOnlyAfterReturn, NEW l \in Loops, LoopStep(l)
    PROVE  DeniedOnlyAfterReturn'
<1>1. /\ loop \in [Loops -> Loop] /\ running \in [Kinds -> BOOLEAN]
      /\ Kind[l] \in Kinds
      /\ \A m \in Loops : Kind[m] \in Kinds
  BY ConstantsAssumption DEF TypeOK
<1>2. SUFFICES ASSUME NEW n \in Loops, Registered(n)', ~running'[Kind[n]]
               PROVE  \E m \in Loops \ {n} :
                        Kind[m] = Kind[n] /\ loop'[m].pc \in {"spawned", "ended"}
  BY DEF DeniedOnlyAfterReturn
<1>3. \A m \in Loops \ {l} : loop'[m] = loop[m]
  BY <1>1 DEF LoopStep, LoopStart, Begun, LoopDial, LoopScanned, TimerFires, LoopTimeout,
        LoopRestart, LoopTick, LoopLeave, Leave
<1>4. CASE LoopStart(l) /\ running' = [running EXCEPT ![Kind[l]] = TRUE]
  <2>1. Kind[n] # Kind[l]
    BY <1>1, <1>2, <1>4
  <2>2. QED
    BY <1>1, <1>2, <1>3, <1>4, <2>1 DEF DeniedOnlyAfterReturn, Registered
<1>5. CASE UNCHANGED running /\ loop' = [loop EXCEPT ![l].pc = "ended"]
  BY <1>1, <1>2, <1>3, <1>5 DEF DeniedOnlyAfterReturn, Registered, Loop
<1>6. CASE LoopLeave(l)
  <2>1. loop'[l].pc = "ended" /\ n # l
    BY <1>1, <1>2, <1>6 DEF LoopLeave, Registered, Loop
  <2>2. CASE Kind[n] = Kind[l]
    BY <2>1, <2>2
  <2>3. CASE Kind[n] # Kind[l]
    BY <1>1, <1>2, <1>3, <1>6, <2>1, <2>3 DEF LoopLeave, DeniedOnlyAfterReturn, Registered
  <2>4. QED
    BY <2>2, <2>3
<1>7. CASE LoopDial(l) \/ LoopScanned(l) \/ TimerFires(l) \/ LoopTimeout(l)
             \/ LoopRestart(l) \/ LoopTick(l)
  <2>1. Registered(l) /\ UNCHANGED running
    BY <1>7 DEF LoopDial, LoopScanned, TimerFires, LoopTimeout, LoopRestart, LoopTick, Live,
          Registered
  <2>2. QED
    BY <1>2, <1>3, <2>1 DEF DeniedOnlyAfterReturn, Registered
<1>8. QED
  BY <1>4, <1>5, <1>6, <1>7 DEF LoopStep, LoopStart

\* A request starts only loops that are not active, and what it starts has not registered.
LEMMA RequestKeepsDenied ==
    ASSUME TypeOK, DeniedOnlyAfterReturn, NEW r \in Requests, ScanNow(r) \/ RequestStep(r)
    PROVE  DeniedOnlyAfterReturn'
<1>1. CASE RestartLoops(r)
  <2>1. PICK u \in Loops, h \in Loops :
          /\ ~Active(u) /\ ~Active(h)
          /\ loop' = [loop EXCEPT
               ![u] = [pc |-> "spawned", timer |-> "off", skip |-> FALSE],
               ![h] = [pc |-> "spawned", timer |-> "off", skip |-> TRUE]]
    BY <1>1 DEF RestartLoops
  <2>2. \A l \in Loops : loop'[l] = loop[l] \/ loop'[l].pc = "spawned"
    BY <2>1 DEF TypeOK
  <2>3. UNCHANGED running
    BY <1>1 DEF RestartLoops
  <2>4. \A n \in Loops : Registered(n)' => Registered(n)
    BY <2>2 DEF Registered
  <2>5. \A m \in Loops : loop[m].pc \in {"spawned", "ended"}
                            => loop'[m].pc \in {"spawned", "ended"}
    BY <2>2
  <2>6. QED
    BY <2>3, <2>4, <2>5 DEF DeniedOnlyAfterReturn
<1>2. CASE ~RestartLoops(r)
  <2>1. UNCHANGED <<running, loop>>
    BY <1>2 DEF RequestStep, ScanNow, ScanNowScanned, BackgroundTick, BackgroundScanned,
          BackgroundTimeout, CheckRunning, RestartAutoScan
  <2>2. QED
    BY <2>1 DEF DeniedOnlyAfterReturn, Registered
<1>3. QED
  BY <1>1, <1>2

\* TypeOK holds in every reachable state.
THEOREM TypeCorrect == Spec => []TypeOK
BY FlagInvariance, PTL DEF FlagInv

\* IsAutoScanRunning never reports a loop where there is none.
THEOREM RunningIsTrue == Spec => []RunningMeansALoop
BY FlagInvariance, PTL DEF FlagInv

\* IsAutoScanRunning denies a running loop only when another loop of its kind has returned.
THEOREM DeniedByAnother == Spec => []DeniedOnlyAfterReturn
<1>1. Init => DeniedOnlyAfterReturn
  BY DEF Init, DeniedOnlyAfterReturn, Registered
<1>2. TypeOK /\ DeniedOnlyAfterReturn /\ [Next]_vars => DeniedOnlyAfterReturn'
  <2> SUFFICES ASSUME TypeOK, DeniedOnlyAfterReturn, [Next]_vars PROVE DeniedOnlyAfterReturn'
    OBVIOUS
  <2>1. CASE UNCHANGED vars
    BY <2>1 DEF vars, DeniedOnlyAfterReturn, Registered
  <2>2. CASE PauseScan \/ ResumeScan
    BY <2>2 DEF PauseScan, ResumeScan, DeniedOnlyAfterReturn, Registered
  <2>3. QED
    BY <2>1, <2>2, LoopKeepsDenied, RequestKeepsDenied DEF Next
<1>3. QED
  BY <1>1, <1>2, TypeCorrect, PTL DEF Spec

=============================================================================
