----------------------------- MODULE ScanLoops -----------------------------
(***************************************************************************)
(* The auto scan loops of boardcast/udp.go and boardcast/http_scan.go, the *)
(* channel that restarts them, and the scan-now requests of                *)
(* boardcast/scan_config.go that use it.                                   *)
(*                                                                         *)
(* main.go configures the mixed mode, with both messages set, and starts   *)
(* one loop of each kind; so ScanNow always takes its HTTP branch, and the *)
(* only signal ever sent is the one that skips the immediate HTTP scan.    *)
(* Timers fire at any time.  What a scan finds is arbitrary: devices also  *)
(* announce themselves and are forgotten in between.  A UDP announcement   *)
(* is a single write that changes no shared state, and is not shown.       *)
(***************************************************************************)
EXTENDS Integers, FiniteSets

CONSTANTS
    Loops,          \* identities for loop goroutines
    Kind,           \* the kind of each loop
    FirstLoops,     \* the loops that main started and that have not returned
    Requests,       \* scan-now requests
    Untimed,        \* kinds whose timeout is 0: {"UDP"} with -scanTimeout 0
    DialFails,      \* TRUE: the UDP loop may fail to resolve or dial its address
    MaxPauses,      \* bounds of the instance, not of the code: the transfers that
    MaxSurplus      \* have paused without resuming yet, and the resumes in excess

Kinds == {"UDP", "HTTP"}

ASSUME ConstantsAssumption ==
    /\ Kind \in [Loops -> Kinds]
    /\ FirstLoops \subseteq Loops
    /\ Untimed \subseteq Kinds
    /\ DialFails \in BOOLEAN
    /\ {MaxPauses, MaxSurplus} \subseteq Nat

VARIABLES
    running,         \* autoScanUDPRunning, autoScanHTTPRunning
    restartPending,  \* autoScanRestartCh (capacity 1) holds a signal
    scanPauseCount,  \* the reference counter of paused scans
    loop,            \* the loop goroutines
    request,         \* the scan-now requests and the goroutines they start
    owed             \* the running loops that a restart was asked of, and that have
                     \* not been restarted since (history)

vars == <<running, restartPending, scanPauseCount, loop, request, owed>>

Loop == [pc : {"none", "spawned", "dial", "scan", "select", "leaving", "ended"},
         timer : {"off", "armed", "fired"}, skip : BOOLEAN]

RequestPC == {"idle", "scan", "wait", "rescan", "restart", "signal", "spawn", "done"}

TypeOK ==
    /\ running \in [Kinds -> BOOLEAN]
    /\ restartPending \in BOOLEAN
    /\ scanPauseCount \in Int
    /\ loop \in [Loops -> Loop]
    /\ \A l \in Loops : Kind[l] \in Untimed => loop[l].timer = "off"
    /\ request \in [Requests -> RequestPC]
    /\ owed \subseteq Loops

Init ==
    /\ running = [k \in Kinds |-> FALSE]
    /\ restartPending = FALSE
    /\ scanPauseCount = 0
    /\ loop = [l \in Loops |->
                 [pc |-> IF l \in FirstLoops THEN "spawned" ELSE "none",
                  timer |-> "off", skip |-> FALSE]]
    /\ request = [r \in Requests |-> "idle"]
    /\ owed = {}

-----------------------------------------------------------------------------
(* Shared operations *)

\* Between registering and returning.
Registered(l) == loop[l].pc \in {"dial", "scan", "select", "leaving"}

\* Started, and not yet returned.
Active(l) == Registered(l) \/ loop[l].pc = "spawned"

\* The loop will come to its select again.
Live(l) == loop[l].pc \in {"dial", "scan", "select"}

\* A counter below zero pauses nothing.
IsScanPaused == scanPauseCount > 0

IsAutoScanRunning == running["UDP"] \/ running["HTTP"]

\* resetTimeout: a new timer and channel; what the old one had fired is dropped.
\* Faulty variant: the old timer is stopped and no new one made.
TimerStopped(l) == "off"
NewTimer(l) == IF Kind[l] \in Untimed THEN "off" ELSE "armed"

-----------------------------------------------------------------------------
(* A loop goroutine: SendMulticastUsingUDPWithTimeout for kind UDP,         *)
(* ListenMulticastUsingHTTPWithTimeout for kind HTTP                        *)

\* What was told to skip is of no use once the loop has begun.
Begun(l) ==
    [loop EXCEPT ![l].pc = IF Kind[l] = "UDP" THEN "dial"
                           ELSE IF loop[l].skip THEN "select" ELSE "scan",
                 ![l].timer = IF Kind[l] = "UDP" THEN @ ELSE NewTimer(l),
                 ![l].skip = FALSE]

\* The loop registers itself.  A UDP loop that cannot resolve its address returns
\* before.  Faulty variant: a UDP loop does not register.
LoopStartHttpFlag(l) ==
    /\ loop[l].pc = "spawned"
    /\ running' = [running EXCEPT !["HTTP"] = @ \/ Kind[l] = "HTTP"]
    /\ loop' = Begun(l)
    /\ UNCHANGED <<restartPending, scanPauseCount, request, owed>>

LoopStart(l) ==
    /\ loop[l].pc = "spawned"
    /\ \/ /\ running' = [running EXCEPT ![Kind[l]] = TRUE]
          /\ loop' = Begun(l)
       \/ /\ DialFails /\ Kind[l] = "UDP"
          /\ loop' = [loop EXCEPT ![l].pc = "ended"]
          /\ UNCHANGED running
    /\ UNCHANGED <<restartPending, scanPauseCount, request, owed>>

\* The loop returns: of its deferred functions, those that stop its timers come first.
Leave(l) ==
    /\ loop' = [loop EXCEPT ![l].pc = "leaving", ![l].timer = "off"]
    /\ owed' = owed \ {l}

\* The UDP loop's connection and its first announcement.
LoopDial(l) ==
    /\ loop[l].pc = "dial"
    /\ \/ /\ loop' = [loop EXCEPT ![l].pc = "select", ![l].timer = NewTimer(l)]
          /\ UNCHANGED owed
       \/ DialFails /\ Leave(l)
    /\ UNCHANGED <<running, restartPending, scanPauseCount, request>>

\* ScanOnceHTTP returns.
LoopScanned(l) ==
    /\ loop[l].pc = "scan"
    /\ loop' = [loop EXCEPT ![l].pc = "select"]
    /\ UNCHANGED <<running, restartPending, scanPauseCount, request, owed>>

TimerFires(l) ==
    /\ Live(l)
    /\ loop[l].timer = "armed"
    /\ loop' = [loop EXCEPT ![l].timer = "fired"]
    /\ UNCHANGED <<running, restartPending, scanPauseCount, request, owed>>

LoopTimeout(l) ==
    /\ loop[l].pc = "select"
    /\ loop[l].timer = "fired"
    /\ Leave(l)
    /\ UNCHANGED <<running, restartPending, scanPauseCount, request>>

\* The loop takes the signal.
LoopRestart(l) ==
    /\ loop[l].pc = "select"
    /\ restartPending
    /\ restartPending' = FALSE
    /\ loop' = [loop EXCEPT ![l].timer = NewTimer(l)]
    /\ owed' = owed \ {l}
    /\ UNCHANGED <<running, scanPauseCount, request>>

\* A tick of an HTTP loop; a paused loop skips it.
LoopTick(l) ==
    /\ loop[l].pc = "select"
    /\ Kind[l] = "HTTP"
    /\ ~IsScanPaused
    /\ loop' = [loop EXCEPT ![l].pc = "scan"]
    /\ UNCHANGED <<running, restartPending, scanPauseCount, request, owed>>

\* The last deferred function lowers the flag.  Faulty variant: it is forgotten.
LoopLeaveFlagKept(l) ==
    /\ loop[l].pc = "leaving"
    /\ loop' = [loop EXCEPT ![l].pc = "ended"]
    /\ UNCHANGED <<running, restartPending, scanPauseCount, request, owed>>

LoopLeave(l) ==
    /\ loop[l].pc = "leaving"
    /\ running' = [running EXCEPT ![Kind[l]] = FALSE]
    /\ loop' = [loop EXCEPT ![l].pc = "ended"]
    /\ UNCHANGED <<restartPending, scanPauseCount, request, owed>>

-----------------------------------------------------------------------------
(* Scan-now *)

Goes(r, pc) == request' = [request EXCEPT ![r] = pc]

\* ScanNow begins its HTTP scan, paused or not, and whatever other requests are doing.
ScanNow(r) ==
    /\ request[r] = "idle"
    /\ Goes(r, "scan")
    /\ UNCHANGED <<running, restartPending, scanPauseCount, loop, owed>>

\* Its scan fails; or finds devices, and auto scan is restarted; or finds none, and
\* scanNowBackgroundLoop is started.
ScanNowScanned(r) ==
    /\ request[r] = "scan"
    /\ \E pc \in {"done", "restart", "wait"} : Goes(r, pc)
    /\ UNCHANGED <<running, restartPending, scanPauseCount, loop, owed>>

\* The background loop's ticker: a scan, unless paused.
BackgroundTick(r) ==
    /\ request[r] = "wait"
    /\ ~IsScanPaused
    /\ Goes(r, "rescan")
    /\ UNCHANGED <<running, restartPending, scanPauseCount, loop, owed>>

BackgroundScanned(r) ==
    /\ request[r] = "rescan"
    /\ \E pc \in {"wait", "restart"} : Goes(r, pc)
    /\ UNCHANGED <<running, restartPending, scanPauseCount, loop, owed>>

\* The background loop's own timeout.  Faulty variant: it waits on while paused.
BackgroundTimeoutUnpaused(r) ==
    /\ request[r] = "wait"
    /\ ~IsScanPaused
    /\ Goes(r, "restart")
    /\ UNCHANGED <<running, restartPending, scanPauseCount, loop, owed>>

BackgroundTimeout(r) ==
    /\ request[r] = "wait"
    /\ Goes(r, "restart")
    /\ UNCHANGED <<running, restartPending, scanPauseCount, loop, owed>>

\* scanNowRestartAutoScan asks whether auto scan is running, and acts on the
\* answer in a step of its own.
CheckRunning(r) ==
    /\ request[r] = "restart"
    /\ \/ IsAutoScanRunning /\ Goes(r, "signal")
       \/ ~IsAutoScanRunning /\ Goes(r, "spawn")
    /\ UNCHANGED <<running, restartPending, scanPauseCount, loop, owed>>

\* RestartAutoScan: a full channel keeps its one signal.
RestartAutoScan(r) ==
    /\ request[r] = "signal"
    /\ restartPending' = TRUE
    /\ owed' = owed \cup {l \in Loops : Live(l)}
    /\ Goes(r, "done")
    /\ UNCHANGED <<running, scanPauseCount, loop>>

\* restartAutoScanLoops: a goroutine of each kind.  The identity of a loop that has
\* returned may be used again.
RestartLoops(r) ==
    /\ request[r] = "spawn"
    /\ \E u, h \in Loops :
         /\ Kind[u] = "UDP" /\ ~Active(u)
         /\ Kind[h] = "HTTP" /\ ~Active(h)
         /\ loop' = [loop EXCEPT
              ![u] = [pc |-> "spawned", timer |-> "off", skip |-> FALSE],
              ![h] = [pc |-> "spawned", timer |-> "off", skip |-> TRUE]]
    /\ Goes(r, "done")
    /\ UNCHANGED <<running, restartPending, scanPauseCount, owed>>

-----------------------------------------------------------------------------
(* File transfers, as far as the loops see them.  Both operations are       *)
(* unconditional: a transfer that resumes twice takes the counter below     *)
(* zero.                                                                    *)

PauseScan ==
    /\ scanPauseCount < MaxPauses
    /\ scanPauseCount' = scanPauseCount + 1
    /\ UNCHANGED <<running, restartPending, loop, request, owed>>

ResumeScan ==
    /\ scanPauseCount > -MaxSurplus
    /\ scanPauseCount' = scanPauseCount - 1
    /\ UNCHANGED <<running, restartPending, loop, request, owed>>

-----------------------------------------------------------------------------
(* The specification *)

LoopStep(l) ==
    \/ LoopStart(l)   \/ LoopDial(l)    \/ LoopScanned(l) \/ TimerFires(l)
    \/ LoopTimeout(l) \/ LoopRestart(l) \/ LoopTick(l)    \/ LoopLeave(l)

RequestStep(r) ==
    \/ ScanNowScanned(r)    \/ BackgroundTick(r) \/ BackgroundScanned(r)
    \/ BackgroundTimeout(r) \/ CheckRunning(r)   \/ RestartAutoScan(r)
    \/ RestartLoops(r)

Next ==
    \/ \E l \in Loops : LoopStep(l)
    \/ \E r \in Requests : ScanNow(r) \/ RequestStep(r)
    \/ PauseScan
    \/ ResumeScan

Spec == Init /\ [][Next]_vars

\* Goroutines run on, scans return and timers fire.  A select takes a ready case at
\* random, so a case that is ready again and again is taken: strong fairness, which
\* only the timeouts need.
Fairness ==
    /\ \A l \in Loops :
         /\ WF_vars(LoopStart(l) \/ LoopDial(l) \/ LoopScanned(l) \/ LoopLeave(l))
         /\ WF_vars(TimerFires(l))
         /\ SF_vars(LoopTimeout(l))
    /\ \A r \in Requests :
         /\ WF_vars(ScanNowScanned(r) \/ BackgroundScanned(r) \/ CheckRunning(r)
                      \/ RestartAutoScan(r) \/ RestartLoops(r))
         /\ SF_vars(BackgroundTimeout(r))

FairSpec == Spec /\ Fairness

-----------------------------------------------------------------------------
(* Properties *)

\* A flag is up only while some loop of its kind has registered and not yet
\* returned, however loops of one kind overlap.
RunningMeansALoop ==
    \A k \in Kinds : running[k] => \E l \in Loops : Kind[l] = k /\ Registered(l)

\* A flag is down beside a running loop only because another loop of its kind has
\* returned since (and may have been started anew): however requests, restarts, signals
\* and failures overlap, nothing else makes IsAutoScanRunning deny a loop.
DeniedOnlyAfterReturn ==
    \A l \in Loops : Registered(l) /\ ~running[Kind[l]] =>
      \E m \in Loops \ {l} : Kind[m] = Kind[l] /\ loop[m].pc \in {"spawned", "ended"}

\* A restart signal that was taken has reached every loop that was running when it
\* was sent.
SignalReachesAll == ~restartPending => owed = {}

\* The background loop of scan-now comes to an end and restarts auto scan, however
\* long a transfer pauses its scans.
BackgroundEnds ==
    \A r \in Requests : request[r] = "wait" ~> request[r] = "done"

\* Auto scan stops: with timeouts set, restarts put the end off and nothing keeps
\* a loop for ever.
AutoScanEnds == <>[](\A l \in Loops : ~Registered(l))

=============================================================================
