------------------------------ MODULE Discovery ------------------------------
(***************************************************************************)
(* How devices that run this program find each other: announcements by     *)
(* multicast, the register calls that answer them, the probes of HTTP      *)
(* scans, the device a user names by its address, and the list of devices  *)
(* each of them keeps (share/devices.go) and shows.                        *)
(*                                                                         *)
(* Packets get lost and overtake each other, calls fail and replies get    *)
(* lost, addresses change hands.  A listener runs for every interface, and *)
(* the listeners, the register handlers and the workers of scans all write *)
(* the list, each with a read, a write and a notification of its own.      *)
(*                                                                         *)
(* Of an entry only the address is shown, which stands for what may change *)
(* about a device; which addresses a scan tries is in ScanTargets.         *)
(***************************************************************************)
EXTENDS Integers, FiniteSets

CONSTANTS
    Devices,          \* devices; each has a fingerprint of its own
    Addrs,            \* IP addresses
    FirstAddr,        \* the address each device starts with
    Tasks,            \* listeners, handlers and workers of all devices
    Announcing,       \* devices that announce themselves
    Scanning,         \* devices whose loops and users look for others
    MaxAnnouncements, \* bound on the announcements of each device
    MaxProbes,        \* bound on the probes that auto scans and users start
    MaxMoves,         \* bound on changes of address
    MaxScans,         \* bound on the scan-now requests of each device
    Expiring,         \* devices whose entries may reach their time to live
    Nil

ASSUME ConstantsAssumption ==
    /\ Nil \notin Devices \cup Addrs
    /\ FirstAddr \in [Devices -> Addrs]
    /\ \A d, e \in Devices : FirstAddr[d] = FirstAddr[e] => d = e
    /\ Announcing \cup Scanning \cup Expiring \subseteq Devices
    /\ MaxAnnouncements \in Nat /\ MaxProbes \in Nat
    /\ MaxMoves \in Nat /\ MaxScans \in Nat

VARIABLES
    addr,             \* the address of each device
    UserScanCurrent,  \* the list of each device: an address for those it knows
    net,              \* multicast packets under way
    task,             \* what listeners, handlers and workers are doing
    scanNow,          \* the scan-now request of each device
    budget,           \* how much of the bounds is used up
    notified,         \* what each device was notified of (history)
    removed,          \* entries that were ever removed from each list (history)
    askedSelf         \* devices whose user named their own address (history)

history == <<notified, removed, askedSelf>>
vars == <<addr, UserScanCurrent, net, task, scanNow, budget, history>>

-----------------------------------------------------------------------------
(* Types and initial state *)

Packet == [to : Devices, from : Devices, ip : Addrs, announce : BOOLEAN]

\* A task of device node that calls the address target.  SetUserScanCurrent sets the
\* entry of device about to address ip, in the list of node itself or, while the
\* callee handles the call, of the callee: at; known is what it has read.  now: the
\* probe is one of scan-now.
Task == [pc : {"free", "get", "set", "notify", "post", "reply", "fallback"},
         kind : {"none", "callback", "probe", "named"},
         node : Devices \cup {Nil}, target : Addrs \cup {Nil}, now : BOOLEAN,
         at : Devices \cup {Nil}, about : Devices \cup {Nil},
         ip : Addrs \cup {Nil}, known : Addrs \cup {Nil}]

Free == [pc |-> "free", kind |-> "none", node |-> Nil, target |-> Nil, now |-> FALSE,
         at |-> Nil, about |-> Nil, ip |-> Nil, known |-> Nil]

Setting(t) == task[t].pc \in {"get", "set", "notify"}

ScanNow == [pc : {"idle", "clear", "scan", "done"}, keys : SUBSET Devices,
            todo : SUBSET Addrs, found : SUBSET Devices, answer : SUBSET Devices]

TypeOK ==
    /\ addr \in [Devices -> Addrs]
    /\ \A d, e \in Devices : addr[d] = addr[e] => d = e
    /\ UserScanCurrent \in [Devices -> [Devices -> Addrs \cup {Nil}]]
    /\ net \subseteq Packet
    /\ task \in [Tasks -> Task]
    /\ \A t \in Tasks :
         /\ task[t].pc = "free" <=> task[t].node = Nil
         /\ Setting(t) => /\ task[t].at \in Devices
                          /\ task[t].about \in Devices
                          /\ task[t].ip \in Addrs
         /\ task[t].pc \in {"post", "reply"} => task[t].target \in Addrs
    /\ scanNow \in [Devices -> ScanNow]
    /\ budget \in [announced : [Devices -> 0 .. MaxAnnouncements], probes : 0 .. MaxProbes,
                   moves : 0 .. MaxMoves, scans : [Devices -> 0 .. MaxScans]]
    /\ notified \in [Devices -> SUBSET (Devices \X Addrs)]
    /\ removed \in [Devices -> SUBSET Devices]
    /\ askedSelf \subseteq Devices

Init ==
    /\ addr = FirstAddr
    /\ UserScanCurrent = [d \in Devices |-> [e \in Devices |-> Nil]]
    /\ net = {}
    /\ task = [t \in Tasks |-> Free]
    /\ scanNow = [d \in Devices |-> [pc |-> "idle", keys |-> {}, todo |-> {},
                                     found |-> {}, answer |-> {}]]
    /\ budget = [announced |-> [d \in Devices |-> 0], probes |-> 0, moves |-> 0,
                 scans |-> [d \in Devices |-> 0]]
    /\ notified = [d \in Devices |-> {}]
    /\ removed = [d \in Devices |-> {}]
    /\ askedSelf = {}

-----------------------------------------------------------------------------
(* The network *)

\* A device gets another address, which may have been another device's.
Move(d) ==
    /\ budget.moves < MaxMoves
    /\ \E a \in Addrs \ {addr[e] : e \in Devices} : addr' = [addr EXCEPT ![d] = a]
    /\ budget' = [budget EXCEPT !.moves = @ + 1]
    /\ UNCHANGED <<UserScanCurrent, net, task, scanNow, history>>

\* A multicast reaches every device, the sender included.
Multicast(d, announce) ==
    net' = net \cup [to : Devices, from : {d}, ip : {addr[d]}, announce : {announce}]

Lose(p) ==
    /\ net' = net \ {p}
    /\ UNCHANGED <<addr, UserScanCurrent, task, scanNow, budget, history>>

\* sendOnce
Announce(d) ==
    /\ d \in Announcing
    /\ budget.announced[d] < MaxAnnouncements
    /\ Multicast(d, TRUE)
    /\ budget' = [budget EXCEPT !.announced[d] = @ + 1]
    /\ UNCHANGED <<addr, UserScanCurrent, task, scanNow, history>>

-----------------------------------------------------------------------------
(* SetUserScanCurrent: three steps *)

\* hasDeviceInfoChanged.  Faulty variant: the address is not compared.
InfoChangedNever(a, b) == FALSE
InfoChanged(a, b) == a # b

\* The call of SetUserScanCurrent, and what follows it: a listener calls back, the
\* register handler replies, the others end.
Setter(tk, at, about, ip) ==
    [tk EXCEPT !.pc = "get", !.at = at, !.about = about, !.ip = ip]

Return(tk) ==
    CASE tk.at # tk.node -> [tk EXCEPT !.pc = "reply", !.about = Nil, !.ip = Nil, !.known = Nil]
      [] tk.at = tk.node /\ tk.kind = "callback" ->
           [Free EXCEPT !.pc = "post", !.kind = tk.kind, !.node = tk.node,
                        !.target = tk.target]
      [] OTHER -> Free

SetGet(t) ==
    /\ task[t].pc = "get"
    /\ task' = [task EXCEPT ![t].pc = "set",
                            ![t].known = UserScanCurrent[task[t].at][task[t].about]]
    /\ UNCHANGED <<addr, UserScanCurrent, net, scanNow, budget, history>>

SetSet(t) ==
    LET tk == task[t]
    IN  /\ tk.pc = "set"
        /\ UserScanCurrent' = [UserScanCurrent EXCEPT ![tk.at][tk.about] = tk.ip]
        /\ task' = [task EXCEPT ![t] =
             IF tk.known = Nil \/ InfoChanged(tk.known, tk.ip)
             THEN [tk EXCEPT !.pc = "notify", !.known = Nil] ELSE Return(tk)]
        /\ scanNow' = IF tk.now /\ tk.at = tk.node
                      THEN [scanNow EXCEPT ![tk.node].found = @ \cup {tk.about}]
                      ELSE scanNow
        /\ UNCHANGED <<addr, net, budget, history>>

SetNotify(t) ==
    /\ task[t].pc = "notify"
    /\ notified' = [notified EXCEPT
         ![task[t].at] = @ \cup {<<task[t].about, task[t].ip>>}]
    /\ task' = [task EXCEPT ![t] = Return(task[t])]
    /\ UNCHANGED <<addr, UserScanCurrent, net, scanNow, budget, removed, askedSelf>>

-----------------------------------------------------------------------------
(* listenOnInterface *)

\* ShouldRespond.  Faulty variant: the own fingerprint is not compared.
RespondsToAll(d, p) == p.announce
ShouldRespond(d, p) == p.announce /\ p.from # d

Hear(p, t) ==
    /\ task[t].pc = "free"
    /\ ShouldRespond(p.to, p)
    /\ net' = net \ {p}
    /\ task' = [task EXCEPT ![t] =
         Setter([Free EXCEPT !.kind = "callback", !.node = p.to, !.target = p.ip],
                p.to, p.from, p.ip)]
    /\ UNCHANGED <<addr, UserScanCurrent, scanNow, budget, history>>

Ignore(p) ==
    /\ ~ShouldRespond(p.to, p)
    /\ net' = net \ {p}
    /\ UNCHANGED <<addr, UserScanCurrent, task, scanNow, budget, history>>

\* CallbackMulticastMessageUsingUDP, when the register call failed.  Faulty variant:
\* it announces.
FallbackAnnounces(t) == Multicast(task[t].node, TRUE)
FallbackMulticast(t) == Multicast(task[t].node, FALSE)

Fallback(t) ==
    /\ task[t].pc = "fallback"
    /\ FallbackMulticast(t) \/ UNCHANGED net
    /\ task' = [task EXCEPT ![t] = Free]
    /\ UNCHANGED <<addr, UserScanCurrent, scanNow, budget, history>>

-----------------------------------------------------------------------------
(* POST /register: sendRegisterRequest and scanOneIPHTTP, HandleRegister *)

\* An error, or a status that is no success: a callback falls back, a probe ends.
Fails(t) ==
    task' = [task EXCEPT ![t] = IF task[t].kind = "callback"
                                THEN [Free EXCEPT !.pc = "fallback",
                                                  !.node = task[t].node]
                                ELSE Free]

\* No answer: nobody is there, the packet is lost, the device is not up.
PostFails(t) ==
    /\ task[t].pc = "post"
    /\ Fails(t)
    /\ UNCHANGED <<addr, UserScanCurrent, net, scanNow, budget, history>>

\* Whoever has the address now handles the call; 403 for the own fingerprint.
Register(t, d) ==
    /\ task[t].pc = "post"
    /\ addr[d] = task[t].target
    /\ IF d = task[t].node THEN Fails(t)
       ELSE task' = [task EXCEPT ![t] =
                       Setter(task[t], d, task[t].node, addr[task[t].node])]
    /\ UNCHANGED <<addr, UserScanCurrent, net, scanNow, budget, history>>

\* The reply gets lost, or comes too late.
ReplyFails(t) ==
    /\ task[t].pc = "reply"
    /\ Fails(t)
    /\ UNCHANGED <<addr, UserScanCurrent, net, scanNow, budget, history>>

\* A callback leaves the reply alone; a probe stores the device at its target.
Reply(t) ==
    /\ task[t].pc = "reply"
    /\ task' = [task EXCEPT ![t] =
         IF task[t].kind = "callback" THEN Free
         ELSE Setter(task[t], task[t].node, task[t].at, task[t].target)]
    /\ UNCHANGED <<addr, UserScanCurrent, net, scanNow, budget, history>>

Probe(d, a, now) ==
    [Free EXCEPT !.pc = "post", !.kind = "probe", !.node = d, !.target = a, !.now = now]

\* A worker of an auto scan.  A scan leaves out the addresses its device has when the
\* scan begins.
AutoProbe(d, a, t) ==
    /\ d \in Scanning
    /\ budget.probes < MaxProbes
    /\ task[t].pc = "free"
    /\ a # addr[d]
    /\ task' = [task EXCEPT ![t] = Probe(d, a, FALSE)]
    /\ budget' = [budget EXCEPT !.probes = @ + 1]
    /\ UNCHANGED <<addr, UserScanCurrent, net, scanNow, history>>

\* UserPrepareUpload with useFastSender: the device at an address the user names, the
\* own one included, is asked for its fingerprint and stored.
NameDevice(d, e, t) ==
    /\ d \in Scanning
    /\ budget.probes < MaxProbes
    /\ task[t].pc = "free"
    /\ task' = [task EXCEPT ![t] =
         Setter([Free EXCEPT !.kind = "named", !.node = d, !.target = addr[e]],
                d, e, addr[e])]
    /\ budget' = [budget EXCEPT !.probes = @ + 1]
    /\ askedSelf' = askedSelf \cup ({d} \cap {e})
    /\ UNCHANGED <<addr, UserScanCurrent, net, scanNow, notified, removed>>

-----------------------------------------------------------------------------
(* GET /scan-now: UserScanNow, one request of a device after the other *)

Listed(d) == {e \in Devices : UserScanCurrent[d][e] # Nil}

Remove(d, e) ==
    /\ UserScanCurrent' = [UserScanCurrent EXCEPT ![d][e] = Nil]
    /\ removed' = [removed EXCEPT ![d] = @ \cup {e}]

\* ClearUserScanCurrent reads the keys, then deletes one after the other.
ScanNowStart(d) ==
    /\ d \in Scanning
    /\ scanNow[d].pc \in {"idle", "done"}
    /\ budget.scans[d] < MaxScans
    /\ budget' = [budget EXCEPT !.scans[d] = @ + 1]
    /\ scanNow' = [scanNow EXCEPT ![d] = [pc |-> "clear", keys |-> Listed(d), todo |-> {},
                                          found |-> {}, answer |-> {}]]
    /\ UNCHANGED <<addr, UserScanCurrent, net, task, history>>

ScanNowClear(d, e) ==
    /\ e \in scanNow[d].keys
    /\ Remove(d, e)
    /\ scanNow' = [scanNow EXCEPT ![d].keys = @ \ {e}]
    /\ UNCHANGED <<addr, net, task, budget, notified, askedSelf>>

\* Faulty variant: the deletions go on meanwhile.
ClearBegun(d) == TRUE
Cleared(d) == scanNow[d].keys = {}

\* ScanOnceHTTP starts with the targets that are not its own addresses,
ScanNowScan(d) ==
    /\ scanNow[d].pc = "clear"
    /\ Cleared(d)
    /\ scanNow' = [scanNow EXCEPT ![d].pc = "scan", ![d].todo = Addrs \ {addr[d]}]
    /\ UNCHANGED <<addr, UserScanCurrent, net, task, budget, history>>

ScanNowProbe(d, a, t) ==
    /\ task[t].pc = "free"
    /\ a \in scanNow[d].todo
    /\ task' = [task EXCEPT ![t] = Probe(d, a, TRUE)]
    /\ scanNow' = [scanNow EXCEPT ![d].todo = @ \ {a}]
    /\ UNCHANGED <<addr, UserScanCurrent, net, budget, history>>

\* and ends when all of them were probed; the list is the answer.
ScanNowAnswer(d) ==
    /\ scanNow[d].pc = "scan"
    /\ scanNow[d].todo = {}
    /\ \A t \in Tasks : ~(task[t].node = d /\ task[t].now)
    /\ scanNow' = [scanNow EXCEPT ![d].pc = "done", ![d].answer = Listed(d)]
    /\ UNCHANGED <<addr, UserScanCurrent, net, task, budget, history>>

\* Five minutes after an entry was set, which no scan takes.
Expire(d, e) ==
    /\ d \in Expiring
    /\ UserScanCurrent[d][e] # Nil
    /\ scanNow[d].pc = "scan" => e \notin scanNow[d].found
    /\ Remove(d, e)
    /\ UNCHANGED <<addr, net, task, scanNow, budget, notified, askedSelf>>

-----------------------------------------------------------------------------
(* The specification *)

Receive(p) == Ignore(p) \/ \E t \in Tasks : Hear(p, t)

TaskStep(t) ==
    \/ SetGet(t) \/ SetSet(t) \/ SetNotify(t)
    \/ PostFails(t) \/ (\E d \in Devices : Register(t, d))
    \/ Reply(t) \/ ReplyFails(t) \/ Fallback(t)

ScanNowStep(d) ==
    \/ \E e \in Devices : ScanNowClear(d, e)
    \/ ScanNowScan(d) \/ ScanNowAnswer(d)
    \/ \E a \in Addrs, t \in Tasks : ScanNowProbe(d, a, t)

Next ==
    \/ \E d \in Devices :
         \/ Move(d) \/ Announce(d) \/ ScanNowStart(d) \/ ScanNowStep(d)
         \/ \E e \in Devices : Expire(d, e)
         \/ \E t \in Tasks :
              \/ \E a \in Addrs : AutoProbe(d, a, t)
              \/ \E e \in Devices : NameDevice(d, e, t)
    \/ \E p \in net : Lose(p) \/ Receive(p)
    \/ \E t \in Tasks : TaskStep(t)

Spec == Init /\ [][Next]_vars

\* Goroutines run on, calls have a timeout, packets are received or lost.
Fairness ==
    /\ WF_vars(\E p \in net : Lose(p) \/ Receive(p))
    /\ \A t \in Tasks : WF_vars(TaskStep(t))
    /\ \A d \in Devices : WF_vars(ScanNowStep(d))

FairSpec == Spec /\ Fairness

-----------------------------------------------------------------------------
(* Properties *)

\* No device lists itself, unless its user has named its address: neither its own
\* announcements, which come back to it, nor calls to an address that has become its
\* own in between make an entry.
SelfListedOnlyOnRequest ==
    \A d \in Devices : UserScanCurrent[d][d] # Nil => d \in askedSelf

\* Whatever a list says of a device, the user was or is about to be notified of,
\* although setters of one entry overlap and each decides from what it has read.
ListedWasNotified ==
    \A d, e \in Devices : UserScanCurrent[d][e] # Nil =>
      LET note == <<e, UserScanCurrent[d][e]>>
      IN  \/ note \in notified[d]
          \/ \E t \in Tasks : task[t].pc = "notify" /\ task[t].at = d
                               /\ <<task[t].about, task[t].ip>> = note

\* The answer of scan-now has every device its probes have found, and each of these
\* lists the one that scanned, unless it has dropped the entry since.
ScanNowTellsWhatItFound ==
    \A d \in Devices : scanNow[d].pc = "done" =>
      /\ scanNow[d].found \subseteq scanNow[d].answer
      /\ \A e \in scanNow[d].found :
           d \in removed[e] \/ UserScanCurrent[e][d] # Nil

\* Answers do not call for answers: after the last announcement the network falls
\* silent, also when every register call fails and is made up for by multicast.
EchoesEnd == <>[](net = {} /\ \A t \in Tasks : task[t].pc = "free")

=============================================================================
