---------------------------- MODULE ScanTargets ----------------------------
(***************************************************************************)
(* Which addresses an HTTP scan probes: the addresses of the network       *)
(* interfaces, the ranges made from them (tool/net.go), their cache        *)
(* (boardcast/config.go), and the workers of ScanOnceHTTP.                 *)
(*                                                                         *)
(* Scans overlap: the HTTP loop, its successors, scan-now and its          *)
(* background loop each call ScanOnceHTTP.  The machine may join and leave *)
(* networks in between.  The order of a list of addresses is left out, and *)
(* so is what a probe finds, which is in Discovery.                        *)
(***************************************************************************)
EXTENDS Integers, FiniteSetsExt

CONSTANTS
    Interfaces,            \* network interfaces that are not loopback
    Tunnels,               \* those without multicast, or point to point
    referNetworkInterface, \* the one the program was told to use, or All
    All,                   \* listenAllInterfaces
    Nets,                  \* the addresses, with prefix length, one may have
    Scans,                 \* calls of ScanOnceHTTP
    Concurrency,           \* workers of a scan that probe at a time
    MaxMoves               \* bound on the changes of addresses

Octet == 0 .. 255
IP == [1 .. 4 -> Octet]

ASSUME ConstantsAssumption ==
    /\ Tunnels \subseteq Interfaces
    /\ referNetworkInterface \in Interfaces \cup {All}
    /\ All \notin Interfaces
    /\ \A n \in Nets : n.ip \in IP /\ n.ones \in 0 .. 32
    /\ Concurrency \in Nat \ {0}
    /\ MaxMoves \in Nat

VARIABLES
    addrs,               \* the address of each interface, at most one
    moves,               \* how often they changed
    networkIPsCacheKey,  \* the addresses the cache was made from; at first none
    networkIPsCache,     \* the cached list
    scan                 \* the calls of ScanOnceHTTP

vars == <<addrs, moves, networkIPsCacheKey, networkIPsCache, scan>>

-----------------------------------------------------------------------------
(* GenerateNetworkIPs *)

\* How many bits of the i-th octet belong to the network, for a mask of so many ones.
NetworkBits(ones, i) ==
    LET left == ones - 8 * (i - 1)
    IN  IF left < 0 THEN 0 ELSE IF left > 8 THEN 8 ELSE left

\* ip.Mask(mask)
Network(n) == [i \in 1 .. 4 |-> n.ip[i] - (n.ip[i] % (2 ^ (8 - NetworkBits(n.ones, i))))]

\* At most 254, without the first and the last address of a small network; none for
\* /31 and /32.
MaxHosts(n) == IF n.ones > 24 THEN 2 ^ (32 - n.ones) - 2 ELSE 254

\* The i-th address: i is added to the network's octet by octet, in bytes.
Host(n, i) ==
    LET Plus(octet, j) == (octet + (j % 256)) % 256
        net == Network(n)
    IN  CASE n.ones >= 24 -> [net EXCEPT ![4] = Plus(@, i)]
          [] n.ones \in 16 .. 23 -> [net EXCEPT ![4] = Plus(@, i),
                                                ![3] = Plus(@, i \div 256)]
          [] n.ones < 16 -> [net EXCEPT ![4] = Plus(@, i), ![3] = Plus(@, i \div 256),
                                        ![2] = Plus(@, i \div 65536)]

GenerateNetworkIPs(n) == {Host(n, i) : i \in 1 .. MaxHosts(n)} \ {Network(n)}

\* Of several networks.
NetworkIPs == [n \in Nets |-> GenerateNetworkIPs(n)]
Targets(key) == UNION {NetworkIPs[n] : n \in key}

-----------------------------------------------------------------------------
(* The interfaces *)

\* RejectUnsupportNetworkInterface
Usable(i) == i \notin Tunnels /\ addrs[i] # {}

\* getNetworkInterfaces, and the addresses these have.
ChosenInterfaces ==
    {i \in Interfaces : Usable(i) /\ referNetworkInterface \in {i, All}}

ChosenAddrs == UNION {addrs[i] : i \in ChosenInterfaces}

\* GetLocalIPv4Set: of every interface.
LocalIPs == {n.ip : n \in UNION {addrs[i] : i \in Interfaces}}

\* A link goes down, comes up, or gets another address.
NetworkChanges(i) ==
    /\ moves < MaxMoves
    /\ moves' = moves + 1
    /\ \E as \in {{}} \cup {{n} : n \in Nets} :
         as # addrs[i] /\ addrs' = [addrs EXCEPT ![i] = as]
    /\ UNCHANGED <<networkIPsCacheKey, networkIPsCache, scan>>

-----------------------------------------------------------------------------
(* ScanOnceHTTP *)

ScanPC == {"idle", "lookup", "generate", "filter", "probe", "failed", "done"}

AllIPs == Targets(Nets)

\* key: the addresses the scan has read; self: its own addresses that it has left
\* out; probing: the targets a worker has taken.
Scan == [pc : ScanPC, key : SUBSET Nets, targets : SUBSET AllIPs,
         self : SUBSET {n.ip : n \in Nets}, probing : SUBSET AllIPs,
         probed : SUBSET AllIPs]

TypeOK ==
    /\ addrs \in [Interfaces -> {{}} \cup {{n} : n \in Nets}]
    /\ moves \in 0 .. MaxMoves
    /\ networkIPsCacheKey \subseteq Nets
    /\ networkIPsCache \subseteq AllIPs
    /\ scan \in [Scans -> Scan]

Init ==
    /\ addrs \in [Interfaces -> {{}} \cup {{n} : n \in Nets}]
    /\ moves = 0
    /\ networkIPsCacheKey = {}
    /\ networkIPsCache = {}
    /\ scan = [s \in Scans |-> [pc |-> "idle", key |-> {}, targets |-> {},
                                self |-> {}, probing |-> {}, probed |-> {}]]

\* getCachedNetworkIPs asks the system.  No usable interface is an error.
ScanStart(s) ==
    /\ scan[s].pc = "idle"
    /\ scan' = [scan EXCEPT
         ![s].pc = IF ChosenInterfaces = {} THEN "failed" ELSE "lookup",
         ![s].key = ChosenAddrs]
    /\ UNCHANGED <<addrs, moves, networkIPsCacheKey, networkIPsCache>>

\* Under the read lock: a hit returns a copy.  A list that came out empty is made
\* anew every time.
CacheHit(s) == networkIPsCacheKey = scan[s].key /\ networkIPsCache # {}

ScanLookup(s) ==
    /\ scan[s].pc = "lookup"
    /\ \/ /\ CacheHit(s)
          /\ scan' = [scan EXCEPT ![s].pc = "filter", ![s].targets = networkIPsCache]
       \/ /\ ~CacheHit(s)
          /\ scan' = [scan EXCEPT ![s].pc = "generate"]
    /\ UNCHANGED <<addrs, moves, networkIPsCacheKey, networkIPsCache>>

\* A miss: the list is made, and stored with its key under the lock.
ScanGenerate(s) ==
    /\ scan[s].pc = "generate"
    /\ networkIPsCache' = Targets(scan[s].key)
    /\ networkIPsCacheKey' = scan[s].key
    /\ scan' = [scan EXCEPT ![s].pc = "filter", ![s].targets = Targets(scan[s].key)]
    /\ UNCHANGED <<addrs, moves>>

\* What becomes of the cache when own addresses are taken out of the list, in place.
\* Faulty variant: the list is the cached one.
CacheFiltered(s) ==
    IF networkIPsCacheKey = scan[s].key THEN networkIPsCache \ LocalIPs ELSE networkIPsCache
CacheAfterFilter(s) == networkIPsCache

\* An empty list is an error.  The own addresses are left out, as they are now.
ScanFilter(s) ==
    /\ scan[s].pc = "filter"
    /\ scan' = [scan EXCEPT
         ![s].pc = IF scan[s].targets = {} THEN "failed" ELSE "probe",
         ![s].targets = @ \ LocalIPs,
         ![s].self = LocalIPs]
    /\ networkIPsCache' = CacheAfterFilter(s)
    /\ UNCHANGED <<addrs, moves, networkIPsCacheKey>>

\* A worker gets its place in sem, and then the limiter's leave.
ProbeStart(s, ip) ==
    /\ scan[s].pc = "probe"
    /\ ip \in scan[s].targets \ (scan[s].probing \cup scan[s].probed)
    /\ Cardinality(scan[s].probing) < Concurrency
    /\ scan' = [scan EXCEPT ![s].probing = @ \cup {ip}]
    /\ UNCHANGED <<addrs, moves, networkIPsCacheKey, networkIPsCache>>

\* scanOneIPHTTP returns.
ProbeEnd(s, ip) ==
    /\ ip \in scan[s].probing
    /\ scan' = [scan EXCEPT ![s].probing = @ \ {ip}, ![s].probed = @ \cup {ip}]
    /\ UNCHANGED <<addrs, moves, networkIPsCacheKey, networkIPsCache>>

\* wg.Wait.  Faulty variant: it waits only for those that have begun.
NoneProbing(s) == scan[s].probing = {}
AllProbed(s) == scan[s].probed = scan[s].targets

ScanReturn(s) ==
    /\ scan[s].pc = "probe"
    /\ AllProbed(s)
    /\ scan' = [scan EXCEPT ![s].pc = "done"]
    /\ UNCHANGED <<addrs, moves, networkIPsCacheKey, networkIPsCache>>

-----------------------------------------------------------------------------
(* The specification *)

ScanStep(s) ==
    \/ ScanLookup(s) \/ ScanGenerate(s) \/ ScanFilter(s) \/ ScanReturn(s)
    \/ \E ip \in scan[s].targets : ProbeStart(s, ip) \/ ProbeEnd(s, ip)

Next ==
    \/ \E i \in Interfaces : NetworkChanges(i)
    \/ \E s \in Scans : ScanStart(s) \/ ScanStep(s)

Spec == Init /\ [][Next]_vars

-----------------------------------------------------------------------------
(* Properties *)

\* Two addresses with the first so many bits in common.
SameNetwork(a, b, ones) ==
    \A i \in 1 .. 4 : LET size == 2 ^ (8 - NetworkBits(ones, i))
                      IN  a[i] \div size = b[i] \div size

\* The addresses of a network of at most 256 that hosts may have: neither the first
\* nor the last.
HostsOf(n) ==
    LET At(o) == [n.ip EXCEPT ![4] = o]
        all   == {o \in Octet : SameNetwork(At(o), n.ip, n.ones)}
    IN  {At(o) : o \in all \ {Min(all), Max(all)}}

Hosts == [n \in Nets |-> HostsOf(n)]

\* A scan that returns has probed every host of the networks it has read, the small
\* ones, and nothing else; its own addresses apart.  This however scans overlap,
\* share the cache, and run out of workers, and whichever networks come and go.
ScanProbesItsNetworks ==
    \A s \in Scans :
      scan[s].pc = "done" /\ (\A n \in scan[s].key : n.ones >= 24) =>
        scan[s].probed = (UNION {Hosts[n] : n \in scan[s].key}) \ scan[s].self

\* The cache holds the ranges of the addresses it is stored under, whole, whichever
\* scans have overlapped and changed their own lists since.
CacheMatchesKey ==
    networkIPsCache = Targets(networkIPsCacheKey)

=============================================================================
