--------------------------- MODULE ScanTargetsProofs ---------------------------
(***************************************************************************)
(* What ScanTargets computes and keeps, for every set of interfaces,       *)
(* networks and scans: the ranges of addresses, the cache, the probes.     *)
(***************************************************************************)
EXTENDS ScanTargets, TLAPS

-----------------------------------------------------------------------------
(* The ranges *)

\* The sizes of the networks with a prefix of 24 bits or more.
Sizes == {1, 2, 4, 8, 16, 32, 64, 128, 256}

LEMMA SmallSizes ==
    ASSUME NEW ones \in 24 .. 32
    PROVE  2 ^ (32 - ones) \in Sizes
<1>1. /\ 2 ^ 0 = 1 /\ 2 ^ 1 = 2 /\ 2 ^ 2 = 4 /\ 2 ^ 3 = 8 /\ 2 ^ 4 = 16
      /\ 2 ^ 5 = 32 /\ 2 ^ 6 = 64 /\ 2 ^ 7 = 128 /\ 2 ^ 8 = 256
  OBVIOUS
<1>2. PICK k \in 0 .. 8 : k = 32 - ones
  OBVIOUS
<1>3. k = 0 \/ k = 1 \/ k = 2 \/ k = 3 \/ k = 4 \/ k = 5 \/ k = 6 \/ k = 7 \/ k = 8
  OBVIOUS
<1>4. 2 ^ k \in Sizes
  <2>1. CASE k = 0
    BY <1>1, <2>1 DEF Sizes
  <2>2. CASE k = 1
    BY <1>1, <2>2 DEF Sizes
  <2>3. CASE k = 2
    BY <1>1, <2>3 DEF Sizes
  <2>4. CASE k = 3
    BY <1>1, <2>4 DEF Sizes
  <2>5. CASE k = 4
    BY <1>1, <2>5 DEF Sizes
  <2>6. CASE k = 5
    BY <1>1, <2>6 DEF Sizes
  <2>7. CASE k = 6
    BY <1>1, <2>7 DEF Sizes
  <2>8. CASE k = 7
    BY <1>1, <2>8 DEF Sizes
  <2>9. CASE k = 8
    BY <1>1, <2>9 DEF Sizes
  <2>10. QED
    BY <1>3, <2>1, <2>2, <2>3, <2>4, <2>5, <2>6, <2>7, <2>8, <2>9
<1>5. QED
  BY <1>2, <1>4

\* The octets with the same quotient are those from the multiple of the size at or
\* below, size many.
LEMMA OctetRange ==
    ASSUME NEW o \in Octet, NEW size \in Sizes
    PROVE  LET first == o - (o % size)
           IN  /\ first \in Octet /\ first + size - 1 \in Octet
               /\ \A x \in Octet :
                    x \div size = o \div size <=> first <= x /\ x <= first + size - 1
<1>1. CASE size = 1
  BY <1>1 DEF Octet
<1>2. CASE size = 2
  BY <1>2 DEF Octet
<1>3. CASE size = 4
  BY <1>3 DEF Octet
<1>4. CASE size = 8
  BY <1>4 DEF Octet
<1>5. CASE size = 16
  BY <1>5 DEF Octet
<1>6. CASE size = 32
  BY <1>6 DEF Octet
<1>7. CASE size = 64
  BY <1>7 DEF Octet
<1>8. CASE size = 128
  BY <1>8 DEF Octet
<1>9. CASE size = 256
  BY <1>9 DEF Octet
<1>10. QED
  BY <1>1, <1>2, <1>3, <1>4, <1>5, <1>6, <1>7, <1>8, <1>9 DEF Sizes

\* The mask leaves three octets of such a network alone.
LEMMA SmallMask ==
    ASSUME NEW ones \in 24 .. 32
    PROVE  /\ \A i \in 1 .. 3 : 2 ^ (8 - NetworkBits(ones, i)) = 1
           /\ 2 ^ (8 - NetworkBits(ones, 4)) = 2 ^ (32 - ones)
<1>1. \A i \in 1 .. 3 : 8 - NetworkBits(ones, i) = 0
  BY DEF NetworkBits
<1>2. 8 - NetworkBits(ones, 4) = 32 - ones
  BY DEF NetworkBits
<1>3. 2 ^ 0 = 1
  OBVIOUS
<1>4. QED
  BY <1>1, <1>2, <1>3

LEMMA MinMaxOfRange ==
    ASSUME NEW a \in Int, NEW b \in Int, a <= b, NEW S,
           S = {x \in Octet : a <= x /\ x <= b}, a \in Octet, b \in Octet
    PROVE  Min(S) = a /\ Max(S) = b
<1>1. \A x \in S : x \in Int /\ a <= x /\ x <= b
  BY DEF Octet
<1>2. a \in S /\ b \in S
  OBVIOUS
<1>3. Min(S) \in S /\ \A y \in S : Min(S) <= y
  <2>1. \E x \in S : \A y \in S : x <= y
    BY <1>1, <1>2
  <2>2. QED
    BY <2>1, Zenon DEF Min
<1>4. Max(S) \in S /\ \A y \in S : Max(S) >= y
  <2>1. \E x \in S : \A y \in S : x >= y
    BY <1>1, <1>2
  <2>2. QED
    BY <2>1, Zenon DEF Max
<1>5. Min(S) = a
  <2>1. PICK m : m = Min(S)
    OBVIOUS
  <2>2. m \in S /\ \A y \in S : m <= y
    BY <1>3, <2>1
  <2>3. m = a
    BY <1>1, <1>2, <2>2
  <2>4. QED
    BY <2>1, <2>3
<1>6. Max(S) = b
  <2>1. PICK m : m = Max(S)
    OBVIOUS
  <2>2. m \in S /\ \A y \in S : m >= y
    BY <1>4, <2>1
  <2>3. m = b
    BY <1>1, <1>2, <2>2
  <2>4. QED
    BY <2>1, <2>3
<1>7. QED
  BY <1>5, <1>6

\* GenerateNetworkIPs makes of a network of at most 256 addresses exactly the addresses
\* that hosts may have: none is left out, and the first and the last are not among
\* them.  The mask, the count and the addition in bytes agree at every prefix length,
\* /31 and /32 with no host at all included.
THEOREM SmallNetworkHosts ==
    ASSUME NEW n, n.ip \in IP, n.ones \in 24 .. 32
    PROVE  GenerateNetworkIPs(n) = HostsOf(n)
<1> DEFINE size  == 2 ^ (32 - n.ones)
           o     == n.ip[4]
           first == o - (o % size)
           At(x) == [n.ip EXCEPT ![4] = x]
           all   == {x \in Octet : SameNetwork(At(x), n.ip, n.ones)}
<1>1. size \in Sizes
  BY SmallSizes
<1>a. size \in 1 .. 256
  <2> HIDE DEF size
  <2>1. QED
    BY <1>1 DEF Sizes
<1>2. o \in Octet /\ \A i \in 1 .. 4 : n.ip[i] \in Octet
  BY DEF IP
<1>3. /\ first \in Octet /\ first + size - 1 \in Octet
      /\ \A x \in Octet :
           x \div size = o \div size <=> first <= x /\ x <= first + size - 1
  BY <1>1, <1>2, OctetRange
<1>4. Network(n) = At(first)
  <2>1. \A x \in Octet : x - (x % 1) = x
    BY DEF Octet
  <2>2. \A i \in 1 .. 3 : Network(n)[i] = n.ip[i]
    BY <1>2, <2>1, SmallMask DEF Network
  <2>3. Network(n)[4] = first
    <3>1. 2 ^ (8 - NetworkBits(n.ones, 4)) = size
      BY SmallMask
    <3>2. Network(n)[4] = o - (o % (2 ^ (8 - NetworkBits(n.ones, 4))))
      BY DEF Network
    <3>3. QED
      BY <3>1, <3>2, Zenon
  <2>4. \A i \in 1 .. 4 : Network(n)[i] = At(first)[i]
    BY <2>2, <2>3 DEF IP
  <2>5. Network(n) = [i \in 1 .. 4 |-> Network(n)[i]]
    BY DEF Network
  <2>6. At(first) = [i \in 1 .. 4 |-> At(first)[i]]
    BY DEF IP
  <2>7. QED
    BY <2>4, <2>5, <2>6
<1>5. MaxHosts(n) = size - 2
  <2>1. CASE n.ones = 24
    <3>1. 2 ^ 8 = 256
      OBVIOUS
    <3>2. 32 - n.ones = 8
      BY <2>1
    <3>3. QED
      BY <2>1, <3>1, <3>2 DEF MaxHosts
  <2>2. CASE n.ones > 24
    BY <2>2 DEF MaxHosts
  <2>3. QED
    BY <2>1, <2>2
<1> HIDE DEF size, first
<1>6. \A i \in 1 .. MaxHosts(n) : Host(n, i) = At(first + i)
  <2>1. SUFFICES ASSUME NEW i \in 1 .. MaxHosts(n)
                 PROVE  Host(n, i) = At(first + i)
    OBVIOUS
  <2>2. i \in Int /\ 1 <= i /\ i <= size - 2
    BY <1>1, <1>5
  <2>3. (first + (i % 256)) % 256 = first + i
    <3>1. first + i \in 0 .. 255 /\ i \in 0 .. 255
      BY <1>a, <1>3, <2>2 DEF Octet
    <3>2. \A x \in 0 .. 255 : x % 256 = x
      OBVIOUS
    <3>3. QED
      BY <3>1, <3>2
  <2>4. Host(n, i) = [Network(n) EXCEPT ![4] = (@ + (i % 256)) % 256]
    BY DEF Host
  <2>5. Network(n)[4] = first
    BY <1>4 DEF IP
  <2>6. Host(n, i) = [Network(n) EXCEPT ![4] = first + i]
    BY <2>3, <2>4, <2>5
  <2>7. QED
    BY <1>4, <2>6 DEF IP
<1>7. all = {x \in Octet : first <= x /\ x <= first + size - 1}
  <2>1. SUFFICES ASSUME NEW x \in Octet
                 PROVE  SameNetwork(At(x), n.ip, n.ones) <=> x \div size = o \div size
    BY <1>3, Zenon
  <2>2. At(x)[4] = x /\ \A i \in 1 .. 3 : At(x)[i] = n.ip[i]
    BY DEF IP
  <2>3. \A y \in Octet : y \div 1 = y
    BY DEF Octet
  <2>4. \A i \in 1 .. 3 : 2 ^ (8 - NetworkBits(n.ones, i)) = 1
    BY SmallMask
  <2>5. 2 ^ (8 - NetworkBits(n.ones, 4)) = size
    BY SmallMask DEF size
  <2>6. SameNetwork(At(x), n.ip, n.ones) <=>
          \A i \in 1 .. 4 : At(x)[i] \div (2 ^ (8 - NetworkBits(n.ones, i)))
                             = n.ip[i] \div (2 ^ (8 - NetworkBits(n.ones, i)))
    BY Zenon DEF SameNetwork
  <2>7. \A i \in 1 .. 4 : i = 4 \/ i \in 1 .. 3
    OBVIOUS
  <2>8. QED
    BY <2>2, <2>4, <2>5, <2>6, <2>7
<1> HIDE DEF all
<1>8. Min(all) = first /\ Max(all) = first + size - 1
  <2>1. first \in Int /\ first + size - 1 \in Int /\ first <= first + size - 1
    BY <1>a, <1>3 DEF Octet
  <2>2. QED
    BY <1>3, <1>7, <2>1, MinMaxOfRange
<1>9. HostsOf(n) = {At(x) : x \in all \ {first, first + size - 1}}
  BY <1>8 DEF HostsOf, all
<1>10. ASSUME NEW x, x \in all \ {first, first + size - 1}
       PROVE  At(x) \in GenerateNetworkIPs(n)
  <2>1. x \in Int /\ x - first \in 1 .. MaxHosts(n) /\ first + (x - first) = x
    BY <1>a, <1>3, <1>5, <1>7, <1>10 DEF Octet
  <2>2. At(x) = Host(n, x - first)
    BY <1>6, <2>1
  <2>3. At(x) # At(first)
    <3>1. At(x)[4] = x /\ At(first)[4] = first
      BY DEF IP
    <3>2. QED
      BY <3>1, <1>10
  <2>4. QED
    BY <1>4, <2>1, <2>2, <2>3 DEF GenerateNetworkIPs
<1>11. ASSUME NEW i \in 1 .. MaxHosts(n)
       PROVE  first + i \in all \ {first, first + size - 1}
  BY <1>a, <1>3, <1>5, <1>7, <1>11 DEF Octet
<1>12. GenerateNetworkIPs(n) \subseteq HostsOf(n)
  BY <1>6, <1>9, <1>11 DEF GenerateNetworkIPs
<1>13. HostsOf(n) \subseteq GenerateNetworkIPs(n)
  BY <1>9, <1>10
<1>14. QED
  BY <1>12, <1>13

\* Of a larger network it makes the addresses that end in 1 to 254 of the first 256
\* alone, whatever address of the network the interface has: the addition never
\* carries into the third octet.
THEOREM LargeNetworkHosts ==
    ASSUME NEW n, n.ip \in IP, n.ones \in 0 .. 23
    PROVE  /\ GenerateNetworkIPs(n) = {[Network(n) EXCEPT ![4] = i] : i \in 1 .. 254}
           /\ Network(n)[4] = 0
<1>1. MaxHosts(n) = 254
  BY DEF MaxHosts
<1>2. Network(n)[4] = 0
  <2>1. NetworkBits(n.ones, 4) = 0
    BY DEF NetworkBits
  <2>2. 2 ^ (8 - 0) = 256
    <3>1. 8 - 0 = 8 /\ 2 ^ 8 = 256
      OBVIOUS
    <3>2. QED
      BY <3>1
  <2>3. \A x \in Octet : x - (x % 256) = 0
    BY DEF Octet
  <2>4. Network(n)[4] = n.ip[4] - (n.ip[4] % (2 ^ (8 - 0)))
    <3>1. Network(n)[4] = n.ip[4] - (n.ip[4] % (2 ^ (8 - NetworkBits(n.ones, 4))))
      BY DEF Network
    <3>2. QED
      BY <2>1, <3>1, Zenon
  <2>5. n.ip[4] \in Octet
    BY DEF IP
  <2>6. QED
    BY <2>2, <2>3, <2>4, <2>5
<1>3. \A i \in 1 .. 3 : Network(n)[i] \in Octet
  <2>1. ASSUME NEW i \in 1 .. 3
        PROVE  2 ^ (8 - NetworkBits(n.ones, i)) \in Sizes
    <3>1. NetworkBits(n.ones, i) \in 0 .. 8
      BY DEF NetworkBits
    <3>2. PICK m \in 24 .. 32 : 32 - m = 8 - NetworkBits(n.ones, i)
      <4>1. 24 + NetworkBits(n.ones, i) \in 24 .. 32
            /\ 32 - (24 + NetworkBits(n.ones, i)) = 8 - NetworkBits(n.ones, i)
        BY <3>1
      <4>2. QED
        BY <4>1
    <3>3. QED
      BY <3>2, SmallSizes
  <2>2. SUFFICES ASSUME NEW i \in 1 .. 3
                 PROVE  Network(n)[i] \in Octet
    OBVIOUS
  <2>3. PICK size \in Sizes : size = 2 ^ (8 - NetworkBits(n.ones, i))
    BY <2>1
  <2>4. Network(n)[i] = n.ip[i] - (n.ip[i] % size)
    BY <2>3 DEF Network
  <2>5. n.ip[i] \in Octet
    BY DEF IP
  <2>6. QED
    BY <2>4, <2>5, OctetRange
<1>4. \A i \in 1 .. 254 : Host(n, i) = [Network(n) EXCEPT ![4] = i]
  <2>1. SUFFICES ASSUME NEW i \in 1 .. 254
                 PROVE  Host(n, i) = [Network(n) EXCEPT ![4] = i]
    OBVIOUS
  <2>2. /\ (0 + (i % 256)) % 256 = i
        /\ i \div 256 = 0 /\ i \div 65536 = 0
    OBVIOUS
  <2>3. \A x \in Octet : (x + (0 % 256)) % 256 = x
    BY DEF Octet
  <2>4. \A k \in 1 .. 3 : (Network(n)[k] + (0 % 256)) % 256 = Network(n)[k]
    BY <1>3, <2>3
  <2>5. DOMAIN Network(n) = 1 .. 4 /\ Network(n) = [k \in 1 .. 4 |-> Network(n)[k]]
    BY DEF Network
  <2>6. PICK net : net = Network(n)
    OBVIOUS
  <2>7. net \in [1 .. 4 -> Octet]
    <3>1. \A k \in 1 .. 4 : net[k] \in Octet
      BY <1>2, <1>3, <2>6 DEF Octet
    <3>2. QED
      BY <2>5, <2>6, <3>1
  <2>8. PICK last, third, second :
          /\ last = (net[4] + (i % 256)) % 256
          /\ third = (net[3] + ((i \div 256) % 256)) % 256
          /\ second = (net[2] + ((i \div 65536) % 256)) % 256
    OBVIOUS
  <2>9. last = i /\ third = net[3] /\ second = net[2]
    BY <1>2, <2>2, <2>4, <2>6, <2>8
  <2>10. CASE n.ones \in 16 .. 23
    <3>1. Host(n, i) = [net EXCEPT ![4] = (net[4] + (i % 256)) % 256,
                                   ![3] = (net[3] + ((i \div 256) % 256)) % 256]
      BY <2>5, <2>6, <2>10 DEF Host
    <3>2. Host(n, i) = [net EXCEPT ![4] = last, ![3] = third]
      BY <2>8, <3>1
    <3>3. [net EXCEPT ![4] = last, ![3] = third] = [net EXCEPT ![4] = last]
      <4>1. \A k \in 1 .. 4 : [net EXCEPT ![4] = last, ![3] = third][k]
                              = [net EXCEPT ![4] = last][k]
        BY <2>7, <2>9
      <4>2. QED
        BY <2>7, <4>1
    <3>4. QED
      BY <2>6, <2>9, <3>2, <3>3
  <2>11. CASE n.ones < 16
    <3>1. Host(n, i) = [net EXCEPT ![4] = (net[4] + (i % 256)) % 256,
                                   ![3] = (net[3] + ((i \div 256) % 256)) % 256,
                                   ![2] = (net[2] + ((i \div 65536) % 256)) % 256]
      BY <2>5, <2>6, <2>11 DEF Host
    <3>2. Host(n, i) = [net EXCEPT ![4] = last, ![3] = third, ![2] = second]
      BY <2>8, <3>1
    <3>3. [net EXCEPT ![4] = last, ![3] = third, ![2] = second] = [net EXCEPT ![4] = last]
      <4>1. \A k \in 1 .. 4 : [net EXCEPT ![4] = last, ![3] = third, ![2] = second][k]
                              = [net EXCEPT ![4] = last][k]
        BY <2>7, <2>9
      <4>2. QED
        BY <2>7, <4>1
    <3>4. QED
      BY <2>6, <2>9, <3>2, <3>3
  <2>12. QED
    BY <2>10, <2>11
<1>5. \A i \in 1 .. 254 : [Network(n) EXCEPT ![4] = i] # Network(n)
  <2>1. \A i \in 1 .. 254 : [Network(n) EXCEPT ![4] = i][4] = i
    BY DEF Network
  <2>2. \A i \in 1 .. 254 : i # 0
    OBVIOUS
  <2>3. QED
    BY <1>2, <2>1, <2>2
<1>6. GenerateNetworkIPs(n) = {Host(n, i) : i \in 1 .. 254} \ {Network(n)}
  BY <1>1 DEF GenerateNetworkIPs
<1>7. {Host(n, i) : i \in 1 .. 254} = {[Network(n) EXCEPT ![4] = i] : i \in 1 .. 254}
  BY <1>4, Zenon
<1>8. Network(n) \notin {[Network(n) EXCEPT ![4] = i] : i \in 1 .. 254}
  BY <1>5
<1>9. QED
  BY <1>2, <1>6, <1>7, <1>8, Zenon

-----------------------------------------------------------------------------
(* The cache *)

LEMMA CacheStep == CacheMatchesKey /\ [Next]_vars => CacheMatchesKey'
<1>1. SUFFICES ASSUME CacheMatchesKey, [Next]_vars
               PROVE  CacheMatchesKey'
  OBVIOUS
<1>2. CASE UNCHANGED <<networkIPsCacheKey, networkIPsCache>>
  BY <1>1, <1>2 DEF CacheMatchesKey
<1>3. ASSUME NEW s \in Scans, ScanGenerate(s)
      PROVE  CacheMatchesKey'
  BY <1>3 DEF ScanGenerate, CacheMatchesKey
<1>4. QED
  BY <1>1, <1>2, <1>3
     DEF vars, Next, NetworkChanges, ScanStart, ScanStep, ScanLookup, ScanFilter,
         CacheAfterFilter, ProbeStart, ProbeEnd, ScanReturn

\* ScanTargets leaves what a scan does with its own list to the list; the cached list
\* is written only where it is made, together with its key.
THEOREM CacheKept == Spec => []CacheMatchesKey
<1>1. Init => CacheMatchesKey
  BY DEF Init, CacheMatchesKey, Targets
<1>2. CacheMatchesKey /\ [Next]_vars => CacheMatchesKey'
  BY CacheStep
<1>3. QED
  BY <1>1, <1>2, PTL DEF Spec

-----------------------------------------------------------------------------
(* The scans *)

Before == {"idle", "lookup", "generate", "filter"}

\* What a scan has to do with its targets: nothing before it has them, and from then
\* on every target is in one of three places, to be probed, being probed, or probed.
ScanInv(r) ==
    /\ r.pc \in Before => r.probing = {} /\ r.probed = {}
    /\ r.pc = "filter" => r.targets = Targets(r.key)
    /\ r.pc \in {"probe", "done"} => r.targets = Targets(r.key) \ r.self
    /\ r.probing \subseteq r.targets /\ r.probed \subseteq r.targets
    /\ r.probing \cap r.probed = {}
    /\ r.pc = "done" => r.probed = r.targets

IInv ==
    /\ TypeOK
    /\ CacheMatchesKey
    /\ \A s \in Scans : ScanInv(scan[s])

LEMMA TargetsType ==
    ASSUME NEW key \in SUBSET Nets
    PROVE  Targets(key) \subseteq AllIPs
BY DEF Targets, AllIPs

LEMMA ChosenType ==
    ASSUME TypeOK
    PROVE  ChosenAddrs \in SUBSET Nets /\ LocalIPs \in SUBSET {n.ip : n \in Nets}
<1>1. \A i \in Interfaces : addrs[i] \in SUBSET Nets
  BY DEF TypeOK
<1>2. QED
  BY <1>1 DEF ChosenAddrs, ChosenInterfaces, LocalIPs

\* One scan takes a step.
LEMMA OneScan ==
    ASSUME IInv, NEW s \in Scans, NEW r, r \in Scan, ScanInv(r),
           scan' = [scan EXCEPT ![s] = r],
           addrs' = addrs, moves' = moves,
           networkIPsCacheKey' \subseteq Nets, networkIPsCache' \subseteq AllIPs,
           CacheMatchesKey'
    PROVE  IInv'
<1>1. TypeOK'
  BY DEF IInv, TypeOK
<1>2. \A t \in Scans : ScanInv(scan'[t])
  <2>1. \A t \in Scans : scan'[t] = IF t = s THEN r ELSE scan[t]
    BY DEF IInv, TypeOK
  <2>2. QED
    BY <2>1, Zenon DEF IInv
<1>3. QED
  BY <1>1, <1>2 DEF IInv

LEMMA InitInv == Init => IInv
<1>1. SUFFICES ASSUME Init
               PROVE  IInv
  OBVIOUS
<1> DEFINE r == [pc |-> "idle", key |-> {}, targets |-> {},
                 self |-> {}, probing |-> {}, probed |-> {}]
<1>2. r \in Scan
  BY Zenon DEF Scan, ScanPC
<1>3. ScanInv(r)
  BY DEF ScanInv, Before
<1> HIDE DEF r
<1>4. scan = [s \in Scans |-> r]
  BY <1>1 DEF Init, r
<1>5. TypeOK
  <2>1. moves \in 0 .. MaxMoves
    BY <1>1, ConstantsAssumption DEF Init
  <2>2. QED
    BY <1>1, <1>2, <1>4, <2>1 DEF Init, TypeOK
<1>6. CacheMatchesKey
  BY <1>1 DEF Init, CacheMatchesKey, Targets
<1>7. QED
  BY <1>3, <1>4, <1>5, <1>6 DEF IInv

LEMMA NextInv == IInv /\ [Next]_vars => IInv'
<1>1. SUFFICES ASSUME IInv, [Next]_vars
               PROVE  IInv'
  OBVIOUS
<1>2. CacheMatchesKey'
  BY <1>1, CacheStep DEF IInv
<1>3. CASE UNCHANGED vars
  BY <1>1, <1>2, <1>3 DEF IInv, TypeOK, vars
<1>4. ASSUME NEW i \in Interfaces, NetworkChanges(i)
      PROVE  IInv'
  <2>1. moves' \in 0 .. MaxMoves
    BY <1>1, <1>4, ConstantsAssumption DEF IInv, TypeOK, NetworkChanges
  <2>2. addrs' \in [Interfaces -> {{}} \cup {{n} : n \in Nets}]
    BY <1>1, <1>4 DEF IInv, TypeOK, NetworkChanges
  <2>3. QED
    BY <1>1, <1>2, <1>4, <2>1, <2>2 DEF IInv, TypeOK, NetworkChanges
<1>5. ASSUME NEW s \in Scans, ScanStart(s) \/ ScanStep(s)
      PROVE  IInv'
  <2>1. /\ TypeOK /\ scan[s] \in Scan /\ ScanInv(scan[s])
        /\ networkIPsCacheKey \subseteq Nets /\ networkIPsCache \subseteq AllIPs
        /\ scan \in [Scans -> Scan]
    BY <1>1 DEF IInv, TypeOK
  <2>2. PICK q \in Scan : q = scan[s]
    BY <2>1
  <2>3. /\ q.pc \in ScanPC /\ q.key \in SUBSET Nets /\ q.targets \in SUBSET AllIPs
        /\ q.self \in SUBSET {n.ip : n \in Nets} /\ q.probing \in SUBSET AllIPs
        /\ q.probed \in SUBSET AllIPs
    BY Zenon DEF Scan
  <2>4. ScanInv(q)
    BY <2>1, <2>2
  <2>5. Targets(q.key) \in SUBSET AllIPs
    BY <2>3, TargetsType
  <2>a. networkIPsCache = Targets(networkIPsCacheKey)
    BY <1>1 DEF IInv, CacheMatchesKey
  <2>b. q = [pc |-> q.pc, key |-> q.key, targets |-> q.targets, self |-> q.self,
             probing |-> q.probing, probed |-> q.probed]
    BY DEF Scan
  <2>6. ASSUME ScanStart(s)
        PROVE  IInv'
    <3> DEFINE r == [pc |-> IF ChosenInterfaces = {} THEN "failed" ELSE "lookup",
                     key |-> ChosenAddrs,
                     targets |-> q.targets, self |-> q.self,
                     probing |-> q.probing, probed |-> q.probed]
    <3>1. q.pc = "idle"
      BY <2>1, <2>2, <2>6 DEF ScanStart
    <3>2. scan' = [scan EXCEPT ![s] = r]
      <4>1. scan' = [scan EXCEPT ![s] =
              [q EXCEPT !.pc = IF ChosenInterfaces = {} THEN "failed" ELSE "lookup",
               !.key = ChosenAddrs]]
        BY <2>1, <2>2, <2>6 DEF ScanStart
      <4>2. PICK q1 :
              q1 = [q EXCEPT !.pc = IF ChosenInterfaces = {} THEN "failed" ELSE "lookup"]
        OBVIOUS
      <4>3. q1 = [pc |-> IF ChosenInterfaces = {} THEN "failed" ELSE "lookup",
                  key |-> q.key, targets |-> q.targets,
             self |-> q.self, probing |-> q.probing, probed |-> q.probed]
        BY <2>b, <4>2
      <4>4. [q1 EXCEPT !.key = ChosenAddrs] = r
        BY <4>3
      <4>5. QED
        BY <4>1, <4>2, <4>4
    <3>3. /\ r.pc = IF ChosenInterfaces = {} THEN "failed" ELSE "lookup"
          /\ r.key = ChosenAddrs
          /\ r.targets = q.targets
          /\ r.self = q.self
          /\ r.probing = q.probing
          /\ r.probed = q.probed
      BY DEF Scan
    <3>4. /\ r.pc \in ScanPC /\ r.key \in SUBSET Nets /\ r.targets \in SUBSET AllIPs
          /\ r.self \in SUBSET {n.ip : n \in Nets} /\ r.probing \in SUBSET AllIPs
          /\ r.probed \in SUBSET AllIPs
      BY <2>1, <2>3, <2>5, <3>1, <3>3, ChosenType DEF ScanPC
    <3>5. r \in Scan
      BY <3>4, Zenon DEF Scan
    <3>6. ScanInv(r)
      BY <2>4, <3>1, <3>3 DEF ScanInv, Before
    <3> HIDE DEF r
    <3>7. addrs' = addrs /\ moves' = moves /\ networkIPsCacheKey' \subseteq Nets
          /\ networkIPsCache' \subseteq AllIPs
      BY <2>1, <2>6 DEF ScanStart
    <3>8. QED
      BY <1>1, <1>2, <3>2, <3>5, <3>6, <3>7, OneScan
  <2>7. ASSUME ScanLookup(s), CacheHit(s)
        PROVE  IInv'
    <3> DEFINE r == [pc |-> "filter", key |-> q.key,
                     targets |-> networkIPsCache, self |-> q.self,
                     probing |-> q.probing, probed |-> q.probed]
    <3>1. q.pc = "lookup" /\ networkIPsCache = Targets(q.key)
      BY <2>1, <2>2, <2>7, <2>a DEF ScanLookup, CacheHit
    <3>2. scan' = [scan EXCEPT ![s] = r]
      <4>1. scan' = [scan EXCEPT ![s] =
              [q EXCEPT !.pc = "filter", !.targets = networkIPsCache]]
        BY <2>1, <2>2, <2>7 DEF ScanLookup, CacheHit
      <4>2. PICK q1 : q1 = [q EXCEPT !.pc = "filter"]
        OBVIOUS
      <4>3. q1 = [pc |-> "filter", key |-> q.key, targets |-> q.targets,
             self |-> q.self, probing |-> q.probing, probed |-> q.probed]
        BY <2>b, <4>2
      <4>4. [q1 EXCEPT !.targets = networkIPsCache] = r
        BY <4>3
      <4>5. QED
        BY <4>1, <4>2, <4>4
    <3>3. /\ r.pc = "filter"
          /\ r.key = q.key
          /\ r.targets = networkIPsCache
          /\ r.self = q.self
          /\ r.probing = q.probing
          /\ r.probed = q.probed
      BY DEF Scan
    <3>4. /\ r.pc \in ScanPC /\ r.key \in SUBSET Nets /\ r.targets \in SUBSET AllIPs
          /\ r.self \in SUBSET {n.ip : n \in Nets} /\ r.probing \in SUBSET AllIPs
          /\ r.probed \in SUBSET AllIPs
      BY <2>1, <2>3, <2>5, <3>1, <3>3 DEF ScanPC
    <3>5. r \in Scan
      BY <3>4, Zenon DEF Scan
    <3>6. ScanInv(r)
      BY <2>4, <3>1, <3>3 DEF ScanInv, Before
    <3> HIDE DEF r
    <3>7. addrs' = addrs /\ moves' = moves /\ networkIPsCacheKey' \subseteq Nets
          /\ networkIPsCache' \subseteq AllIPs
      BY <2>1, <2>7 DEF ScanLookup, CacheHit
    <3>8. QED
      BY <1>1, <1>2, <3>2, <3>5, <3>6, <3>7, OneScan
  <2>8. ASSUME ScanLookup(s), ~CacheHit(s)
        PROVE  IInv'
    <3> DEFINE r == [pc |-> "generate", key |-> q.key,
                     targets |-> q.targets, self |-> q.self,
                     probing |-> q.probing, probed |-> q.probed]
    <3>1. q.pc = "lookup"
      BY <2>1, <2>2, <2>8 DEF ScanLookup
    <3>2. scan' = [scan EXCEPT ![s] = r]
      <4>1. scan' = [scan EXCEPT ![s] =
              [q EXCEPT !.pc = "generate"]]
        BY <2>1, <2>2, <2>8 DEF ScanLookup
      <4>2. [q EXCEPT !.pc = "generate"] = r
        BY <2>b
      <4>3. QED
        BY <4>1, <4>2
    <3>3. /\ r.pc = "generate"
          /\ r.key = q.key
          /\ r.targets = q.targets
          /\ r.self = q.self
          /\ r.probing = q.probing
          /\ r.probed = q.probed
      BY DEF Scan
    <3>4. /\ r.pc \in ScanPC /\ r.key \in SUBSET Nets /\ r.targets \in SUBSET AllIPs
          /\ r.self \in SUBSET {n.ip : n \in Nets} /\ r.probing \in SUBSET AllIPs
          /\ r.probed \in SUBSET AllIPs
      BY <2>1, <2>3, <2>5, <3>1, <3>3 DEF ScanPC
    <3>5. r \in Scan
      BY <3>4, Zenon DEF Scan
    <3>6. ScanInv(r)
      BY <2>4, <3>1, <3>3 DEF ScanInv, Before
    <3> HIDE DEF r
    <3>7. addrs' = addrs /\ moves' = moves /\ networkIPsCacheKey' \subseteq Nets
          /\ networkIPsCache' \subseteq AllIPs
      BY <2>1, <2>8 DEF ScanLookup
    <3>8. QED
      BY <1>1, <1>2, <3>2, <3>5, <3>6, <3>7, OneScan
  <2>9. ASSUME ScanGenerate(s)
        PROVE  IInv'
    <3> DEFINE r == [pc |-> "filter", key |-> q.key,
                     targets |-> Targets(q.key), self |-> q.self,
                     probing |-> q.probing, probed |-> q.probed]
    <3>1. q.pc = "generate"
      BY <2>1, <2>2, <2>9 DEF ScanGenerate
    <3>2. scan' = [scan EXCEPT ![s] = r]
      <4>1. scan' = [scan EXCEPT ![s] =
              [q EXCEPT !.pc = "filter", !.targets = Targets(q.key)]]
        BY <2>1, <2>2, <2>9 DEF ScanGenerate
      <4>2. PICK q1 : q1 = [q EXCEPT !.pc = "filter"]
        OBVIOUS
      <4>3. q1 = [pc |-> "filter", key |-> q.key, targets |-> q.targets,
             self |-> q.self, probing |-> q.probing, probed |-> q.probed]
        BY <2>b, <4>2
      <4>4. [q1 EXCEPT !.targets = Targets(q.key)] = r
        BY <4>3
      <4>5. QED
        BY <4>1, <4>2, <4>4
    <3>3. /\ r.pc = "filter"
          /\ r.key = q.key
          /\ r.targets = Targets(q.key)
          /\ r.self = q.self
          /\ r.probing = q.probing
          /\ r.probed = q.probed
      BY DEF Scan
    <3>4. /\ r.pc \in ScanPC /\ r.key \in SUBSET Nets /\ r.targets \in SUBSET AllIPs
          /\ r.self \in SUBSET {n.ip : n \in Nets} /\ r.probing \in SUBSET AllIPs
          /\ r.probed \in SUBSET AllIPs
      BY <2>1, <2>3, <2>5, <3>1, <3>3 DEF ScanPC
    <3>5. r \in Scan
      BY <3>4, Zenon DEF Scan
    <3>6. ScanInv(r)
      BY <2>4, <3>1, <3>3 DEF ScanInv, Before
    <3> HIDE DEF r
    <3>7. addrs' = addrs /\ moves' = moves /\ networkIPsCacheKey' \subseteq Nets
          /\ networkIPsCache' \subseteq AllIPs
      BY <2>2, <2>3, <2>5, <2>9 DEF ScanGenerate
    <3>8. QED
      BY <1>1, <1>2, <3>2, <3>5, <3>6, <3>7, OneScan
  <2>10. ASSUME ScanFilter(s)
        PROVE  IInv'
    <3> DEFINE r == [pc |-> IF q.targets = {} THEN "failed" ELSE "probe", key |-> q.key,
                     targets |-> q.targets \ LocalIPs, self |-> LocalIPs,
                     probing |-> q.probing, probed |-> q.probed]
    <3>1. q.pc = "filter"
      BY <2>1, <2>2, <2>10 DEF ScanFilter, CacheAfterFilter
    <3>2. scan' = [scan EXCEPT ![s] = r]
      <4>1. scan' = [scan EXCEPT ![s] =
              [q EXCEPT !.pc = IF q.targets = {} THEN "failed" ELSE "probe",
               !.targets = q.targets \ LocalIPs, !.self = LocalIPs]]
        BY <2>1, <2>2, <2>10 DEF ScanFilter, CacheAfterFilter
      <4>2. PICK q1 : q1 = [q EXCEPT !.pc = IF q.targets = {} THEN "failed" ELSE "probe"]
        OBVIOUS
      <4>3. q1 = [pc |-> IF q.targets = {} THEN "failed" ELSE "probe", key |-> q.key,
                  targets |-> q.targets,
             self |-> q.self, probing |-> q.probing, probed |-> q.probed]
        BY <2>b, <4>2
      <4>4. PICK q2 : q2 = [q1 EXCEPT !.targets = q.targets \ LocalIPs]
        OBVIOUS
      <4>5. q2 = [pc |-> IF q.targets = {} THEN "failed" ELSE "probe", key |-> q.key,
                  targets |-> q.targets \ LocalIPs,
             self |-> q.self, probing |-> q.probing, probed |-> q.probed]
        BY <4>3, <4>4
      <4>6. [q2 EXCEPT !.self = LocalIPs] = r
        BY <4>5
      <4>7. QED
        BY <4>1, <4>2, <4>4, <4>6
    <3>3. /\ r.pc = IF q.targets = {} THEN "failed" ELSE "probe"
          /\ r.key = q.key
          /\ r.targets = q.targets \ LocalIPs
          /\ r.self = LocalIPs
          /\ r.probing = q.probing
          /\ r.probed = q.probed
      BY DEF Scan
    <3>4. /\ r.pc \in ScanPC /\ r.key \in SUBSET Nets /\ r.targets \in SUBSET AllIPs
          /\ r.self \in SUBSET {n.ip : n \in Nets} /\ r.probing \in SUBSET AllIPs
          /\ r.probed \in SUBSET AllIPs
      BY <2>1, <2>3, <2>5, <3>1, <3>3, ChosenType DEF ScanPC
    <3>5. r \in Scan
      BY <3>4, Zenon DEF Scan
    <3>6. ScanInv(r)
      BY <2>4, <3>1, <3>3 DEF ScanInv, Before
    <3> HIDE DEF r
    <3>7. addrs' = addrs /\ moves' = moves /\ networkIPsCacheKey' \subseteq Nets
          /\ networkIPsCache' \subseteq AllIPs
      BY <2>1, <2>10 DEF ScanFilter, CacheAfterFilter
    <3>8. QED
      BY <1>1, <1>2, <3>2, <3>5, <3>6, <3>7, OneScan
  <2>11. ASSUME ScanReturn(s)
        PROVE  IInv'
    <3> DEFINE r == [pc |-> "done", key |-> q.key,
                     targets |-> q.targets, self |-> q.self,
                     probing |-> q.probing, probed |-> q.probed]
    <3>1. q.pc = "probe" /\ q.probed = q.targets
      BY <2>1, <2>2, <2>11 DEF ScanReturn, AllProbed
    <3>2. scan' = [scan EXCEPT ![s] = r]
      <4>1. scan' = [scan EXCEPT ![s] =
              [q EXCEPT !.pc = "done"]]
        BY <2>1, <2>2, <2>11 DEF ScanReturn, AllProbed
      <4>2. [q EXCEPT !.pc = "done"] = r
        BY <2>b
      <4>3. QED
        BY <4>1, <4>2
    <3>3. /\ r.pc = "done"
          /\ r.key = q.key
          /\ r.targets = q.targets
          /\ r.self = q.self
          /\ r.probing = q.probing
          /\ r.probed = q.probed
      BY DEF Scan
    <3>4. /\ r.pc \in ScanPC /\ r.key \in SUBSET Nets /\ r.targets \in SUBSET AllIPs
          /\ r.self \in SUBSET {n.ip : n \in Nets} /\ r.probing \in SUBSET AllIPs
          /\ r.probed \in SUBSET AllIPs
      BY <2>1, <2>3, <2>5, <3>1, <3>3 DEF ScanPC
    <3>5. r \in Scan
      BY <3>4, Zenon DEF Scan
    <3>6. ScanInv(r)
      BY <2>4, <3>1, <3>3 DEF ScanInv, Before
    <3> HIDE DEF r
    <3>7. addrs' = addrs /\ moves' = moves /\ networkIPsCacheKey' \subseteq Nets
          /\ networkIPsCache' \subseteq AllIPs
      BY <2>1, <2>11 DEF ScanReturn, AllProbed
    <3>8. QED
      BY <1>1, <1>2, <3>2, <3>5, <3>6, <3>7, OneScan
  <2>12. ASSUME NEW ip \in scan[s].targets, ProbeStart(s, ip)
        PROVE  IInv'
    <3> DEFINE r == [pc |-> q.pc, key |-> q.key,
                     targets |-> q.targets, self |-> q.self,
                     probing |-> q.probing \cup {ip}, probed |-> q.probed]
    <3>1. q.pc = "probe" /\ ip \in q.targets \ (q.probing \cup q.probed)
      BY <2>1, <2>2, <2>12 DEF ProbeStart
    <3>2. scan' = [scan EXCEPT ![s] = r]
      <4>1. scan' = [scan EXCEPT ![s] =
              [q EXCEPT !.probing = q.probing \cup {ip}]]
        BY <2>1, <2>2, <2>12 DEF ProbeStart
      <4>2. [q EXCEPT !.probing = q.probing \cup {ip}] = r
        BY <2>b
      <4>3. QED
        BY <4>1, <4>2
    <3>3. /\ r.pc = q.pc
          /\ r.key = q.key
          /\ r.targets = q.targets
          /\ r.self = q.self
          /\ r.probing = q.probing \cup {ip}
          /\ r.probed = q.probed
      BY DEF Scan
    <3>4. /\ r.pc \in ScanPC /\ r.key \in SUBSET Nets /\ r.targets \in SUBSET AllIPs
          /\ r.self \in SUBSET {n.ip : n \in Nets} /\ r.probing \in SUBSET AllIPs
          /\ r.probed \in SUBSET AllIPs
      BY <2>1, <2>3, <2>5, <3>1, <3>3 DEF ScanPC
    <3>5. r \in Scan
      BY <3>4, Zenon DEF Scan
    <3>6. ScanInv(r)
      BY <2>4, <3>1, <3>3 DEF ScanInv, Before
    <3> HIDE DEF r
    <3>7. addrs' = addrs /\ moves' = moves /\ networkIPsCacheKey' \subseteq Nets
          /\ networkIPsCache' \subseteq AllIPs
      BY <2>1, <2>12 DEF ProbeStart
    <3>8. QED
      BY <1>1, <1>2, <3>2, <3>5, <3>6, <3>7, OneScan
  <2>13. ASSUME NEW ip \in scan[s].targets, ProbeEnd(s, ip)
        PROVE  IInv'
    <3> DEFINE r == [pc |-> q.pc, key |-> q.key,
                     targets |-> q.targets, self |-> q.self,
                     probing |-> q.probing \ {ip}, probed |-> q.probed \cup {ip}]
    <3>1. ip \in q.probing
      BY <2>1, <2>2, <2>13 DEF ProbeEnd
    <3>2. scan' = [scan EXCEPT ![s] = r]
      <4>1. scan' = [scan EXCEPT ![s] =
              [q EXCEPT !.probing = q.probing \ {ip}, !.probed = q.probed \cup {ip}]]
        BY <2>1, <2>2, <2>13 DEF ProbeEnd
      <4>2. PICK q1 : q1 = [q EXCEPT !.probing = q.probing \ {ip}]
        OBVIOUS
      <4>3. q1 = [pc |-> q.pc, key |-> q.key, targets |-> q.targets,
             self |-> q.self, probing |-> q.probing \ {ip}, probed |-> q.probed]
        BY <2>b, <4>2
      <4>4. [q1 EXCEPT !.probed = q.probed \cup {ip}] = r
        BY <4>3
      <4>5. QED
        BY <4>1, <4>2, <4>4
    <3>3. /\ r.pc = q.pc
          /\ r.key = q.key
          /\ r.targets = q.targets
          /\ r.self = q.self
          /\ r.probing = q.probing \ {ip}
          /\ r.probed = q.probed \cup {ip}
      BY DEF Scan
    <3>4. /\ r.pc \in ScanPC /\ r.key \in SUBSET Nets /\ r.targets \in SUBSET AllIPs
          /\ r.self \in SUBSET {n.ip : n \in Nets} /\ r.probing \in SUBSET AllIPs
          /\ r.probed \in SUBSET AllIPs
      BY <2>1, <2>3, <2>5, <3>1, <3>3 DEF ScanPC
    <3>5. r \in Scan
      BY <3>4, Zenon DEF Scan
    <3>6. ScanInv(r)
      BY <2>4, <3>1, <3>3 DEF ScanInv, Before
    <3> HIDE DEF r
    <3>7. addrs' = addrs /\ moves' = moves /\ networkIPsCacheKey' \subseteq Nets
          /\ networkIPsCache' \subseteq AllIPs
      BY <2>1, <2>13 DEF ProbeEnd
    <3>8. QED
      BY <1>1, <1>2, <3>2, <3>5, <3>6, <3>7, OneScan
  <2>14. QED
    BY <1>5, <2>6, <2>7, <2>8, <2>9, <2>10, <2>11, <2>12, <2>13 DEF ScanStep
<1>6. QED
  BY <1>1, <1>3, <1>4, <1>5 DEF Next

\* The invariant is inductive: the cache is made in one step with its key, and a scan
\* takes its targets from it, strikes its own addresses out of a list of its own and
\* moves every target from to be probed to probed.
THEOREM ScanInvariant == Spec => []IInv
BY InitInv, NextInv, PTL DEF Spec

\* The addresses and the sets of addresses are what their types say, however networks
\* come and go.
THEOREM TypeCorrect == Spec => []TypeOK
<1>1. IInv => TypeOK
  BY DEF IInv
<1>2. QED
  BY <1>1, ScanInvariant, PTL

\* A scan that returns has probed the hosts of the networks it has read, each of them
\* and no other address, its own apart.
THEOREM ScansComplete == Spec => []ScanProbesItsNetworks
<1>1. IInv => ScanProbesItsNetworks
  <2>0. SUFFICES ASSUME IInv
                 PROVE  ScanProbesItsNetworks
    OBVIOUS
  <2>1. SUFFICES ASSUME NEW s \in Scans, scan[s].pc = "done",
                        \A n \in scan[s].key : n.ones >= 24
                 PROVE  scan[s].probed
                          = (UNION {Hosts[n] : n \in scan[s].key}) \ scan[s].self
    BY Zenon DEF ScanProbesItsNetworks
  <2>2. scan[s].key \in SUBSET Nets
    <3>1. scan[s] \in Scan
      BY <2>0 DEF IInv, TypeOK
    <3>2. QED
      BY <3>1, Zenon DEF Scan
  <2>3. \A n \in scan[s].key : NetworkIPs[n] = Hosts[n]
    <3>1. SUFFICES ASSUME NEW n \in scan[s].key
                   PROVE  NetworkIPs[n] = Hosts[n]
      OBVIOUS
    <3>2. n \in Nets /\ n.ip \in IP /\ n.ones \in 24 .. 32
      <4>1. n \in Nets /\ n.ip \in IP /\ n.ones \in 0 .. 32 /\ n.ones >= 24
        BY <2>1, <2>2, ConstantsAssumption
      <4>2. QED
        BY <4>1
    <3>3. GenerateNetworkIPs(n) = HostsOf(n)
      BY <3>2, SmallNetworkHosts
    <3>4. QED
      BY <3>2, <3>3 DEF NetworkIPs, Hosts
  <2>4. Targets(scan[s].key) = UNION {Hosts[n] : n \in scan[s].key}
    BY <2>3 DEF Targets
  <2>5. scan[s].probed = Targets(scan[s].key) \ scan[s].self
    BY <2>0, <2>1 DEF IInv, ScanInv
  <2>6. QED
    BY <2>4, <2>5
<1>2. QED
  BY <1>1, ScanInvariant, PTL

=============================================================================
