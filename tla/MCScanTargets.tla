---------------------------- MODULE MCScanTargets ----------------------------
(* A small instance of ScanTargets for TLC. *)
EXTENDS ScanTargets, TLC

\* Two addresses of one network of two, one of another, and a network without room.
SmallNets == {[ip |-> <<192, 168, 3, 5>>, ones |-> 30],
              [ip |-> <<192, 168, 3, 6>>, ones |-> 30],
              [ip |-> <<10, 0, 0, 254>>, ones |-> 30],
              [ip |-> <<10, 0, 1, 8>>, ones |-> 31]}

\* Ranges by prefix length: as the reference says up to 256 addresses, and the first
\* 254 of larger networks.
ASSUME RangesAreRight ==
    \A ones \in 0 .. 32, o \in {0, 1, 77, 128, 254, 255} :
      LET n == [ip |-> <<172, 16, 255, o>>, ones |-> ones]
      IN  IF ones >= 24 THEN GenerateNetworkIPs(n) = HostsOf(n)
          ELSE GenerateNetworkIPs(n) = HostsOf([ip |-> Network(n), ones |-> 24])

\* The identities of scans are interchangeable.
ScanSymmetry == Permutations(Scans)

=============================================================================
