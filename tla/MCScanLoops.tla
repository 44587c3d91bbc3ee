---------------------------- MODULE MCScanLoops ----------------------------
(* Small instances of ScanLoops for TLC. *)
EXTENDS ScanLoops, TLC

CONSTANTS u1, u2, h1, h2

\* The first loops, and a pair that scan-now starts beside or after them.
TwoPairs == (u1 :> "UDP") @@ (u2 :> "UDP") @@ (h1 :> "HTTP") @@ (h2 :> "HTTP")

=============================================================================
