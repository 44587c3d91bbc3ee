----------------------------- MODULE MCDiscovery -----------------------------
(* A small instance of Discovery for TLC. *)
EXTENDS Discovery, TLC

CONSTANTS d1, d2, a1, a2

Addresses == (d1 :> a1) @@ (d2 :> a2)

=============================================================================
