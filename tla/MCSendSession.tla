--------------------------- MODULE MCSendSession ---------------------------
(* A small instance of SendSession for TLC. *)
EXTENDS SendSession


=============================================================================
