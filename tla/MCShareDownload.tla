-------------------------- MODULE MCShareDownload --------------------------
(* A small instance of ShareDownload for TLC. *)
EXTENDS ShareDownload, TLC

CONSTANTS s1, p1, p2

\* Two requests for one session.
BothForOne == (p1 :> s1) @@ (p2 :> s1)

=============================================================================
