-------------------------- MODULE MCPrepareUpload --------------------------
(* A small instance of PrepareUpload for TLC. *)
EXTENDS PrepareUpload, TLC

CONSTANTS d1, p1, p2

\* Two requests from one device.
FromOne == (p1 :> d1) @@ (p2 :> d1)

\* The user is asked unless the device is a favorite; nobody is asked.
AskOrSave == {[pin |-> TRUE, autoSave |-> FALSE, fromFavorites |-> TRUE],
              [pin |-> FALSE, autoSave |-> TRUE, fromFavorites |-> FALSE]}

=============================================================================
