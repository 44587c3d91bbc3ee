-------------------------- MODULE MCReceiveSession --------------------------
(* Small instances of ReceiveSession for TLC. *)
EXTENDS ReceiveSession, TLC

CONSTANTS f1, f2, n1, n2, n3

\* Every file has names of its own.
AllNames == Files \X Copies
OwnNames == [p \in AllNames |-> p]

\* Two files of the same name, as from two folders: a.txt, and for the second one
\* a-2.txt.
SameName == (<<f1, 1>> :> n1) @@ (<<f1, 2>> :> n2) @@ (<<f2, 1>> :> n1) @@ (<<f2, 2>> :> n2)

\* A file has the name that a second copy of the other one gets: a.txt, a-2.txt,
\* a-2-2.txt.
OneIsTheOthersCopy ==
    (<<f1, 1>> :> n1) @@ (<<f1, 2>> :> n2) @@ (<<f2, 1>> :> n2) @@ (<<f2, 2>> :> n3)

\* The identities of uploads are interchangeable.
UploadSymmetry == Permutations(Uploads)

=============================================================================
