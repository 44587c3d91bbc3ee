----------------------------- MODULE MCV1Session -----------------------------
(* Small instances of V1Session for TLC. *)
EXTENDS V1Session, TLC

CONSTANTS a1, a2, f1, f2, f3

\* Every file has names of its own.
AllNames == Files \X Copies
OwnNames == [p \in AllNames |-> p]

TwoAndOne == (a1 :> {f1, f2}) @@ (a2 :> {f3})

\* The identities of uploads are interchangeable.
UploadSymmetry == Permutations(Uploads)

=============================================================================
