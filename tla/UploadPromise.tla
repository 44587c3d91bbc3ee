--------------------------- MODULE UploadPromise ---------------------------
(***************************************************************************)
(* What becomes of a session that a sender was given: a file that was      *)
(* received, or has failed, is no longer left; the upload that leaves none *)
(* completes the session, and then its end is told, once.  Or the session  *)
(* is removed before that, and its end is never told.  Nothing comes back. *)
(* ReceiveSession implements it.                                           *)
(***************************************************************************)
CONSTANTS
    Sessions,
    Files,
    Uploads     \* the requests that try a file

VARIABLES
    life,       \* how far each session is
    left,       \* the files that are left to be received
    last        \* the upload that completed it, if any

vars == <<life, left, last>>

Init ==
    /\ life = [s \in Sessions |-> "none"]
    /\ left = [s \in Sessions |-> {}]
    /\ last = [s \in Sessions |-> {}]

Offer(s, fs) ==
    /\ life[s] = "none"
    /\ life' = [life EXCEPT ![s] = "open"]
    /\ left' = [left EXCEPT ![s] = fs]
    /\ UNCHANGED last

\* A file was received, or has failed, and others are left.
Take(s, f) ==
    /\ life[s] = "open"
    /\ f \in left[s]
    /\ left[s] # {f}
    /\ left' = [left EXCEPT ![s] = @ \ {f}]
    /\ UNCHANGED <<life, last>>

\* No other file is left than the one the upload has tried.
Complete(s, u) ==
    /\ life[s] = "open"
    /\ \E f \in Files : left[s] \subseteq {f}
    /\ life' = [life EXCEPT ![s] = "complete"]
    /\ left' = [left EXCEPT ![s] = {}]
    /\ last' = [last EXCEPT ![s] = {u}]

\* The end of the session is told.
Tell(s) ==
    /\ life[s] = "complete"
    /\ life' = [life EXCEPT ![s] = "told"]
    /\ UNCHANGED <<left, last>>

\* The session is cancelled, or reaches its time to live.
Remove(s) ==
    /\ life[s] = "open"
    /\ life' = [life EXCEPT ![s] = "removed"]
    /\ left' = [left EXCEPT ![s] = {}]
    /\ UNCHANGED last

Next ==
    \E s \in Sessions :
      \/ \E fs \in SUBSET Files : Offer(s, fs)
      \/ \E f \in Files : Take(s, f)
      \/ \E u \in Uploads : Complete(s, u)
      \/ Tell(s)
      \/ Remove(s)

Spec == Init /\ [][Next]_vars

=============================================================================
