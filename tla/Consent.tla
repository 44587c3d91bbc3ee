------------------------------ MODULE Consent ------------------------------
(***************************************************************************)
(* What the confirmation dialogs promise.  An asker is a request that      *)
(* needs the user's consent.  The user says yes or no to it, perhaps too   *)
(* late and perhaps never; its first answer stands.  An asker is granted   *)
(* only on a yes, and a yes given to one asker serves the others of its    *)
(* group.                                                                  *)
(***************************************************************************)
CONSTANTS
    Askers,     \* the requests
    Group       \* the group of each asker

VARIABLES
    exempt,     \* the askers for which the user needs not be asked
    heard,      \* the first answer the user gave to each asker
    verdict     \* what became of it

vars == <<exempt, heard, verdict>>

Init ==
    /\ exempt = {}
    /\ heard = [p \in Askers |-> "nothing"]
    /\ verdict = [p \in Askers |-> "open"]

\* The user waives the question for a group.
Waive(g) ==
    /\ exempt' = exempt \cup {p \in Askers : Group[p] = g}
    /\ UNCHANGED <<heard, verdict>>

\* The user's first answer; a later one changes nothing.
Hear(p, says) ==
    /\ heard[p] = "nothing"
    /\ heard' = [heard EXCEPT ![p] = says]
    /\ UNCHANGED <<exempt, verdict>>

\* A yes that was not given too late.
Agreed(p) == heard[p] = "yes" /\ verdict[p] # "refused"

Grant(p) ==
    /\ verdict[p] = "open"
    /\ heard[p] # "no"
    /\ p \in exempt \/ \E q \in Askers : Group[q] = Group[p] /\ Agreed(q)
    /\ verdict' = [verdict EXCEPT ![p] = "granted"]
    /\ UNCHANGED <<exempt, heard>>

\* On a no, at the timeout, or because the request fails.
Refuse(p) ==
    /\ verdict[p] = "open"
    /\ verdict' = [verdict EXCEPT ![p] = "refused"]
    /\ UNCHANGED <<exempt, heard>>

Next ==
    \E p \in Askers :
      \/ Waive(Group[p])
      \/ \E says \in {"yes", "no"} : Hear(p, says)
      \/ Grant(p)
      \/ Refuse(p)

Spec == Init /\ [][Next]_vars

=============================================================================
