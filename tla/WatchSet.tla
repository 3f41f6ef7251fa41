------------------------------ MODULE WatchSet ------------------------------
(***************************************************************************)
(* What the registry promises of its dead man's switch: a set of watched   *)
(* keys, one check at a time, and no watched key that is passed over for   *)
(* ever.  Module Orchestrator takes the retry queue for this: its variable *)
(* watched, its action CheckBegins and the strong fairness it asks for.    *)
(***************************************************************************)
CONSTANTS Keys, NoKey

VARIABLES
    watched,    \* the keys that are checked
    checking    \* the key whose check is under way

vars == <<watched, checking>>

Init == watched = {} /\ checking = NoKey

Watch(k) ==
    /\ watched' = watched \cup {k}
    /\ UNCHANGED checking

CheckBegins(k) ==
    /\ checking = NoKey /\ k \in watched
    /\ checking' = k
    /\ UNCHANGED watched

Kept ==
    /\ checking # NoKey
    /\ checking' = NoKey
    /\ UNCHANGED watched

Dropped ==
    /\ checking # NoKey
    /\ watched' = watched \ {checking}
    /\ checking' = NoKey

\* The control plane starts again.
Reset == watched' = {} /\ checking' = NoKey

Next ==
    \/ \E k \in Keys : Watch(k) \/ CheckBegins(k)
    \/ Kept \/ Dropped \/ Reset

Spec == Init /\ [][Next]_vars /\ \A k \in Keys : SF_vars(CheckBegins(k))
=============================================================================
