---------------------------- MODULE ProtectedData ----------------------------
(***************************************************************************)
(* What an optimistic_lock promises to its users: the data it protects     *)
(* changes as a whole, every read that was validated is a snapshot of the  *)
(* data at one instant, a reader that became the writer wrote on top of    *)
(* exactly what it had read, and nothing is read or written once the data  *)
(* has been made obsolete.                                                 *)
(***************************************************************************)
CONSTANTS
    Field,      \* the protected fields
    Value,      \* what a field may hold
    Unread      \* a field that a snapshot does not include

VARIABLES
    contents,   \* the protected data
    retired,    \* it has been made obsolete
    answer      \* the snapshot that a thread validated last

vars == <<contents, retired, answer>>

\* The fields of F as they are now.
Snapshot(F) == [f \in Field |-> IF f \in F THEN contents[f] ELSE Unread]

Init ==
    /\ contents \in [Field -> Value]
    /\ retired = FALSE
    /\ answer = [f \in Field |-> Unread]

Read ==
    /\ ~retired
    /\ \E F \in SUBSET Field : answer' = Snapshot(F)
    /\ UNCHANGED <<contents, retired>>

\* One atomic step: what the writer had read, and the data it leaves behind.
ReadWrite ==
    /\ ~retired
    /\ \E F \in SUBSET Field : answer' = Snapshot(F)
    /\ contents' \in [Field -> Value]
    /\ retired' \in BOOLEAN

Next == Read \/ ReadWrite

Spec == Init /\ [][Next]_vars
=============================================================================
