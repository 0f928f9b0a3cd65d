------------------------------ MODULE Dictionary ------------------------------
(***************************************************************************)
(* What an index promises to its caller: a finite map from keys to values, *)
(* with operations that look a key up, bind a key that is not bound,       *)
(* unbind a key, forget everything and tell whether anything is bound; an  *)
(* operation may run out of memory.                                        *)
(* db, mutex_db and olc_db have this interface in common.                  *)
(***************************************************************************)
CONSTANTS Key, Value, NotFound

VARIABLES
    map,    \* key -> value, or NotFound
    answer  \* what the last operation returned, Idle before the first

Idle == [op |-> "none"]
Answer(o, k, ok, v) == [op |-> o, key |-> k, ok |-> ok, val |-> v]
NoKey == <<>>

Init == map = [k \in Key |-> NotFound] /\ answer = Idle

get(k) ==
    /\ answer' = Answer("get", k, map[k] # NotFound, map[k])
    /\ UNCHANGED map

\* A key that is bound keeps its value.
insert(k, v) ==
    /\ answer' = Answer("insert", k, map[k] = NotFound, v)
    /\ map' = IF map[k] = NotFound THEN [map EXCEPT ![k] = v] ELSE map

remove(k) ==
    /\ answer' = Answer("remove", k, map[k] # NotFound, NotFound)
    /\ map' = [map EXCEPT ![k] = NotFound]

clear ==
    /\ answer' = Answer("clear", NoKey, TRUE, NotFound)
    /\ map' = [k \in Key |-> NotFound]

empty ==
    /\ answer' = Answer("empty", NoKey, \A k \in Key : map[k] = NotFound, NotFound)
    /\ UNCHANGED map

\* An operation on k that runs out of memory changes nothing.
fail(k) ==
    /\ answer' = Answer("bad_alloc", k, FALSE, NotFound)
    /\ UNCHANGED map

\* The caller has taken the answer.
return == answer' = Idle /\ UNCHANGED map

Next ==
    \/ \E k \in Key : get(k) \/ remove(k) \/ fail(k) \/ \E v \in Value : insert(k, v)
    \/ clear \/ empty \/ return

Spec == Init /\ [][Next]_<<map, answer>>
===============================================================================
