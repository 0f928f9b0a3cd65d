------------------------------- MODULE MutexArt -------------------------------
(***************************************************************************)
(* mutex_db (mutex_art.hpp): db behind one std::mutex, used by several     *)
(* threads.                                                                *)
(*                                                                         *)
(* An operation takes the mutex, runs on db and releases the mutex when it *)
(* returns; a scan keeps it until it ends.  A get that finds its key       *)
(* returns the locked mutex together with a view of the value inside the   *)
(* leaf, and the caller gives both up when it is done.  A thread that      *)
(* waits for the mutex has no state of its own, so taking it is one step   *)
(* with what follows.                                                      *)
(***************************************************************************)
EXTENDS ArtIterator

CONSTANTS Thread, NoThread

ASSUME NoThreadAssumption == NoThread \notin Thread

VARIABLES
    mutex,      \* who holds it
    view        \* the get_result with a value that a thread has, or NoView

mutexVars == <<mutex, view>>

NoView == [key |-> NoKey]

\* The threads that have no get_result; one that has may not call mutex_db again.
CanLock(t) == mutex = NoThread /\ view[t] = NoView
lock(t) == CanLock(t) /\ mutex' = t
unlock == mutex' = NoThread

\* A call of db: get_internal, insert_internal, remove_internal, clear or empty.
call(t) ==
    /\ lock(t)
    /\ \/ \E k \in Key : get(k) \/ remove(k)
       \/ \E k \in Stored, v \in Value : insert(k, v)
       \/ clear \/ empty
    /\ UNCHANGED <<itVars, view>>

found == answer.op = "get" /\ answer.ok

\* A get that found nothing, and everything else, releases the mutex on return.
return_unlocked ==
    /\ return
    /\ ~found
    /\ unlock
    /\ UNCHANGED <<itVars, view>>

\* Mutant of return_found: the guard is released with the function's scope.
return_found_Unlocked ==
    /\ return
    /\ found
    /\ view' = [view EXCEPT ![mutex] = [key |-> answer.key, val |-> answer.val]]
    /\ unlock
    /\ UNCHANGED itVars

\* The guard moves into the result.
return_found ==
    /\ return
    /\ found
    /\ view' = [view EXCEPT ![mutex] = [key |-> answer.key, val |-> answer.val]]
    /\ UNCHANGED <<itVars, mutex>>

\* The get_result is destroyed, its unique_lock with it.
drop_result(t) ==
    /\ view[t] # NoView
    /\ view' = [view EXCEPT ![t] = NoView]
    /\ unlock
    /\ UNCHANGED <<vars, itVars>>

begin_scan(t) ==
    /\ lock(t)
    /\ \/ \E f \in BOOLEAN : scan_all(f) \/ \E k \in Key : scan_from(k, f)
       \/ \E from, to \in Key : scan_range(from, to)
    /\ UNCHANGED view

end_scan == finish /\ unlock /\ UNCHANGED view

-------------------------------------------------------------------------------
MutexInit ==
    /\ ItInit
    /\ mutex = NoThread
    /\ view = [t \in Thread |-> NoView]

MutexNext ==
    \/ \E t \in Thread : call(t) \/ drop_result(t) \/ begin_scan(t)
    \/ return_unlocked \/ return_found
    \/ visit /\ UNCHANGED mutexVars
    \/ end_scan

MutexSpec == MutexInit /\ [][MutexNext]_<<allVars, mutexVars>>

-------------------------------------------------------------------------------
\* A value that a thread can see through a get_result stays in the index, and is the
\* value of its key, until the thread gives the result up: no other thread removes or
\* replaces the leaf under it (the locked mutex in get_result).
ViewKept ==
    \A t \in Thread : view[t] # NoView => map[view[t].key] = view[t].val
===============================================================================
