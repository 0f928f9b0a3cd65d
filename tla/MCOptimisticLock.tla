-------------------------- MODULE MCOptimisticLock --------------------------
(***************************************************************************)
(* A small instance of OptimisticLock for TLC, and what its users can rely *)
(* on when they wait for it.                                               *)
(***************************************************************************)
EXTENDS OptimisticLock

\* The next multiple of four after the words that MaxWrites write sections reach.
MCWordSize == 4 * (MaxWrites + 1)

\* A thread keeps running once it has called into the lock and ends its write
\* sections, as write_guard's destructor does.  Nothing makes the load of a reader
\* that spins hit upon the moments at which the lock is free.
Fairness ==
    \A t \in Thread :
        /\ WF_vars(try_read_lock(t) \/ try_read_lock_obsolete(t))
        /\ WF_vars(dec_read_lock_count(t))
        /\ WF_vars(write_unlock_load(t))
        /\ WF_vars(write_unlock(t))

FairSpec == Spec /\ Fairness

WriteLocks == \E t \in Thread : try_upgrade_to_write_lock(t)

\* Only write locks taken again and again without end keep a reader spinning in
\* try_read_lock ("it is possible for a reader to be starved indefinitely"): when the
\* last write section has ended it gets in, and an obsolete lock sends it back.  It is
\* the behaviours with finitely many write sections that could violate this, those
\* that MaxWrites leaves.
ReadLockReturns ==
    \A t \in Thread : <>[](pc[t] = "read_lock") => []<><<WriteLocks>>_vars
=============================================================================
