------------------------------- MODULE LockWord -------------------------------
(***************************************************************************)
(* The word of an optimistic lock (optimistic_lock::version_type): bit 0   *)
(* obsolete, bit 1 write locked, the bits above them a version counter.    *)
(***************************************************************************)
EXTENDS Integers

obsolete_lock_word == 1

is_write_locked(w) == w % 4 \in {2, 3}

\* Mutant of is_free: forgets the obsolete bit.
is_free_IgnoresObsolete(w) == ~is_write_locked(w)

is_free(w) == w % 4 = 0

is_obsolete(w) == w = obsolete_lock_word
===============================================================================
