---------------------------- MODULE OptimisticLock ----------------------------
(***************************************************************************)
(* The optimistic lock of UnoDB (optimistic_lock.hpp): one lock, the data  *)
(* fields it protects, and threads that open read critical sections (RCS)  *)
(* and upgrade them to write guards.                                       *)
(*                                                                         *)
(* One action is one access to shared memory with the thread-local code    *)
(* up to the next one; atomics are sequentially consistent.  The build is  *)
(* the debug one, which keeps a counter of open RCSs and the obsoleter's   *)
(* identity beside the lock word; the release build has the same actions   *)
(* on the word.                                                            *)
(*                                                                         *)
(* The lock word is described in LockWord.                                 *)
(***************************************************************************)
EXTENDS LockWord, FiniteSets

CONSTANTS
    Thread,
    NoThread,
    Field,      \* in_critical_section<T> members guarded by the lock
    Value,      \* what a field may hold
    Unread,     \* a field not read in the current RCS
    WordSize,   \* number of values of the lock word, 2^64 in the code
    MaxWrites   \* bound: number of write sections ever opened on this lock

ASSUME ThreadAssumption == IsFiniteSet(Thread) /\ NoThread \notin Thread
ASSUME UnreadAssumption == Unread \notin Value
\* The version counter does not come round: fewer than 2^62 write sections.
ASSUME WordAssumption ==
    WordSize \in Nat /\ MaxWrites \in Nat /\ 4 * MaxWrites < WordSize

VARIABLES
    word,           \* version, the atomic lock word
    readLockCount,  \* read_lock_count
    obsoleter,      \* obsoleter_thread
    data,           \* the protected fields
    pc,             \* where each thread is between two shared accesses
    version,        \* read_critical_section::version; in write_unlock, old_lock_word
    got,            \* what the thread has read in its RCS
    saved,          \* the thread keeps its RCS version for rehydrate_read_lock
    writes,         \* write sections opened so far
    committed,      \* history: the data when the lock was last free
    answer          \* history: the reads that a thread validated last

lockVars == <<word, readLockCount, obsoleter>>
threadVars == <<pc, version, got, saved>>
historyVars == <<committed, answer>>
vars == <<lockVars, data, threadVars, writes, historyVars>>

Word == 0 .. WordSize - 1

\* 64-bit unsigned addition.
Plus(w, n) == IF w + n >= WordSize THEN w + n - WordSize ELSE w + n

set_locked_bit(w) == Plus(w, 2)

Nothing == [f \in Field |-> Unread]

\* The thread is done with its RCS and keeps nothing of it.
Forget(t) ==
    /\ version' = [version EXCEPT ![t] = 0]
    /\ got' = [got EXCEPT ![t] = Nothing]
    /\ saved' = [saved EXCEPT ![t] = FALSE]

Init ==
    /\ word = 0
    /\ readLockCount = 0
    /\ obsoleter = NoThread
    /\ data \in [Field -> Value]
    /\ pc = [t \in Thread |-> "idle"]
    /\ version = [t \in Thread |-> 0]
    /\ got = [t \in Thread |-> Nothing]
    /\ saved = [t \in Thread |-> FALSE]
    /\ writes = 0
    /\ committed = data
    /\ answer = Nothing

-----------------------------------------------------------------------------
(* Opening a read critical section.                                        *)

\* A thread reaches the data and calls try_read_lock.
begin_read(t) ==
    /\ pc[t] = "idle"
    /\ pc' = [pc EXCEPT ![t] = "read_lock"]
    /\ Forget(t)
    /\ UNCHANGED <<lockVars, data, writes, historyVars>>

\* try_read_lock finds the lock free.  On a write-locked word it loads again.
try_read_lock(t) ==
    /\ pc[t] = "read_lock"
    /\ is_free(word)
    /\ version' = [version EXCEPT ![t] = word]
    /\ pc' = [pc EXCEPT ![t] = "count"]
    /\ UNCHANGED <<lockVars, data, got, saved, writes, historyVars>>

\* Mutant of try_read_lock_obsolete: only the obsoleter itself notices.
try_read_lock_obsolete_Own(t) ==
    /\ pc[t] = "read_lock"
    /\ is_obsolete(word) /\ obsoleter = t
    /\ pc' = [pc EXCEPT ![t] = "restart"]
    /\ UNCHANGED <<lockVars, data, version, got, saved, writes, historyVars>>

\* try_read_lock returns an RCS whose must_restart() is true.
try_read_lock_obsolete(t) ==
    /\ pc[t] = "read_lock"
    /\ is_obsolete(word)
    /\ pc' = [pc EXCEPT ![t] = "restart"]
    /\ UNCHANGED <<lockVars, data, version, got, saved, writes, historyVars>>

inc_read_lock_count(t) ==
    /\ pc[t] = "count"
    /\ readLockCount' = readLockCount + 1
    /\ pc' = [pc EXCEPT ![t] = "open"]
    /\ UNCHANGED <<word, obsoleter, data, version, got, saved, writes, historyVars>>

\* An RCS from a saved version tag: it does not look at the lock word.
rehydrate_read_lock(t) ==
    /\ pc[t] = "idle"
    /\ saved[t]
    /\ readLockCount' = readLockCount + 1
    /\ pc' = [pc EXCEPT ![t] = "open"]
    /\ UNCHANGED <<word, obsoleter, data, version, got, saved, writes, historyVars>>

-----------------------------------------------------------------------------
(* Inside a read critical section.                                         *)

\* in_critical_section::load, whatever a concurrent writer is doing.
load(t, f) ==
    /\ pc[t] = "open"
    /\ got' = [got EXCEPT ![t] = [@ EXCEPT ![f] = data[f]]]
    /\ UNCHANGED <<lockVars, data, pc, version, saved, writes, historyVars>>

\* read_critical_section::get: the version tag is kept past the RCS.
get(t) ==
    /\ pc[t] = "open"
    /\ saved' = [saved EXCEPT ![t] = TRUE]
    /\ UNCHANGED <<lockVars, data, pc, version, got, writes, historyVars>>

\* check() succeeds: what has been read so far may be used.
check(t) ==
    /\ pc[t] = "open"
    /\ word = version[t]
    /\ answer' = got[t]
    /\ UNCHANGED <<lockVars, data, threadVars, writes, committed>>

\* try_read_unlock() succeeds; so does the destructor of an open RCS.
try_read_unlock(t) ==
    /\ pc[t] = "open"
    /\ word = version[t]
    /\ answer' = got[t]
    /\ pc' = [pc EXCEPT ![t] = "close"]
    /\ IF saved[t] THEN UNCHANGED <<version, got, saved>> ELSE Forget(t)
    /\ UNCHANGED <<lockVars, data, writes, committed>>

\* Mutant of version_mismatch: the counter is left to the RCS destructor, which
\* finds the RCS already reset.
version_mismatch_KeepsCount(t) ==
    /\ pc[t] = "open"
    /\ word # version[t]
    /\ pc' = [pc EXCEPT ![t] = "restart"]
    /\ Forget(t)
    /\ UNCHANGED <<lockVars, data, writes, historyVars>>

\* check, try_read_unlock or the compare-exchange of an upgrade finds another
\* word than the RCS's: the RCS is gone.
version_mismatch(t) ==
    /\ pc[t] = "open"
    /\ word # version[t]
    /\ pc' = [pc EXCEPT ![t] = "drop"]
    /\ Forget(t)
    /\ UNCHANGED <<lockVars, data, writes, historyVars>>

dec_read_lock_count(t) ==
    /\ pc[t] \in {"drop", "close", "upgraded"}
    /\ readLockCount' = readLockCount - 1
    /\ pc' = [pc EXCEPT ![t] = IF @ = "drop" THEN "restart"
                               ELSE IF @ = "close" THEN "idle" ELSE "write"]
    /\ UNCHANGED <<word, obsoleter, data, version, got, saved, writes, historyVars>>

\* The caller starts its operation again.
restart(t) ==
    /\ pc[t] = "restart"
    /\ pc' = [pc EXCEPT ![t] = "idle"]
    /\ Forget(t)
    /\ UNCHANGED <<lockVars, data, writes, historyVars>>

-----------------------------------------------------------------------------
(* Writing.                                                                *)

Upgraded(t) ==
    /\ word' = set_locked_bit(version[t])
    /\ writes < MaxWrites
    /\ writes' = writes + 1
    /\ pc' = [pc EXCEPT ![t] = "upgraded"]
    /\ UNCHANGED <<readLockCount, obsoleter, data, version, got, saved, historyVars>>

\* Mutant of try_upgrade_to_write_lock: any free lock is taken.
try_upgrade_AnyVersion(t) == pc[t] = "open" /\ is_free(word) /\ Upgraded(t)

\* Mutant of try_upgrade_to_write_lock: a store where the compare-exchange is.
try_upgrade_Store(t) == pc[t] = "open" /\ Upgraded(t)

\* The compare-exchange of try_upgrade_to_write_lock succeeds.
try_upgrade_to_write_lock(t) ==
    /\ pc[t] = "open"
    /\ word = version[t]
    /\ Upgraded(t)

\* in_critical_section::store under the write guard.
store(t, f, v) ==
    /\ pc[t] = "write"
    /\ data' = [data EXCEPT ![f] = v]
    /\ UNCHANGED <<lockVars, threadVars, writes, historyVars>>

\* atomic_version_type::write_unlock loads the word it will store from.
write_unlock_load(t) ==
    /\ pc[t] = "write"
    /\ version' = [version EXCEPT ![t] = word]
    /\ pc' = [pc EXCEPT ![t] = "unlock"]
    /\ UNCHANGED <<lockVars, data, got, saved, writes, historyVars>>

\* History: the write section of t takes effect, on top of what t had read.
Commit(t) ==
    /\ committed' = data
    /\ answer' = got[t]

\* Mutant of write_unlock: only clears the lock bit.
write_unlock_SameVersion(t) ==
    /\ pc[t] = "unlock"
    /\ word' = version[t] - 2
    /\ pc' = [pc EXCEPT ![t] = "idle"]
    /\ Forget(t)
    /\ Commit(t)
    /\ UNCHANGED <<readLockCount, obsoleter, data, writes>>

\* Adding 2 to a locked word carries into the version counter.
write_unlock(t) ==
    /\ pc[t] = "unlock"
    /\ word' = Plus(version[t], 2)
    /\ pc' = [pc EXCEPT ![t] = "idle"]
    /\ Forget(t)
    /\ Commit(t)
    /\ UNCHANGED <<readLockCount, obsoleter, data, writes>>

write_unlock_and_obsolete(t) ==
    /\ pc[t] = "write"
    /\ word' = obsolete_lock_word
    /\ pc' = [pc EXCEPT ![t] = "obsoleted"]
    /\ Commit(t)
    /\ UNCHANGED <<readLockCount, obsoleter, data, version, got, saved, writes>>

\* The debug build notes who made the lock obsolete.
set_obsoleter_thread(t) ==
    /\ pc[t] = "obsoleted"
    /\ obsoleter' = t
    /\ pc' = [pc EXCEPT ![t] = "idle"]
    /\ Forget(t)
    /\ UNCHANGED <<word, readLockCount, data, writes, historyVars>>

-----------------------------------------------------------------------------
ReadSection(t) ==
    \/ begin_read(t)
    \/ try_read_lock(t)
    \/ try_read_lock_obsolete(t)
    \/ inc_read_lock_count(t)
    \/ rehydrate_read_lock(t)
    \/ \E f \in Field : load(t, f)
    \/ get(t)
    \/ check(t)
    \/ try_read_unlock(t)
    \/ version_mismatch(t)
    \/ dec_read_lock_count(t)
    \/ restart(t)

WriteSection(t) ==
    \/ try_upgrade_to_write_lock(t)
    \/ \E f \in Field, v \in Value : store(t, f, v)
    \/ write_unlock_load(t)
    \/ write_unlock(t)
    \/ write_unlock_and_obsolete(t)
    \/ set_obsoleter_thread(t)

Next == \E t \in Thread : ReadSection(t) \/ WriteSection(t)

Spec == Init /\ [][Next]_vars

-----------------------------------------------------------------------------
(* Properties.                                                             *)

PC == {"idle", "read_lock", "count", "open", "drop", "close", "restart",
       "upgraded", "write", "unlock", "obsoleted"}

\* Every variable keeps its type: the word stays within its width, and the debug
\* counter of open RCSs does not go below zero.
TypeOK ==
    /\ word \in Word
    /\ readLockCount \in Nat
    /\ obsoleter \in Thread \cup {NoThread}
    /\ data \in [Field -> Value]
    /\ pc \in [Thread -> PC]
    /\ version \in [Thread -> Word]
    /\ got \in [Thread -> [Field -> Value \cup {Unread}]]
    /\ saved \in [Thread -> BOOLEAN]
    /\ writes \in 0 .. MaxWrites
    /\ committed \in [Field -> Value]
    /\ answer \in [Field -> Value \cup {Unread}]

Writing(t) == pc[t] \in {"upgraded", "write", "unlock"}

\* A write guard excludes every other one, the lock bit is set exactly while
\* one is active, and no thread changes the word between the load and the store
\* of write_unlock ("no other thread may write it before the unlock").
OneWriter ==
    /\ \A t, u \in Thread : Writing(t) /\ Writing(u) => t = u
    /\ is_write_locked(word) <=> \E t \in Thread : Writing(t)
    /\ \A t \in Thread : pc[t] = "unlock" => version[t] = word

\* An RCS opened now, or one whose version is kept for rehydrate_read_lock.
HasVersion(t) ==
    \/ pc[t] \in {"count", "open"}
    \/ pc[t] \in {"idle", "close"} /\ saved[t]

\* As long as the word is still the one an RCS started from, whatever the RCS
\* has read, in several loads and across saving and rehydrating its version, is
\* what the last write section left.
ReadsAreSnapshot ==
    \A t \in Thread : HasVersion(t) /\ word = version[t] =>
        \A f \in Field : got[t][f] \in {committed[f], Unread}

\* The debug counter equals the number of open RCSs, so that the assertions of
\* dec_read_lock_count, check and check_on_dealloc hold on every path: restarts,
\* upgrades and rehydrated RCSs included.
Counted == {t \in Thread : pc[t] \in {"open", "drop", "close", "upgraded"}}
ReadLockCountExact == readLockCount = Cardinality(Counted)

\* Once obsolete the lock stays so, and exactly one thread made it obsolete: the
\* node behind it is handed to QSBR once.
ObsoleteOnce ==
    [][/\ is_obsolete(word) => is_obsolete(word')
       /\ obsoleter # NoThread => obsoleter' = obsoleter]_<<word, obsoleter>>

\* The lock implements atomic snapshots and atomic read-modify-writes.
PD == INSTANCE ProtectedData WITH
        contents <- committed, retired <- is_obsolete(word)
ImplementsProtectedData == PD!Spec
=============================================================================
