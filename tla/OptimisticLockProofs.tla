------------------------- MODULE OptimisticLockProofs -------------------------
(***************************************************************************)
(* Proofs about OptimisticLock, for any number of threads, fields and      *)
(* values, and any word size that the number of write sections does not    *)
(* wrap round.                                                             *)
(***************************************************************************)
EXTENDS OptimisticLock, FiniteSetTheorems, TLAPS

(***************************************************************************)
(* The inductive invariant.  The word determines, and is determined by,    *)
(* the number of write sections opened and whether one is active; every    *)
(* version held by an RCS is the word of an earlier, or the present, free  *)
(* period.                                                                 *)
(***************************************************************************)
SomeoneWrites == \E t \in Thread : Writing(t)

\* The word while a write section is active, and while none is.
WordInv ==
    /\ \A t \in Thread : Writing(t) => word = 4 * writes - 2 /\ writes > 0
    /\ \A t, u \in Thread : Writing(t) /\ Writing(u) => t = u
    /\ ~SomeoneWrites => word = 4 * writes \/ is_obsolete(word)
    /\ ~SomeoneWrites => data = committed
    /\ \A t \in Thread : pc[t] = "unlock" => version[t] = word

\* A version held is an old enough multiple of four.
VersionInv ==
    \A t \in Thread : HasVersion(t) =>
        /\ version[t] % 4 = 0
        /\ version[t] <= 4 * writes
        /\ SomeoneWrites => version[t] <= 4 * writes - 4

\* Nothing has been read before an RCS is open.
NewReads == \A t \in Thread : pc[t] \in {"read_lock", "count"} => got[t] = Nothing

\* What a writer read before its upgrade still stands.
WriterReads ==
    \A t \in Thread : Writing(t) =>
        \A f \in Field : got[t][f] \in {committed[f], Unread}

ObsoleteInv ==
    /\ obsoleter # NoThread => is_obsolete(word)
    /\ \A t \in Thread : pc[t] = "obsoleted" => is_obsolete(word) /\ obsoleter = NoThread
    /\ \A t, u \in Thread : pc[t] = "obsoleted" /\ pc[u] = "obsoleted" => t = u

LockInv ==
    /\ TypeOK
    /\ ReadLockCountExact
    /\ WordInv
    /\ VersionInv
    /\ NewReads
    /\ ReadsAreSnapshot
    /\ WriterReads
    /\ ObsoleteInv

\* The lock bit and the free test on the words that occur.
LEMMA WordBits ==
    ASSUME NEW n \in Nat
    PROVE /\ is_free(4 * n) /\ ~is_write_locked(4 * n) /\ ~is_obsolete(4 * n)
          /\ n > 0 => /\ is_write_locked(4 * n - 2) /\ ~is_free(4 * n - 2)
                      /\ ~is_obsolete(4 * n - 2)
          /\ ~is_free(1) /\ ~is_write_locked(1)
BY DEF is_free, is_write_locked, is_obsolete, obsolete_lock_word

\* Within the bound on write sections the additions to the word do not wrap.
LEMMA NoWrap ==
    ASSUME NEW n \in 0 .. MaxWrites
    PROVE /\ 4 * n \in Word
          /\ n > 0 => Plus(4 * n - 2, 2) = 4 * n
          /\ n < MaxWrites => Plus(4 * n, 2) = 4 * (n + 1) - 2 /\ 4 * n + 2 \in Word
          /\ MaxWrites > 0 => 1 \in Word
BY WordAssumption DEF Word, Plus

LEMMA InitLock == Init => LockInv
<1> SUFFICES ASSUME Init PROVE LockInv
  OBVIOUS
<1>1. TypeOK
  BY WordAssumption DEF Init, TypeOK, Word, PC, Nothing
<1>2. \A t \in Thread : pc[t] = "idle" /\ ~saved[t]
  BY DEF Init
<1>3. WordInv
  BY <1>2 DEF Init, WordInv, Writing, SomeoneWrites
<1>4. VersionInv /\ ReadsAreSnapshot
  BY <1>2 DEF VersionInv, ReadsAreSnapshot, HasVersion
<1>5. WriterReads /\ NewReads
  BY <1>2 DEF WriterReads, Writing, NewReads
<1>6. ObsoleteInv
  BY <1>2 DEF Init, ObsoleteInv
<1>7. Counted = {}
  BY <1>2 DEF Counted
<1>8. ReadLockCountExact
  BY <1>7, FS_EmptySet DEF Init, ReadLockCountExact
<1> QED
  BY <1>1, <1>3, <1>4, <1>5, <1>6, <1>8 DEF LockInv

\* A version that matches the word is the present one, and nobody writes.
LEMMA ValidVersion ==
    ASSUME LockInv, NEW t \in Thread, HasVersion(t), word = version[t]
    PROVE word = 4 * writes /\ ~SomeoneWrites /\ ~is_obsolete(word) /\ data = committed
<1> USE DEF LockInv, TypeOK
<1>1. writes \in Nat /\ word % 4 = 0
  BY WordAssumption DEF VersionInv
<1>2. ~is_obsolete(word)
  BY <1>1 DEF is_obsolete, obsolete_lock_word
<1>3. ASSUME SomeoneWrites PROVE FALSE
  <2>1. word = 4 * writes - 2
    BY <1>3 DEF WordInv, SomeoneWrites
  <2> QED
    BY <1>1, <2>1
<1> QED
  BY <1>2, <1>3 DEF WordInv

\* The number of open RCSs when one thread opens or closes one.
LEMMA CountedMoves ==
    ASSUME TypeOK, NEW t \in Thread, NEW l \in PC, pc' = [pc EXCEPT ![t] = l]
    PROVE /\ IsFiniteSet(Counted) /\ Cardinality(Counted) \in Nat
          /\ t \notin Counted /\ l \in {"open", "drop", "close", "upgraded"} =>
                 Cardinality(Counted') = Cardinality(Counted) + 1
          /\ t \in Counted /\ l \notin {"open", "drop", "close", "upgraded"} =>
                 /\ Cardinality(Counted') = Cardinality(Counted) - 1
                 /\ Cardinality(Counted) > 0
          /\ t \in Counted <=> l \in {"open", "drop", "close", "upgraded"} =>
                 Counted' = Counted
<1>1. IsFiniteSet(Counted)
  BY ThreadAssumption, FS_Subset DEF Counted
<1>2. Cardinality(Counted) \in Nat
  BY <1>1, FS_CardinalityType
<1>3. ASSUME t \notin Counted, l \in {"open", "drop", "close", "upgraded"}
      PROVE Cardinality(Counted') = Cardinality(Counted) + 1
  <2>1. Counted' = Counted \cup {t}
    BY <1>3 DEF Counted, TypeOK
  <2> QED
    BY <1>1, <1>3, <2>1, FS_AddElement
<1>4. ASSUME t \in Counted, l \notin {"open", "drop", "close", "upgraded"}
      PROVE /\ Cardinality(Counted') = Cardinality(Counted) - 1
            /\ Cardinality(Counted) > 0
  <2>1. Counted' = Counted \ {t}
    BY <1>4 DEF Counted, TypeOK
  <2>2. Cardinality(Counted') = Cardinality(Counted) - 1
    BY <1>1, <1>4, <2>1, FS_RemoveElement
  <2>3. Cardinality(Counted) # 0
    BY <1>1, <1>4, FS_EmptySet
  <2> QED
    BY <1>2, <2>2, <2>3
<1>5. ASSUME t \in Counted <=> l \in {"open", "drop", "close", "upgraded"}
      PROVE Counted' = Counted
  BY <1>5 DEF Counted, TypeOK
<1> QED
  BY <1>1, <1>2, <1>3, <1>4, <1>5

\* A step preserves the types; the word stays within its width.
LEMMA TypeStep ==
    ASSUME LockInv, NEW t \in Thread, ReadSection(t) \/ WriteSection(t)
    PROVE TypeOK'
<1> USE DEF LockInv, TypeOK, lockVars, threadVars, historyVars
<1>0. Nothing \in [Field -> Value \cup {Unread}] /\ 0 \in Word
  BY WordAssumption DEF Nothing, Word
<1>00. IsFiniteSet(Counted)
  BY ThreadAssumption, FS_Subset DEF Counted
<1>1. CASE begin_read(t)
  BY <1>1, <1>0 DEF begin_read, Forget, PC
<1>2. CASE try_read_lock(t)
  BY <1>2, <1>0 DEF try_read_lock, PC
<1>3. CASE try_read_lock_obsolete(t)
  BY <1>3, <1>0 DEF try_read_lock_obsolete, PC
<1>4. CASE inc_read_lock_count(t)
  BY <1>4, <1>0 DEF inc_read_lock_count, PC
<1>5. CASE rehydrate_read_lock(t)
  BY <1>5, <1>0 DEF rehydrate_read_lock, PC
<1>6. ASSUME NEW f \in Field, load(t, f)
      PROVE TypeOK'
  BY <1>6, <1>0 DEF load, PC
<1>7. CASE get(t)
  BY <1>7, <1>0 DEF get, PC
<1>8. CASE check(t)
  BY <1>8, <1>0 DEF check, PC
<1>9. CASE try_read_unlock(t)
  BY <1>9, <1>0 DEF try_read_unlock, Forget, PC
<1>10. CASE version_mismatch(t)
  BY <1>10, <1>0 DEF version_mismatch, Forget, PC
<1>11. CASE dec_read_lock_count(t)
  <2>1. t \in Counted
    BY <1>11 DEF dec_read_lock_count, Counted
  <2>2. readLockCount > 0
    BY <2>1, FS_EmptySet, <1>00 DEF ReadLockCountExact
  <2> QED
    BY <1>11, <2>2 DEF dec_read_lock_count, PC
<1>12. CASE restart(t)
  BY <1>12, <1>0 DEF restart, Forget, PC
<1>13. CASE try_upgrade_to_write_lock(t)
  <2>2. word = 4 * writes
    BY <1>13, ValidVersion DEF try_upgrade_to_write_lock, HasVersion
  <2>3. writes < MaxWrites /\ word' = set_locked_bit(word)
    BY <1>13 DEF try_upgrade_to_write_lock, Upgraded
  <2>4. word' \in Word
    BY <2>2, <2>3, NoWrap DEF set_locked_bit
  <2> QED
    BY <1>13, <2>3, <2>4, WordAssumption DEF try_upgrade_to_write_lock, Upgraded, PC
<1>14. ASSUME NEW f \in Field, NEW v \in Value, store(t, f, v)
      PROVE TypeOK'
  BY <1>14, <1>0 DEF store, PC
<1>15. CASE write_unlock_load(t)
  BY <1>15, <1>0 DEF write_unlock_load, PC
<1>16. CASE write_unlock(t)
  <2>1. word' \in Word
    BY <1>16, NoWrap DEF write_unlock, WordInv, Writing
  <2> QED
    BY <1>16, <1>0, <2>1 DEF write_unlock, Forget, Commit, PC
<1>17. CASE write_unlock_and_obsolete(t)
  <2>1. word' \in Word
    BY <1>17, NoWrap, WordAssumption DEF write_unlock_and_obsolete, WordInv, Writing, obsolete_lock_word
  <2> QED
    BY <1>17, <2>1 DEF write_unlock_and_obsolete, Commit, PC
<1>18. CASE set_obsoleter_thread(t)
  BY <1>18, <1>0 DEF set_obsoleter_thread, Forget, PC
<1> QED
  BY <1>1, <1>2, <1>3, <1>4, <1>5, <1>6, <1>7, <1>8, <1>9, <1>10, <1>11, <1>12, <1>13, <1>14, <1>15, <1>16, <1>17, <1>18 DEF ReadSection, WriteSection

\* A step preserves the count of open RCSs.
LEMMA CountStep ==
    ASSUME LockInv, NEW t \in Thread, ReadSection(t) \/ WriteSection(t)
    PROVE ReadLockCountExact'
<1> USE DEF LockInv, ReadLockCountExact, lockVars, threadVars, historyVars
<1>0. TypeOK
  OBVIOUS
<1>1. CASE begin_read(t)
  <2>1. pc' = [pc EXCEPT ![t] = "read_lock"] /\ "read_lock" \in PC /\ t \notin Counted
    BY <1>1 DEF begin_read, Forget, PC, Counted
  <2> QED
    BY <1>1, <2>1, <1>0, CountedMoves DEF begin_read, Forget
<1>2. CASE try_read_lock(t)
  <2>1. pc' = [pc EXCEPT ![t] = "count"] /\ "count" \in PC /\ t \notin Counted
    BY <1>2 DEF try_read_lock, PC, Counted
  <2> QED
    BY <1>2, <2>1, <1>0, CountedMoves DEF try_read_lock
<1>3. CASE try_read_lock_obsolete(t)
  <2>1. pc' = [pc EXCEPT ![t] = "restart"] /\ "restart" \in PC /\ t \notin Counted
    BY <1>3 DEF try_read_lock_obsolete, PC, Counted
  <2> QED
    BY <1>3, <2>1, <1>0, CountedMoves DEF try_read_lock_obsolete
<1>4. CASE inc_read_lock_count(t)
  <2>1. pc' = [pc EXCEPT ![t] = "open"] /\ "open" \in PC /\ t \notin Counted
    BY <1>4 DEF inc_read_lock_count, PC, Counted
  <2> QED
    BY <1>4, <2>1, <1>0, CountedMoves DEF inc_read_lock_count
<1>5. CASE rehydrate_read_lock(t)
  <2>1. pc' = [pc EXCEPT ![t] = "open"] /\ "open" \in PC /\ t \notin Counted
    BY <1>5 DEF rehydrate_read_lock, PC, Counted
  <2> QED
    BY <1>5, <2>1, <1>0, CountedMoves DEF rehydrate_read_lock
<1>6. ASSUME NEW f \in Field, load(t, f)
      PROVE ReadLockCountExact'
  BY <1>6 DEF load, Counted
<1>7. CASE get(t)
  BY <1>7 DEF get, Counted
<1>8. CASE check(t)
  BY <1>8 DEF check, Counted
<1>9. CASE try_read_unlock(t)
  <2>1. pc' = [pc EXCEPT ![t] = "close"] /\ "close" \in PC /\ t \in Counted
    BY <1>9 DEF try_read_unlock, Forget, PC, Counted
  <2> QED
    BY <1>9, <2>1, <1>0, CountedMoves DEF try_read_unlock, Forget
<1>10. CASE version_mismatch(t)
  <2>1. pc' = [pc EXCEPT ![t] = "drop"] /\ "drop" \in PC /\ t \in Counted
    BY <1>10 DEF version_mismatch, Forget, PC, Counted
  <2> QED
    BY <1>10, <2>1, <1>0, CountedMoves DEF version_mismatch, Forget
<1>11. CASE dec_read_lock_count(t)
  <2>1. PICK l \in {"restart", "idle", "write"} : pc' = [pc EXCEPT ![t] = l]
    BY <1>11 DEF dec_read_lock_count
  <2>2. t \in Counted /\ l \in PC
    BY <1>11 DEF dec_read_lock_count, Counted, PC
  <2> QED
    BY <1>11, <2>1, <2>2, <1>0, CountedMoves DEF dec_read_lock_count
<1>12. CASE restart(t)
  <2>1. pc' = [pc EXCEPT ![t] = "idle"] /\ "idle" \in PC /\ t \notin Counted
    BY <1>12 DEF restart, Forget, PC, Counted
  <2> QED
    BY <1>12, <2>1, <1>0, CountedMoves DEF restart, Forget
<1>13. CASE try_upgrade_to_write_lock(t)
  <2>1. pc' = [pc EXCEPT ![t] = "upgraded"] /\ "upgraded" \in PC /\ t \in Counted
    BY <1>13 DEF try_upgrade_to_write_lock, Upgraded, PC, Counted
  <2> QED
    BY <1>13, <2>1, <1>0, CountedMoves DEF try_upgrade_to_write_lock, Upgraded
<1>14. ASSUME NEW f \in Field, NEW v \in Value, store(t, f, v)
      PROVE ReadLockCountExact'
  BY <1>14 DEF store, Counted
<1>15. CASE write_unlock_load(t)
  <2>1. pc' = [pc EXCEPT ![t] = "unlock"] /\ "unlock" \in PC /\ t \notin Counted
    BY <1>15 DEF write_unlock_load, PC, Counted
  <2> QED
    BY <1>15, <2>1, <1>0, CountedMoves DEF write_unlock_load
<1>16. CASE write_unlock(t)
  <2>1. pc' = [pc EXCEPT ![t] = "idle"] /\ "idle" \in PC /\ t \notin Counted
    BY <1>16 DEF write_unlock, Forget, Commit, PC, Counted
  <2> QED
    BY <1>16, <2>1, <1>0, CountedMoves DEF write_unlock, Forget, Commit
<1>17. CASE write_unlock_and_obsolete(t)
  <2>1. pc' = [pc EXCEPT ![t] = "obsoleted"] /\ "obsoleted" \in PC /\ t \notin Counted
    BY <1>17 DEF write_unlock_and_obsolete, Commit, PC, Counted
  <2> QED
    BY <1>17, <2>1, <1>0, CountedMoves DEF write_unlock_and_obsolete, Commit
<1>18. CASE set_obsoleter_thread(t)
  <2>1. pc' = [pc EXCEPT ![t] = "idle"] /\ "idle" \in PC /\ t \notin Counted
    BY <1>18 DEF set_obsoleter_thread, Forget, PC, Counted
  <2> QED
    BY <1>18, <2>1, <1>0, CountedMoves DEF set_obsoleter_thread, Forget
<1> QED
  BY <1>1, <1>2, <1>3, <1>4, <1>5, <1>6, <1>7, <1>8, <1>9, <1>10, <1>11, <1>12, <1>13, <1>14, <1>15, <1>16, <1>17, <1>18 DEF ReadSection, WriteSection

\* The steps that touch neither the word nor the data, and read nothing.
Quiet(t) ==
    \/ begin_read(t) \/ try_read_lock_obsolete(t) \/ inc_read_lock_count(t)
    \/ rehydrate_read_lock(t) \/ get(t) \/ check(t) \/ try_read_unlock(t)
    \/ version_mismatch(t) \/ dec_read_lock_count(t) \/ restart(t)
    \/ set_obsoleter_thread(t)

LEMMA QuietSteps ==
    ASSUME TypeOK, NEW t \in Thread, Quiet(t)
    PROVE /\ UNCHANGED <<word, writes, data, committed>>
          /\ \A u \in Thread : Writing(u)' <=> Writing(u)
          /\ \A u \in Thread : pc'[u] = "unlock" => pc[u] = "unlock" /\ version'[u] = version[u]
          /\ \A u \in Thread : HasVersion(u)' =>
                 HasVersion(u) /\ version'[u] = version[u] /\ got'[u] = got[u]
          /\ \A u \in Thread : Writing(u) => got'[u] = got[u]
<1> USE DEF TypeOK, lockVars, threadVars, historyVars, Writing, HasVersion, Quiet, Forget
<1>1. CASE begin_read(t)
  BY <1>1 DEF begin_read
<1>2. CASE try_read_lock_obsolete(t)
  BY <1>2 DEF try_read_lock_obsolete
<1>3. CASE inc_read_lock_count(t)
  BY <1>3 DEF inc_read_lock_count
<1>4. CASE rehydrate_read_lock(t)
  BY <1>4 DEF rehydrate_read_lock
<1>5. CASE get(t)
  BY <1>5 DEF get
<1>6. CASE check(t)
  BY <1>6 DEF check
<1>7. CASE try_read_unlock(t)
  BY <1>7 DEF try_read_unlock
<1>8. CASE version_mismatch(t)
  BY <1>8 DEF version_mismatch
<1>9. CASE dec_read_lock_count(t)
  BY <1>9 DEF dec_read_lock_count
<1>10. CASE restart(t)
  BY <1>10 DEF restart
<1>11. CASE set_obsoleter_thread(t)
  BY <1>11 DEF set_obsoleter_thread
<1> QED
  BY <1>1, <1>2, <1>3, <1>4, <1>5, <1>6, <1>7, <1>8, <1>9, <1>10, <1>11

\* A step preserves the relation of the word to the write sections.
LEMMA WordStep ==
    ASSUME LockInv, NEW t \in Thread, ReadSection(t) \/ WriteSection(t)
    PROVE WordInv'
<1> USE DEF LockInv, TypeOK, lockVars, threadVars, historyVars
<1>1. CASE Quiet(t)
  BY <1>1, QuietSteps DEF WordInv, SomeoneWrites, is_obsolete
<1>2. CASE try_read_lock(t)
  <2>1. UNCHANGED <<word, writes, data, committed>>
    BY <1>2 DEF try_read_lock
  <2>2. \A u \in Thread : Writing(u)' <=> Writing(u)
    BY <1>2 DEF try_read_lock, Writing
  <2>3. \A u \in Thread : pc'[u] = "unlock" => version'[u] = word
    BY <1>2 DEF try_read_lock, WordInv
  <2> QED
    BY <2>1, <2>2, <2>3 DEF WordInv, SomeoneWrites, is_obsolete
<1>3. ASSUME NEW f \in Field, load(t, f)
      PROVE WordInv'
  <2>1. UNCHANGED <<word, writes, data, committed>>
    BY <1>3 DEF load
  <2>2. \A u \in Thread : Writing(u)' <=> Writing(u)
    BY <1>3 DEF load, Writing
  <2>3. \A u \in Thread : pc'[u] = "unlock" => version'[u] = word
    BY <1>3 DEF load, WordInv
  <2> QED
    BY <2>1, <2>2, <2>3 DEF WordInv, SomeoneWrites, is_obsolete
<1>4. CASE try_upgrade_to_write_lock(t)
  <2>1. word = 4 * writes /\ ~SomeoneWrites
    BY <1>4, ValidVersion DEF try_upgrade_to_write_lock, HasVersion
  <2>2. writes' = writes + 1 /\ writes < MaxWrites /\ word' = set_locked_bit(word)
    BY <1>4 DEF try_upgrade_to_write_lock, Upgraded
  <2>3. word' = 4 * writes' - 2 /\ writes' > 0
    BY <2>1, <2>2, NoWrap DEF set_locked_bit
  <2>4. pc' = [pc EXCEPT ![t] = "upgraded"] /\ version' = version
    BY <1>4 DEF try_upgrade_to_write_lock, Upgraded
  <2>5. \A u \in Thread : Writing(u)' <=> u = t
    BY <2>1, <2>4 DEF SomeoneWrites, Writing
  <2>6. \A u \in Thread : pc'[u] # "unlock"
    BY <2>1, <2>4 DEF SomeoneWrites, Writing
  <2> QED
    BY <2>3, <2>5, <2>6 DEF WordInv, SomeoneWrites
<1>5. ASSUME NEW f \in Field, NEW v \in Value, store(t, f, v)
      PROVE WordInv'
  <2>1. Writing(t) /\ UNCHANGED <<pc, word, writes, version>>
    BY <1>5 DEF store, Writing
  <2>2. SomeoneWrites'
    BY <2>1 DEF SomeoneWrites, Writing
  <2> QED
    BY <2>1, <2>2 DEF WordInv, Writing
<1>6. CASE write_unlock_load(t)
  <2>1. UNCHANGED <<word, writes, data, committed>>
    BY <1>6 DEF write_unlock_load
  <2>2. \A u \in Thread : Writing(u)' <=> Writing(u)
    BY <1>6 DEF write_unlock_load, Writing
  <2>3. \A u \in Thread : pc'[u] = "unlock" => version'[u] = word
    BY <1>6 DEF write_unlock_load, WordInv
  <2> QED
    BY <2>1, <2>2, <2>3 DEF WordInv, SomeoneWrites, is_obsolete
<1>7. CASE write_unlock(t)
  <2>1. Writing(t) /\ word = 4 * writes - 2 /\ writes > 0 /\ version[t] = word
    BY <1>7 DEF write_unlock, WordInv, Writing
  <2>2. word' = 4 * writes /\ writes' = writes
    BY <1>7, <2>1, NoWrap DEF write_unlock
  <2>3. \A u \in Thread : ~Writing(u)' /\ pc'[u] # "unlock"
    BY <1>7, <2>1 DEF write_unlock, WordInv, Writing
  <2>4. data' = committed'
    BY <1>7 DEF write_unlock, Commit
  <2> QED
    BY <2>2, <2>3, <2>4 DEF WordInv, SomeoneWrites
<1>8. CASE write_unlock_and_obsolete(t)
  <2>1. Writing(t) /\ is_obsolete(word')
    BY <1>8 DEF write_unlock_and_obsolete, Writing, is_obsolete
  <2>2. is_obsolete(word)'
    BY <2>1 DEF is_obsolete, obsolete_lock_word
  <2>3. \A u \in Thread : ~Writing(u)' /\ pc'[u] # "unlock"
    BY <1>8, <2>1 DEF write_unlock_and_obsolete, WordInv, Writing
  <2>4. data' = committed'
    BY <1>8 DEF write_unlock_and_obsolete, Commit
  <2> QED
    BY <2>2, <2>3, <2>4 DEF WordInv, SomeoneWrites
<1> QED
  BY <1>1, <1>2, <1>3, <1>4, <1>5, <1>6, <1>7, <1>8 DEF ReadSection, WriteSection, Quiet

\* A step preserves the age of the versions held: an upgrade makes them all
\* smaller than the next free word.
LEMMA VersionStep ==
    ASSUME LockInv, NEW t \in Thread, ReadSection(t) \/ WriteSection(t)
    PROVE VersionInv'
<1> USE DEF LockInv, TypeOK, lockVars, threadVars, historyVars
<1>0. writes \in Nat /\ word \in Nat
  BY WordAssumption DEF Word
<1>1. CASE Quiet(t)
  BY <1>1, QuietSteps DEF VersionInv, SomeoneWrites
<1>2. CASE try_read_lock(t)
  <2>1. ~SomeoneWrites /\ word = 4 * writes
    <3>1. word # 4 * writes - 2 /\ ~is_obsolete(word)
      <4>1. word % 4 = 0
        BY <1>2 DEF try_read_lock, is_free
      <4> QED
        BY <1>0, <4>1 DEF is_obsolete, obsolete_lock_word
    <3> QED
      BY <3>1 DEF WordInv, SomeoneWrites
  <2>2. \A u \in Thread : Writing(u)' <=> Writing(u)
    BY <1>2 DEF try_read_lock, Writing
  <2>3. ~SomeoneWrites' /\ writes' = writes
    BY <1>2, <2>1, <2>2 DEF SomeoneWrites, try_read_lock
  <2>4. \A u \in Thread \ {t} : (HasVersion(u)' <=> HasVersion(u)) /\ version'[u] = version[u]
    BY <1>2 DEF try_read_lock, HasVersion
  <2>5. version'[t] = word /\ word % 4 = 0
    BY <1>2 DEF try_read_lock, is_free
  <2> QED
    BY <1>0, <2>1, <2>3, <2>4, <2>5 DEF VersionInv
<1>3. ASSUME NEW f \in Field, load(t, f)
      PROVE VersionInv'
  <2>1. \A u \in Thread : HasVersion(u)' => HasVersion(u) /\ version'[u] = version[u]
    BY <1>3 DEF load, HasVersion
  <2>2. \A u \in Thread : Writing(u)' <=> Writing(u)
    BY <1>3 DEF load, Writing
  <2>3. writes' = writes /\ (SomeoneWrites' <=> SomeoneWrites)
    BY <1>3, <2>2 DEF SomeoneWrites, load
  <2> QED
    BY <2>1, <2>3 DEF VersionInv
<1>4. CASE try_upgrade_to_write_lock(t)
  <2>1. ~SomeoneWrites /\ writes' = writes + 1
    BY <1>4, ValidVersion DEF try_upgrade_to_write_lock, Upgraded, HasVersion
  <2>2. \A u \in Thread : HasVersion(u)' => HasVersion(u) /\ version'[u] = version[u]
    BY <1>4 DEF try_upgrade_to_write_lock, Upgraded, HasVersion
  <2> QED
    <3> SUFFICES ASSUME NEW u \in Thread, HasVersion(u)'
                 PROVE /\ version'[u] % 4 = 0
                       /\ version'[u] <= 4 * writes'
                       /\ version'[u] <= 4 * writes' - 4
      BY DEF VersionInv
    <3>1. version'[u] = version[u] /\ version[u] % 4 = 0 /\ version[u] <= 4 * writes
      BY <2>2 DEF VersionInv
    <3>2. version[u] \in Nat
      BY WordAssumption DEF Word
    <3> QED
      BY <1>0, <2>1, <3>1, <3>2
<1>5. ASSUME NEW f \in Field, NEW v \in Value, store(t, f, v)
      PROVE VersionInv'
  <2>1. \A u \in Thread : HasVersion(u)' => HasVersion(u) /\ version'[u] = version[u]
    BY <1>5 DEF store, HasVersion
  <2>2. \A u \in Thread : Writing(u)' <=> Writing(u)
    BY <1>5 DEF store, Writing
  <2>3. writes' = writes /\ (SomeoneWrites' <=> SomeoneWrites)
    BY <1>5, <2>2 DEF SomeoneWrites, store
  <2> QED
    BY <2>1, <2>3 DEF VersionInv
<1>6. CASE write_unlock_load(t)
  <2>1. \A u \in Thread : HasVersion(u)' => HasVersion(u) /\ version'[u] = version[u]
    BY <1>6 DEF write_unlock_load, HasVersion
  <2>2. \A u \in Thread : Writing(u)' <=> Writing(u)
    BY <1>6 DEF write_unlock_load, Writing
  <2>3. writes' = writes /\ (SomeoneWrites' <=> SomeoneWrites)
    BY <1>6, <2>2 DEF SomeoneWrites, write_unlock_load
  <2> QED
    BY <2>1, <2>3 DEF VersionInv
<1>7. CASE write_unlock(t)
  <2>1. \A u \in Thread : HasVersion(u)' => HasVersion(u) /\ version'[u] = version[u]
    BY <1>7 DEF write_unlock, Forget, Commit, HasVersion
  <2>2. \A u \in Thread : ~Writing(u)'
    BY <1>7 DEF write_unlock, Forget, Commit, WordInv, Writing
  <2>3. ~SomeoneWrites' /\ writes' = writes
    BY <1>7, <2>2 DEF SomeoneWrites, write_unlock, Forget, Commit
  <2> QED
    BY <2>1, <2>3 DEF VersionInv
<1>8. CASE write_unlock_and_obsolete(t)
  <2>1. \A u \in Thread : HasVersion(u)' => HasVersion(u) /\ version'[u] = version[u]
    BY <1>8 DEF write_unlock_and_obsolete, Commit, HasVersion
  <2>2. \A u \in Thread : ~Writing(u)'
    BY <1>8 DEF write_unlock_and_obsolete, Commit, WordInv, Writing
  <2>3. ~SomeoneWrites' /\ writes' = writes
    BY <1>8, <2>2 DEF SomeoneWrites, write_unlock_and_obsolete, Commit
  <2> QED
    BY <2>1, <2>3 DEF VersionInv
<1> QED
  BY <1>1, <1>2, <1>3, <1>4, <1>5, <1>6, <1>7, <1>8 DEF ReadSection, WriteSection, Quiet

\* A step preserves the snapshots: the word moves on whenever the data may.
LEMMA SnapshotStep ==
    ASSUME LockInv, NEW t \in Thread, ReadSection(t) \/ WriteSection(t)
    PROVE ReadsAreSnapshot'
<1> USE DEF LockInv, TypeOK, lockVars, threadVars, historyVars
<1>0. writes \in Nat
  BY WordAssumption
<1>1. CASE Quiet(t)
  BY <1>1, QuietSteps DEF ReadsAreSnapshot
<1>2. CASE try_read_lock(t)
  <2>1. \A f \in Field : got[t][f] = Unread
    BY <1>2 DEF try_read_lock, NewReads, Nothing
  <2>2. \A u \in Thread \ {t} : HasVersion(u)' => HasVersion(u) /\ version'[u] = version[u]
    BY <1>2 DEF try_read_lock, HasVersion
  <2>3. UNCHANGED <<word, committed, got>>
    BY <1>2 DEF try_read_lock
  <2> QED
    BY <2>1, <2>2, <2>3 DEF ReadsAreSnapshot
<1>3. ASSUME NEW f \in Field, load(t, f)
      PROVE ReadsAreSnapshot'
  <2>1. UNCHANGED <<word, committed, version>> /\ HasVersion(t)
    BY <1>3 DEF load, HasVersion
  <2>2. \A u \in Thread : HasVersion(u)' <=> HasVersion(u)
    BY <1>3 DEF load, HasVersion
  <2>3. word = version[t] => data = committed
    BY <2>1, ValidVersion
  <2>4. \A u \in Thread, g \in Field :
            got'[u][g] = got[u][g] \/ (u = t /\ g = f /\ got'[u][g] = data[f])
    BY <1>3 DEF load
  <2> QED
    BY <2>1, <2>2, <2>3, <2>4 DEF ReadsAreSnapshot
<1>4. CASE try_upgrade_to_write_lock(t)
  <2>1. word' = 4 * writes' - 2 /\ writes' > 0
    BY WordStep, <1>4 DEF try_upgrade_to_write_lock, Upgraded, WordInv, Writing
  <2>2. \A u \in Thread : HasVersion(u)' => version'[u] % 4 = 0
    BY VersionStep DEF VersionInv
  <2>3. writes' \in Nat
    BY TypeStep, WordAssumption
  <2>4. word' % 4 # 0
    BY <2>1, <2>3, WordBits DEF is_free
  <2> QED
    BY <2>2, <2>4 DEF ReadsAreSnapshot
<1>5. ASSUME NEW f \in Field, NEW v \in Value, store(t, f, v)
      PROVE ReadsAreSnapshot'
  <2>1. UNCHANGED <<word, committed>>
    BY <1>5 DEF store
  <2>2. \A u \in Thread : HasVersion(u)' =>
            HasVersion(u) /\ version'[u] = version[u] /\ got'[u] = got[u]
    BY <1>5 DEF store, HasVersion
  <2> QED
    BY <2>1, <2>2 DEF ReadsAreSnapshot
<1>6. CASE write_unlock_load(t)
  <2>1. UNCHANGED <<word, committed>>
    BY <1>6 DEF write_unlock_load
  <2>2. \A u \in Thread : HasVersion(u)' =>
            HasVersion(u) /\ version'[u] = version[u] /\ got'[u] = got[u]
    BY <1>6 DEF write_unlock_load, HasVersion
  <2> QED
    BY <2>1, <2>2 DEF ReadsAreSnapshot
<1>7. CASE write_unlock(t)
  <2>1. Writing(t) /\ writes > 0 /\ writes' = writes /\ word' = 4 * writes /\ SomeoneWrites
    BY <1>7, NoWrap DEF write_unlock, WordInv, Writing, SomeoneWrites
  <2>2. \A u \in Thread : HasVersion(u)' => HasVersion(u) /\ version'[u] = version[u]
    BY <1>7 DEF write_unlock, Forget, HasVersion
  <2>3. \A u \in Thread : HasVersion(u)' => version'[u] <= 4 * writes - 4 /\ version'[u] \in Nat
    BY <2>1, <2>2, WordAssumption DEF VersionInv, Word
  <2>4. \A u \in Thread : HasVersion(u)' => version'[u] # word'
    BY <1>0, <2>1, <2>3
  <2> QED
    BY <2>4 DEF ReadsAreSnapshot
<1>8. CASE write_unlock_and_obsolete(t)
  <2>1. word' = 1
    BY <1>8 DEF write_unlock_and_obsolete, obsolete_lock_word
  <2>2. \A u \in Thread : HasVersion(u)' => version'[u] % 4 = 0
    BY VersionStep DEF VersionInv
  <2> QED
    BY <2>1, <2>2 DEF ReadsAreSnapshot
<1> QED
  BY <1>1, <1>2, <1>3, <1>4, <1>5, <1>6, <1>7, <1>8 DEF ReadSection, WriteSection, Quiet

\* A step preserves what the writer had read.
LEMMA WriterReadsStep ==
    ASSUME LockInv, NEW t \in Thread, ReadSection(t) \/ WriteSection(t)
    PROVE WriterReads'
<1> USE DEF LockInv, TypeOK, lockVars, threadVars, historyVars
<1>1. CASE Quiet(t)
  BY <1>1, QuietSteps DEF WriterReads
<1>2. CASE try_read_lock(t)
  <2>1. \A u \in Thread : Writing(u)' => Writing(u) /\ got'[u] = got[u]
    BY <1>2 DEF try_read_lock, Writing
  <2>2. committed' = committed
    BY <1>2 DEF try_read_lock
  <2> QED
    BY <2>1, <2>2 DEF WriterReads
<1>3. ASSUME NEW f \in Field, load(t, f)
      PROVE WriterReads'
  <2>1. \A u \in Thread : Writing(u)' => Writing(u) /\ got'[u] = got[u]
    BY <1>3 DEF load, Writing
  <2>2. committed' = committed
    BY <1>3 DEF load
  <2> QED
    BY <2>1, <2>2 DEF WriterReads
<1>4. CASE try_upgrade_to_write_lock(t)
  <2>1. HasVersion(t) /\ word = version[t] /\ UNCHANGED <<got, committed>>
    BY <1>4 DEF try_upgrade_to_write_lock, Upgraded, HasVersion
  <2>2. \A g \in Field : got[t][g] \in {committed[g], Unread}
    BY <2>1 DEF ReadsAreSnapshot
  <2>3. \A u \in Thread : Writing(u)' => Writing(u) \/ u = t
    BY <1>4 DEF try_upgrade_to_write_lock, Upgraded, Writing
  <2> QED
    BY <2>1, <2>2, <2>3 DEF WriterReads
<1>5. ASSUME NEW f \in Field, NEW v \in Value, store(t, f, v)
      PROVE WriterReads'
  <2>1. \A u \in Thread : Writing(u)' => Writing(u) /\ got'[u] = got[u]
    BY <1>5 DEF store, Writing
  <2>2. committed' = committed
    BY <1>5 DEF store
  <2> QED
    BY <2>1, <2>2 DEF WriterReads
<1>6. CASE write_unlock_load(t)
  <2>1. \A u \in Thread : Writing(u)' => Writing(u) /\ got'[u] = got[u]
    BY <1>6 DEF write_unlock_load, Writing
  <2>2. committed' = committed
    BY <1>6 DEF write_unlock_load
  <2> QED
    BY <2>1, <2>2 DEF WriterReads
<1>7. CASE write_unlock(t)
  <2>1. \A u \in Thread : ~Writing(u)'
    BY <1>7 DEF write_unlock, Forget, Commit, WordInv, Writing
  <2> QED
    BY <2>1 DEF WriterReads
<1>8. CASE write_unlock_and_obsolete(t)
  <2>1. \A u \in Thread : ~Writing(u)'
    BY <1>8 DEF write_unlock_and_obsolete, Commit, WordInv, Writing
  <2> QED
    BY <2>1 DEF WriterReads
<1> QED
  BY <1>1, <1>2, <1>3, <1>4, <1>5, <1>6, <1>7, <1>8 DEF ReadSection, WriteSection, Quiet

\* A step preserves that a new RCS has read nothing.
LEMMA NewReadsStep ==
    ASSUME LockInv, NEW t \in Thread, ReadSection(t) \/ WriteSection(t)
    PROVE NewReads'
<1> USE DEF LockInv, TypeOK, lockVars, threadVars, historyVars
<1>1. CASE begin_read(t)
  BY <1>1 DEF begin_read, Forget, NewReads, Nothing
<1>2. CASE try_read_lock(t)
  BY <1>2 DEF try_read_lock, NewReads
<1>3. CASE try_read_lock_obsolete(t)
  BY <1>3 DEF try_read_lock_obsolete, NewReads
<1>4. CASE inc_read_lock_count(t)
  BY <1>4 DEF inc_read_lock_count, NewReads
<1>5. CASE rehydrate_read_lock(t)
  BY <1>5 DEF rehydrate_read_lock, NewReads
<1>6. ASSUME NEW f \in Field, load(t, f)
      PROVE NewReads'
  BY <1>6 DEF load, NewReads
<1>7. CASE get(t)
  BY <1>7 DEF get, NewReads
<1>8. CASE check(t)
  BY <1>8 DEF check, NewReads
<1>9. CASE try_read_unlock(t)
  BY <1>9 DEF try_read_unlock, Forget, NewReads
<1>10. CASE version_mismatch(t)
  BY <1>10 DEF version_mismatch, Forget, NewReads
<1>11. CASE dec_read_lock_count(t)
  BY <1>11 DEF dec_read_lock_count, NewReads
<1>12. CASE restart(t)
  BY <1>12 DEF restart, Forget, NewReads
<1>13. CASE try_upgrade_to_write_lock(t)
  BY <1>13 DEF try_upgrade_to_write_lock, Upgraded, NewReads
<1>14. ASSUME NEW f \in Field, NEW v \in Value, store(t, f, v)
      PROVE NewReads'
  BY <1>14 DEF store, NewReads
<1>15. CASE write_unlock_load(t)
  BY <1>15 DEF write_unlock_load, NewReads
<1>16. CASE write_unlock(t)
  BY <1>16 DEF write_unlock, Forget, Commit, NewReads
<1>17. CASE write_unlock_and_obsolete(t)
  BY <1>17 DEF write_unlock_and_obsolete, Commit, NewReads
<1>18. CASE set_obsoleter_thread(t)
  BY <1>18 DEF set_obsoleter_thread, Forget, NewReads
<1> QED
  BY <1>1, <1>2, <1>3, <1>4, <1>5, <1>6, <1>7, <1>8, <1>9, <1>10, <1>11, <1>12, <1>13, <1>14, <1>15, <1>16, <1>17, <1>18 DEF ReadSection, WriteSection

\* A step preserves that one thread at most has made the lock obsolete.
LEMMA ObsoleteStep ==
    ASSUME LockInv, NEW t \in Thread, ReadSection(t) \/ WriteSection(t)
    PROVE ObsoleteInv'
<1> USE DEF LockInv, TypeOK, lockVars, threadVars, historyVars
<1>1. CASE begin_read(t)
  BY <1>1 DEF begin_read, Forget, ObsoleteInv, is_obsolete
<1>2. CASE try_read_lock(t)
  BY <1>2 DEF try_read_lock, ObsoleteInv, is_obsolete
<1>3. CASE try_read_lock_obsolete(t)
  BY <1>3 DEF try_read_lock_obsolete, ObsoleteInv, is_obsolete
<1>4. CASE inc_read_lock_count(t)
  BY <1>4 DEF inc_read_lock_count, ObsoleteInv, is_obsolete
<1>5. CASE rehydrate_read_lock(t)
  BY <1>5 DEF rehydrate_read_lock, ObsoleteInv, is_obsolete
<1>6. ASSUME NEW f \in Field, load(t, f)
      PROVE ObsoleteInv'
  BY <1>6 DEF load, ObsoleteInv, is_obsolete
<1>7. CASE get(t)
  BY <1>7 DEF get, ObsoleteInv, is_obsolete
<1>8. CASE check(t)
  BY <1>8 DEF check, ObsoleteInv, is_obsolete
<1>9. CASE try_read_unlock(t)
  BY <1>9 DEF try_read_unlock, Forget, ObsoleteInv, is_obsolete
<1>10. CASE version_mismatch(t)
  BY <1>10 DEF version_mismatch, Forget, ObsoleteInv, is_obsolete
<1>11. CASE dec_read_lock_count(t)
  BY <1>11 DEF dec_read_lock_count, ObsoleteInv, is_obsolete
<1>12. CASE restart(t)
  BY <1>12 DEF restart, Forget, ObsoleteInv, is_obsolete
<1>13. CASE try_upgrade_to_write_lock(t)
  <2>1. ~is_obsolete(word)
    BY <1>13, ValidVersion DEF try_upgrade_to_write_lock, HasVersion
  <2>2. obsoleter' = NoThread /\ \A u \in Thread : pc'[u] # "obsoleted"
    BY <1>13, <2>1 DEF try_upgrade_to_write_lock, Upgraded, ObsoleteInv
  <2> QED
    BY <2>2 DEF ObsoleteInv
<1>14. ASSUME NEW f \in Field, NEW v \in Value, store(t, f, v)
      PROVE ObsoleteInv'
  BY <1>14 DEF store, ObsoleteInv, is_obsolete
<1>15. CASE write_unlock_load(t)
  BY <1>15 DEF write_unlock_load, ObsoleteInv, is_obsolete
<1>16. CASE write_unlock(t)
  <2>1. ~is_obsolete(word)
    <3>1. word = 4 * writes - 2 /\ writes > 0 /\ writes \in Nat
      BY <1>16, WordAssumption DEF write_unlock, WordInv, Writing
    <3> QED
      BY <3>1, WordBits
  <2>2. obsoleter' = NoThread /\ \A u \in Thread : pc'[u] # "obsoleted"
    BY <1>16, <2>1 DEF write_unlock, Forget, Commit, ObsoleteInv
  <2> QED
    BY <2>2 DEF ObsoleteInv
<1>17. CASE write_unlock_and_obsolete(t)
  <2>1. ~is_obsolete(word)
    <3>1. word = 4 * writes - 2 /\ writes > 0 /\ writes \in Nat
      BY <1>17, WordAssumption DEF write_unlock_and_obsolete, WordInv, Writing
    <3> QED
      BY <3>1, WordBits
  <2>2. is_obsolete(word)'
    BY <1>17 DEF write_unlock_and_obsolete, is_obsolete
  <2>3. obsoleter' = NoThread /\ \A u \in Thread : pc[u] # "obsoleted"
    BY <1>17, <2>1 DEF write_unlock_and_obsolete, ObsoleteInv
  <2> QED
    BY <1>17, <2>2, <2>3 DEF write_unlock_and_obsolete, ObsoleteInv
<1>18. CASE set_obsoleter_thread(t)
  <2>1. is_obsolete(word)' /\ \A u \in Thread : pc'[u] # "obsoleted"
    BY <1>18 DEF set_obsoleter_thread, Forget, ObsoleteInv, is_obsolete
  <2> QED
    BY <2>1 DEF ObsoleteInv
<1> QED
  BY <1>1, <1>2, <1>3, <1>4, <1>5, <1>6, <1>7, <1>8, <1>9, <1>10, <1>11, <1>12, <1>13, <1>14, <1>15, <1>16, <1>17, <1>18 DEF ReadSection, WriteSection

\* Every step preserves the inductive invariant.
LEMMA LockInvStep == LockInv /\ [Next]_vars => LockInv'
<1> SUFFICES ASSUME LockInv, [Next]_vars PROVE LockInv'
  OBVIOUS
<1>1. ASSUME NEW t \in Thread, ReadSection(t) \/ WriteSection(t)
      PROVE LockInv'
  BY <1>1, TypeStep, CountStep, WordStep, VersionStep, NewReadsStep, SnapshotStep,
     WriterReadsStep, ObsoleteStep DEF LockInv
<1>2. CASE UNCHANGED vars
  <2> USE <1>2 DEF vars, lockVars, threadVars, historyVars
  <2>1. TypeOK' /\ ReadLockCountExact'
    BY DEF LockInv, TypeOK, ReadLockCountExact, Counted
  <2>2. WordInv' /\ VersionInv'
    BY DEF LockInv, WordInv, VersionInv, SomeoneWrites, Writing, HasVersion, is_obsolete
  <2>3. NewReads' /\ ReadsAreSnapshot' /\ WriterReads' /\ ObsoleteInv'
    BY DEF LockInv, NewReads, ReadsAreSnapshot, WriterReads, ObsoleteInv, Writing,
           HasVersion, is_obsolete
  <2> QED
    BY <2>1, <2>2, <2>3 DEF LockInv
<1> QED
  BY <1>1, <1>2 DEF Next

LEMMA LockInvariant == Spec => []LockInv
BY InitLock, LockInvStep, PTL DEF Spec

\* The inductive invariant implies what the lock bit says.
LEMMA LockInvOneWriter == LockInv => OneWriter
<1> SUFFICES ASSUME LockInv PROVE OneWriter
  OBVIOUS
<1>0. writes \in Nat /\ word \in Nat
  BY WordAssumption DEF LockInv, TypeOK, Word
<1>1. CASE SomeoneWrites
  <2>1. word = 4 * writes - 2 /\ writes > 0
    BY <1>1 DEF LockInv, WordInv, SomeoneWrites
  <2>2. is_write_locked(word)
    BY <1>0, <2>1, WordBits
  <2> QED
    BY <1>1, <2>2 DEF LockInv, WordInv, SomeoneWrites, OneWriter
<1>2. CASE ~SomeoneWrites
  <2>1. ~is_write_locked(word)
    BY <1>0, <1>2, WordBits DEF LockInv, WordInv, is_obsolete, obsolete_lock_word
  <2> QED
    BY <1>2, <2>1 DEF LockInv, WordInv, SomeoneWrites, OneWriter
<1> QED
  BY <1>1, <1>2

\* Types and mutual exclusion of write guards.
THEOREM LockCorrect == Spec => [](TypeOK /\ OneWriter)
<1>1. LockInv => TypeOK
  BY DEF LockInv
<1> QED
  BY <1>1, LockInvariant, LockInvOneWriter, PTL

\* The debug counter that inc_read_lock_count and dec_read_lock_count keep, and
\* that check_on_dealloc relies on, is the number of open read critical sections.
THEOREM ReadLocksCounted == Spec => []ReadLockCountExact
<1>1. LockInv => ReadLockCountExact
  BY DEF LockInv
<1> QED
  BY <1>1, LockInvariant, PTL

\* Whatever an RCS has read while the word is the one it started from is a
\* snapshot of the data left by the last write section.
THEOREM SnapshotsCorrect == Spec => []ReadsAreSnapshot
<1>1. LockInv => ReadsAreSnapshot
  BY DEF LockInv
<1> QED
  BY <1>1, LockInvariant, PTL

\* The lock is made obsolete at most once, by one thread, and for good.
THEOREM ObsoleteForGood == Spec => ObsoleteOnce
<1>1. LockInv /\ [Next]_vars =>
        [/\ is_obsolete(word) => is_obsolete(word')
         /\ obsoleter # NoThread => obsoleter' = obsoleter]_<<word, obsoleter>>
  <2> SUFFICES ASSUME LockInv, [Next]_vars, ~UNCHANGED <<word, obsoleter>>
               PROVE /\ is_obsolete(word) => is_obsolete(word')
                     /\ obsoleter # NoThread => obsoleter' = obsoleter
    OBVIOUS
  <2>1. PICK t \in Thread : ReadSection(t) \/ WriteSection(t)
    BY DEF Next, vars, lockVars
  <2> USE DEF lockVars, threadVars
  <2>2. CASE try_upgrade_to_write_lock(t)
    BY <2>2, ValidVersion DEF try_upgrade_to_write_lock, Upgraded, HasVersion
  <2>3. CASE write_unlock(t)
    <3>1. word = 4 * writes - 2 /\ writes > 0 /\ writes \in Nat
      BY <2>3, WordAssumption DEF write_unlock, LockInv, TypeOK, WordInv, Writing
    <3> QED
      BY <2>3, <3>1, WordBits DEF write_unlock
  <2>4. CASE write_unlock_and_obsolete(t)
    BY <2>4 DEF write_unlock_and_obsolete, is_obsolete
  <2>5. CASE set_obsoleter_thread(t)
    BY <2>5 DEF set_obsoleter_thread, LockInv, ObsoleteInv
  <2>6. CASE WriteSection(t) /\ UNCHANGED <<word, obsoleter>>
    BY <2>6
  <2>7. WriteSection(t) => \/ UNCHANGED <<word, obsoleter>>
                           \/ try_upgrade_to_write_lock(t) \/ write_unlock(t)
                           \/ write_unlock_and_obsolete(t) \/ set_obsoleter_thread(t)
    BY DEF WriteSection, store, write_unlock_load
  <2>8. ReadSection(t) => UNCHANGED <<word, obsoleter>>
    BY DEF ReadSection, begin_read, try_read_lock, try_read_lock_obsolete,
           inc_read_lock_count, rehydrate_read_lock, load, get, check, try_read_unlock,
           version_mismatch, dec_read_lock_count, restart
  <2> QED
    BY <2>1, <2>2, <2>3, <2>4, <2>5, <2>7, <2>8
<1> QED
  BY <1>1, LockInvariant, PTL DEF Spec, ObsoleteOnce

(***************************************************************************)
(* The refinement: validated reads are abstract reads, the end of a write  *)
(* section is the abstract read-modify-write.                              *)
(***************************************************************************)

\* Reads that agree with the committed data are a snapshot of some fields.
LEMMA ReadsAreSubset ==
    ASSUME LockInv, NEW t \in Thread,
           \A f \in Field : got[t][f] \in {committed[f], Unread}
    PROVE \E F \in SUBSET Field : got[t] = PD!Snapshot(F)
<1> DEFINE F == {f \in Field : got[t][f] # Unread}
<1>1. got[t] \in [Field -> Value \cup {Unread}]
  BY DEF LockInv, TypeOK
<1>2. got[t] = [f \in Field |-> got[t][f]]
  BY <1>1
<1>3. \A f \in Field : got[t][f] = IF f \in F THEN committed[f] ELSE Unread
  OBVIOUS
<1>4. got[t] = PD!Snapshot(F)
  BY <1>2, <1>3 DEF PD!Snapshot
<1> QED
  BY <1>4

LEMMA RefineRead ==
    ASSUME LockInv, NEW t \in Thread, check(t) \/ try_read_unlock(t)
    PROVE PD!Read
<1>1. HasVersion(t) /\ word = version[t] /\ answer' = got[t]
  BY DEF check, try_read_unlock, HasVersion
<1>2. UNCHANGED <<word, committed>>
  BY DEF check, try_read_unlock, lockVars
<1>3. ~is_obsolete(word) /\ is_obsolete(word') = is_obsolete(word)
  BY <1>1, <1>2, ValidVersion DEF is_obsolete
<1>4. \A f \in Field : got[t][f] \in {committed[f], Unread}
  BY <1>1 DEF LockInv, ReadsAreSnapshot
<1> QED
  BY <1>1, <1>2, <1>3, <1>4, ReadsAreSubset DEF PD!Read, is_obsolete

LEMMA RefineReadWrite ==
    ASSUME LockInv, NEW t \in Thread, write_unlock(t) \/ write_unlock_and_obsolete(t)
    PROVE PD!ReadWrite
<1>1. Writing(t) /\ answer' = got[t] /\ committed' = data
  BY DEF write_unlock, write_unlock_and_obsolete, Writing, Commit
<1>2. word = 4 * writes - 2 /\ writes > 0 /\ writes \in Nat
  BY <1>1, WordAssumption DEF LockInv, TypeOK, WordInv
<1>3. ~is_obsolete(word)
  BY <1>2, WordBits
<1>4. \E F \in SUBSET Field : answer' = PD!Snapshot(F)
  BY <1>1, ReadsAreSubset DEF LockInv, WriterReads
<1>5. committed' \in [Field -> Value]
  BY <1>1 DEF LockInv, TypeOK
<1> QED
  BY <1>3, <1>4, <1>5 DEF PD!ReadWrite, is_obsolete

\* The lock implements ProtectedData: every validated read is an atomic
\* snapshot, every write section an atomic read-modify-write, and nothing
\* happens to the data after it has been made obsolete.
THEOREM LockImplementsProtectedData == Spec => ImplementsProtectedData
<1>1. Init => PD!Init
  BY DEF Init, PD!Init, is_obsolete, obsolete_lock_word, Nothing
<1>2. LockInv /\ [Next]_vars => [PD!Next]_(PD!vars)
  <2> SUFFICES ASSUME LockInv, [Next]_vars PROVE [PD!Next]_(PD!vars)
    OBVIOUS
  <2> USE DEF lockVars, threadVars, historyVars
  <2>1. CASE UNCHANGED vars
    BY <2>1 DEF vars, PD!vars, is_obsolete
  <2>2. ASSUME NEW t \in Thread, ReadSection(t) PROVE [PD!Next]_(PD!vars)
    <3>1. CASE check(t) \/ try_read_unlock(t)
      BY <3>1, RefineRead DEF PD!Next
    <3>2. CASE UNCHANGED <<word, committed, answer>>
      BY <3>2 DEF PD!vars, is_obsolete
    <3> QED
      BY <2>2, <3>1, <3>2
      DEF ReadSection, begin_read, try_read_lock, try_read_lock_obsolete,
          inc_read_lock_count, rehydrate_read_lock, load, get,
          version_mismatch, dec_read_lock_count, restart
  <2>3. ASSUME NEW t \in Thread, WriteSection(t) PROVE [PD!Next]_(PD!vars)
    <3>1. CASE write_unlock(t) \/ write_unlock_and_obsolete(t)
      BY <3>1, RefineReadWrite DEF PD!Next
    <3>2. CASE UNCHANGED <<word, committed, answer>>
      BY <3>2 DEF PD!vars, is_obsolete
    <3>3. CASE try_upgrade_to_write_lock(t)
      <4>1. ~is_obsolete(word) /\ UNCHANGED <<committed, answer>>
        BY <3>3, ValidVersion DEF try_upgrade_to_write_lock, Upgraded, HasVersion
      <4>2. word' = 4 * writes' - 2 /\ writes' > 0 /\ writes' \in Nat
        BY <2>3, <3>3, WordStep, TypeStep, WordAssumption
        DEF try_upgrade_to_write_lock, Upgraded, WordInv, Writing, LockInv, TypeOK
      <4>3. ~is_obsolete(word')
        BY <4>2, WordBits
      <4> QED
        BY <4>1, <4>3 DEF PD!vars, is_obsolete
    <3> QED
      BY <2>3, <3>1, <3>2, <3>3
      DEF WriteSection, store, write_unlock_load, set_obsoleter_thread
  <2> QED
    BY <2>1, <2>2, <2>3 DEF Next
<1> QED
  BY <1>1, <1>2, LockInvariant, PTL DEF Spec, ImplementsProtectedData, PD!Spec
=============================================================================
