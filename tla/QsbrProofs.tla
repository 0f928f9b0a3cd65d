------------------------------ MODULE QsbrProofs ------------------------------
(***************************************************************************)
(* Proofs about Qsbr for any number of threads, addresses and epoch values *)
(* (at least two): counters and epochs, requests, grace periods, orphans.  *)
(***************************************************************************)
EXTENDS QsbrOrderly, FiniteSetTheorems, TLAPS

\* What the program points say about the word: a thread that is about to leave
\* the previous epoch, or that changes the epoch, does so in the epoch it loaded.
Control ==
    \A t \in Thread :
        /\ exiting[t] => pc[t] \in {"takePrev", "takeCur", "install", "unregister",
                                    "orphanPrev", "orphanCur"}
        /\ pc[t] \in {"unregister", "orphanPrev", "orphanCur"} => exiting[t]
        /\ prepared[t] => pc[t] = "unregister"
        /\ pc[t] = "leavePrev" => ~quiesced[t] /\ lastQ[t] = state.epoch
        /\ Changing(t) /\ ~exiting[t] =>
               ~quiesced[t] /\ lastQ[t] = state.epoch /\ state.prev = 0
        /\ (Changing(t) /\ exiting[t]) \/ prepared[t] => t \in InPrevious

CountInv == TypeOK /\ CountsExact /\ Control /\ OneEpochChanger

-------------------------------------------------------------------------------
\* Advancing an epoch gives another epoch: the values wrap around, and there are
\* at least two of them.
LEMMA AdvanceEpoch ==
    ASSUME NEW e \in Epoch
    PROVE  advance(e) \in Epoch /\ advance(e) # e
<1>1. CASE e + 1 < EpochCount
  BY <1>1, EpochAssumption DEF Epoch, advance
<1>2. CASE e + 1 = EpochCount
  BY <1>2, EpochAssumption DEF Epoch, advance
<1> QED
  BY <1>1, <1>2, EpochAssumption DEF Epoch

\* The placeholder of a snapshot not taken is a word.
LEMMA NoWordType == NoWord \in Word
  BY EpochAssumption DEF NoWord, Word, Epoch

\* The counters of the word as statements about the sets they count.
LEMMA Counters ==
    ASSUME TypeOK, CountsExact
    PROVE  /\ IsFiniteSet(Registered) /\ IsFiniteSet(InPrevious)
           /\ InPrevious \subseteq Registered
           /\ state.prev = 0 <=> InPrevious = {}
           /\ state.count = 0 <=> Registered = {}
           /\ \A t \in InPrevious : state.prev > 0
           /\ \A t \in Registered : state.count > 0
           /\ state.prev = 1 => \A t \in InPrevious : InPrevious = {t}
           /\ state.count = 1 => \A t \in Registered : Registered = {t}
<1>1. Registered \in SUBSET Thread /\ InPrevious \in SUBSET Registered
  BY DEF Registered, InPrevious
<1>2. IsFiniteSet(Registered) /\ IsFiniteSet(InPrevious)
  BY <1>1, ThreadAssumption, FS_Subset
<1>3. /\ state.prev = 0 <=> InPrevious = {}
      /\ state.count = 0 <=> Registered = {}
  BY <1>2, FS_EmptySet DEF CountsExact
<1>4. state.prev \in Nat /\ state.count \in Nat
  BY DEF TypeOK, Word
<1>5. /\ \A t \in InPrevious : state.prev > 0
      /\ \A t \in Registered : state.count > 0
  BY <1>3, <1>4
<1>6. ASSUME NEW S, IsFiniteSet(S), Cardinality(S) = 1, NEW t \in S
      PROVE  S = {t}
  <2>1. PICK x : S = {x}
    BY <1>6, FS_Singleton
  <2> QED
    BY <2>1
<1> QED
  BY <1>1, <1>2, <1>3, <1>5, <1>6 DEF CountsExact

\* A thread that is the last of the previous epoch finds nobody else changing the
\* epoch: a quitting changer would be in the previous epoch too, and a quiescent
\* one has left nobody there.
LEMMA LastOneAlone ==
    ASSUME CountInv, NEW t \in InPrevious, state.prev = 1
    PROVE  \A u \in Thread : Changing(u) => u = t
<1>1. InPrevious = {t}
  BY Counters DEF CountInv
<1> QED
  BY <1>1 DEF CountInv, Control

-------------------------------------------------------------------------------
\* One lemma per action that touches the word, the program points or the epochs.
LEMMA RegisterCounts ==
    ASSUME CountInv, NEW t \in Thread, register_thread(t)
    PROVE  CountInv'
<1> USE DEF CountInv
<1>1. TypeOK'
  BY DEF TypeOK, Word, register_thread, RegisteredAt, Goto, ProgramPoint,
         inc_thread_count_and_threads_in_previous_epoch, clientVars, takenVars
<1>2. Registered' = Registered \cup {t} /\ t \notin Registered
  BY DEF TypeOK, Registered, register_thread, Goto
<1>3. InPrevious' = InPrevious \cup {t} /\ t \notin InPrevious
  BY <1>2 DEF TypeOK, Word, Registered, InPrevious, Changing, register_thread, Goto,
         RegisteredAt, inc_thread_count_and_threads_in_previous_epoch
<1>4. CountsExact'
  <2>1. state'.count = state.count + 1 /\ state'.prev = state.prev + 1
    BY DEF register_thread, inc_thread_count_and_threads_in_previous_epoch
  <2>2. /\ Cardinality(Registered \cup {t}) = Cardinality(Registered) + 1
        /\ Cardinality(InPrevious \cup {t}) = Cardinality(InPrevious) + 1
    BY <1>2, <1>3, Counters, FS_AddElement
  <2> QED
    BY <1>2, <1>3, <2>1, <2>2 DEF CountsExact
<1>5. Control'
  <2>1. \A u \in Thread : Changing(u) /\ ~exiting[u] => FALSE
    BY Counters DEF Control, register_thread, Registered, Changing
  <2> QED
    BY <1>3, <2>1 DEF Control, TypeOK, Word, Changing, register_thread, Goto,
         RegisteredAt, inc_thread_count_and_threads_in_previous_epoch
<1>6. OneEpochChanger'
  BY DEF OneEpochChanger, TypeOK, Changing, register_thread, Goto, Quiet
<1> QED
  BY <1>1, <1>4, <1>5, <1>6

\* A thread that registers during an epoch change is counted, but not as one of the
\* previous epoch.
LEMMA RegisterSpinCounts ==
    ASSUME CountInv, NEW t \in Thread, register_thread_during_epoch_change(t)
    PROVE  CountInv'
<1> USE DEF CountInv
<1>1. TypeOK'
  BY DEF TypeOK, Word, register_thread_during_epoch_change, Goto, ProgramPoint,
         inc_thread_count, clientVars, takenVars, threadVars
<1>2. Registered' = Registered \cup {t} /\ t \notin Registered
  BY DEF TypeOK, Registered, register_thread_during_epoch_change, Goto
<1>3. InPrevious' = InPrevious
  BY <1>2 DEF TypeOK, Word, Registered, InPrevious, Changing,
         register_thread_during_epoch_change, Goto, inc_thread_count, threadVars
<1>4. CountsExact'
  <2>1. state'.count = state.count + 1 /\ state'.prev = state.prev
    BY DEF register_thread_during_epoch_change, inc_thread_count
  <2>2. Cardinality(Registered \cup {t}) = Cardinality(Registered) + 1
    BY <1>2, Counters, FS_AddElement
  <2> QED
    BY <1>2, <1>3, <2>1, <2>2 DEF CountsExact
<1>5. Control'
  BY <1>3 DEF Control, TypeOK, Word, Changing, register_thread_during_epoch_change,
         Goto, inc_thread_count, threadVars
<1>6. OneEpochChanger'
  BY DEF OneEpochChanger, TypeOK, Changing, register_thread_during_epoch_change, Goto, Quiet
<1> QED
  BY <1>1, <1>4, <1>5, <1>6

\* Its spin ends in the epoch that the change led to.
LEMMA SpinEndCounts ==
    ASSUME CountInv, NEW t \in Thread, register_thread_spin_end(t)
    PROVE  CountInv'
<1> USE DEF CountInv
<1>1. TypeOK'
  BY EpochAssumption
     DEF TypeOK, Word, NoWord, Epoch, register_thread_spin_end, RegisteredAt, Goto,
         ProgramPoint, clientVars, takenVars, globalVars
<1>2. Registered' = Registered
  BY DEF TypeOK, Registered, register_thread_spin_end, Goto
<1>3. InPrevious' = InPrevious
  BY <1>2 DEF TypeOK, Word, Registered, InPrevious, Changing,
         register_thread_spin_end, RegisteredAt, Goto, globalVars
<1>4. CountsExact'
  BY <1>2, <1>3 DEF CountsExact, register_thread_spin_end, globalVars
<1>5. Control'
  BY <1>3 DEF Control, TypeOK, Changing, register_thread_spin_end, RegisteredAt,
         Goto, globalVars
<1>6. OneEpochChanger'
  BY DEF OneEpochChanger, TypeOK, Changing, register_thread_spin_end, Goto, Quiet
<1> QED
  BY <1>1, <1>4, <1>5, <1>6

RequestSets == [seen : Epoch, prev : SUBSET Ptr, cur : SUBSET Ptr, done : SUBSET Ptr]

\* Requests move between sets of addresses.
LEMMA RequestTypes ==
    ASSUME TypeOK, NEW t \in Thread, NEW st, NEW e \in Epoch, NEW new \in SUBSET Ptr,
           NEW r \in RequestSets
    PROVE  /\ requests(t) \in RequestSets
           /\ execute_previous_requests(r, st, e, new) \in RequestSets
           /\ advance_last_seen_epoch(r, st, e, new) \in RequestSets
  BY DEF TypeOK, RequestSets, requests, execute_previous_requests,
         advance_last_seen_epoch

\* quiescent's own bookkeeping, before its fetch_sub, keeps the counters exact.
LEMMA QuiescentCounts ==
    ASSUME CountInv, NEW t \in Thread, quiescent(t)
    PROVE  CountInv'
<1> USE DEF CountInv
<1>1. TypeOK'
  <2> DEFINE r == advance_last_seen_epoch(requests(t), single_thread_mode(state),
                                          state.epoch, {})
  <2>1. r \in RequestSets
    <3>1. requests(t) \in RequestSets /\ state.epoch \in Epoch
      BY DEF TypeOK, Word, RequestSets, requests
    <3> QED
      BY <3>1, RequestTypes
  <2>2. StoreRequests(t, r) /\ deallocate(r.done)
    BY DEF quiescent
  <2> HIDE DEF r
  <2> QED
    BY <2>1, <2>2, EpochAssumption
       DEF TypeOK, Word, NoWord, Epoch, RequestSets, quiescent, StoreRequests, deallocate, Goto,
           ProgramPoint, takenVars, globalVars
<1>2. Registered' = Registered
  BY DEF TypeOK, Registered, quiescent, Quiet, Goto
<1>3. InPrevious' = InPrevious
  BY <1>2 DEF TypeOK, Word, Registered, InPrevious, Changing, quiescent, Quiet, Goto,
         globalVars
<1>4. CountsExact'
  BY <1>2, <1>3 DEF CountsExact, quiescent, globalVars
<1>5. Control'
  BY <1>3 DEF Control, TypeOK, Word, Changing, quiescent, Quiet, Goto, globalVars
<1>6. OneEpochChanger'
  BY DEF OneEpochChanger, TypeOK, Changing, quiescent, Goto, Quiet
<1> QED
  BY <1>1, <1>4, <1>5, <1>6

\* The fetch_sub of a quiescent thread takes exactly that thread out of the previous
\* epoch.
LEMMA LeavePreviousCounts ==
    ASSUME CountInv, NEW t \in Thread, remove_thread_from_previous_epoch(t)
    PROVE  CountInv'
<1> USE DEF CountInv
<1>0. t \in InPrevious
  BY DEF Control, InPrevious, Registered, Changing, remove_thread_from_previous_epoch
<1>1. TypeOK'
  <2>1. state.prev > 0
    BY <1>0, Counters
  <2>2. state' \in Word
    BY <2>1 DEF TypeOK, Word, remove_thread_from_previous_epoch,
           dec_threads_in_previous_epoch
  <2>3. single_thread_mode(state) \in BOOLEAN
    BY DEF TypeOK, Word, single_thread_mode
  <2>4. CASE state.prev > 1
    <3>1. /\ quiesced' = [quiesced EXCEPT ![t] = TRUE]
          /\ snap' = [snap EXCEPT ![t] = NoWord]
          /\ pc' = [pc EXCEPT ![t] = "run"]
          /\ UNCHANGED <<single, orphanPrev, orphanCur, lastQ, lastSeen, prevReq,
                         curReq, exiting, prepared, takenVars, clientVars>>
      BY <2>4, Zenon DEF remove_thread_from_previous_epoch, Goto
    <3> QED
      BY <2>2, <3>1, NoWordType DEF TypeOK, ProgramPoint, clientVars, takenVars
  <2>5. CASE ~(state.prev > 1)
    BY <2>2, <2>3, <2>5
       DEF TypeOK, remove_thread_from_previous_epoch, Goto, ProgramPoint,
           clientVars, takenVars
  <2> QED
    BY <2>4, <2>5
<1>2. Registered' = Registered
  BY DEF TypeOK, Registered, remove_thread_from_previous_epoch, Goto
<1>3. InPrevious' = InPrevious \ {t}
  <2>1. CASE state.prev > 1
    BY <1>2, <2>1 DEF TypeOK, Word, Registered, InPrevious, Changing, Control,
           remove_thread_from_previous_epoch, Goto, dec_threads_in_previous_epoch
  <2>2. CASE ~(state.prev > 1)
    BY <1>2, <2>2 DEF TypeOK, Word, Registered, InPrevious, Changing, Control,
           remove_thread_from_previous_epoch, Goto, dec_threads_in_previous_epoch
  <2> QED
    BY <2>1, <2>2
<1>4. CountsExact'
  <2>1. state'.count = state.count /\ state'.prev = state.prev - 1
    BY DEF remove_thread_from_previous_epoch, dec_threads_in_previous_epoch
  <2>2. Cardinality(InPrevious \ {t}) = Cardinality(InPrevious) - 1
    BY <1>0, Counters, FS_RemoveElement
  <2> QED
    BY <1>2, <1>3, <2>1, <2>2 DEF CountsExact
<1>5. Control'
  <2>1. state.prev > 0
    BY <1>0, Counters
  <2>2. \A u \in Thread : (Changing(u) /\ exiting[u]) \/ prepared[u] => u # t
    BY DEF Control, Changing, remove_thread_from_previous_epoch
  <2> QED
    BY <1>3, <2>1, <2>2 DEF Control, TypeOK, Word, Changing,
         remove_thread_from_previous_epoch, Goto, dec_threads_in_previous_epoch
<1>6. OneEpochChanger'
  <2>1. ~(state.prev > 1) => \A u \in Thread : ~Changing(u)
    <3>1. ~(state.prev > 1) => state.prev = 1
      BY <1>0, Counters DEF TypeOK, Word
    <3> QED
      BY <1>0, <3>1, LastOneAlone DEF Changing, remove_thread_from_previous_epoch
  <2> QED
    BY <2>1 DEF OneEpochChanger, TypeOK, Changing, remove_thread_from_previous_epoch, Goto
<1> QED
  BY <1>1, <1>4, <1>5, <1>6

\* Taking the previous orphans touches no counter.
LEMMA TakePreviousCounts ==
    ASSUME CountInv, NEW t \in Thread, take_previous_orphans(t)
    PROVE  CountInv'
<1> USE DEF CountInv
<1>1. TypeOK'
  BY DEF TypeOK, take_previous_orphans, Goto, ProgramPoint, clientVars, threadVars
<1>2. Registered' = Registered
  BY DEF TypeOK, Registered, take_previous_orphans, Goto
<1>3. InPrevious' = InPrevious
  BY <1>2 DEF TypeOK, InPrevious, Changing, take_previous_orphans, Goto, threadVars
<1>4. CountsExact'
  BY <1>2, <1>3 DEF CountsExact, take_previous_orphans
<1>5. Control'
  BY <1>3 DEF Control, TypeOK, Changing, take_previous_orphans, Goto, threadVars
<1>6. OneEpochChanger'
  BY DEF OneEpochChanger, TypeOK, Changing, take_previous_orphans, Goto, Quiet
<1> QED
  BY <1>1, <1>4, <1>5, <1>6

\* Nor does taking the current ones,
LEMMA TakeCurrentCounts ==
    ASSUME CountInv, NEW t \in Thread, take_current_orphans(t)
    PROVE  CountInv'
<1> USE DEF CountInv
<1>1. TypeOK'
  BY DEF TypeOK, take_current_orphans, deallocate, Goto, ProgramPoint, threadVars
<1>2. Registered' = Registered
  BY DEF TypeOK, Registered, take_current_orphans, Goto
<1>3. InPrevious' = InPrevious
  BY <1>2 DEF TypeOK, InPrevious, Changing, take_current_orphans, Goto, threadVars
<1>4. CountsExact'
  BY <1>2, <1>3 DEF CountsExact, take_current_orphans
<1>5. Control'
  BY <1>3 DEF Control, TypeOK, Changing, take_current_orphans, Goto, threadVars
<1>6. OneEpochChanger'
  BY DEF OneEpochChanger, TypeOK, Changing, take_current_orphans, Goto, Quiet
<1> QED
  BY <1>1, <1>4, <1>5, <1>6

\* nor making them the previous ones.
LEMMA InstallCounts ==
    ASSUME CountInv, NEW t \in Thread, install_previous_orphans(t)
    PROVE  CountInv'
<1> USE DEF CountInv
<1>1. TypeOK'
  BY DEF TypeOK, install_previous_orphans, deallocate, Goto, ProgramPoint, threadVars
<1>2. Registered' = Registered
  BY DEF TypeOK, Registered, install_previous_orphans, Goto
<1>3. InPrevious' = InPrevious
  BY <1>2 DEF TypeOK, Control, InPrevious, Changing, install_previous_orphans, Goto,
         threadVars
<1>4. CountsExact'
  BY <1>2, <1>3 DEF CountsExact, install_previous_orphans
<1>5. Control'
  BY <1>3 DEF Control, TypeOK, Changing, install_previous_orphans, Goto, threadVars
<1>6. OneEpochChanger'
  BY DEF OneEpochChanger, TypeOK, Changing, install_previous_orphans, Goto, Quiet
<1> QED
  BY <1>1, <1>4, <1>5, <1>6

\* A thread that starts to quit is counted until its compare-exchange.
LEMMA UnregisterCounts ==
    ASSUME CountInv, NEW t \in Thread, unregister_thread(t)
    PROVE  CountInv'
<1> USE DEF CountInv
<1>0. single_thread_mode(state) \in BOOLEAN /\ advance_epoch(t, state) \in BOOLEAN
  BY DEF TypeOK, Word, single_thread_mode, advance_epoch, remove_thread_from_old_epoch
<1>1. TypeOK'
  BY <1>0 DEF TypeOK, unregister_thread, UnregisterWith, Goto, ProgramPoint, clientVars,
         threadVars, globalVars, takenVars
<1>2. Registered' = Registered
  BY DEF TypeOK, Registered, unregister_thread, UnregisterWith, Goto, Quiet
<1>3. InPrevious' = InPrevious
  BY <1>2 DEF TypeOK, InPrevious, Changing, unregister_thread, UnregisterWith, Goto,
         Quiet, threadVars, globalVars
<1>4. CountsExact'
  BY <1>2, <1>3 DEF CountsExact, unregister_thread, globalVars
<1>5. Control'
  <2>1. advance_epoch(t, state) => t \in InPrevious
    BY DEF advance_epoch, remove_thread_from_old_epoch, InPrevious, Registered,
           Changing, unregister_thread, Quiet
  <2> QED
    BY <1>3, <2>1 DEF Control, TypeOK, Changing, unregister_thread, UnregisterWith,
       Goto, Quiet, threadVars, globalVars
<1>6. OneEpochChanger'
  <2>1. advance_epoch(t, state) => \A u \in Thread : ~Changing(u)
    <3>1. advance_epoch(t, state) => t \in InPrevious /\ state.prev = 1
      BY DEF advance_epoch, remove_thread_from_old_epoch, InPrevious, Registered,
             Changing, unregister_thread, Quiet
    <3> QED
      BY <3>1, LastOneAlone DEF Changing, unregister_thread, Quiet
  <2> QED
    BY <2>1 DEF OneEpochChanger, TypeOK, Changing, unregister_thread, UnregisterWith, Goto
<1> QED
  BY <1>1, <1>4, <1>5, <1>6

\* A failed compare-exchange only renews the snapshot.
LEMMA UnregisterAgainCounts ==
    ASSUME CountInv, NEW t \in Thread, unregister_thread_cas_failed(t)
    PROVE  CountInv'
<1> USE DEF CountInv
<1>0. single_thread_mode(state) \in BOOLEAN /\ advance_epoch(t, state) \in BOOLEAN
  BY DEF TypeOK, Word, single_thread_mode, advance_epoch, remove_thread_from_old_epoch
<1>1. TypeOK'
  BY <1>0 DEF TypeOK, unregister_thread_cas_failed, UnregisterWith, Goto, ProgramPoint,
         clientVars, threadVars, globalVars, takenVars
<1>2. Registered' = Registered
  BY DEF TypeOK, Registered, unregister_thread_cas_failed, UnregisterWith, Goto
<1>3. InPrevious' = InPrevious
  BY <1>2 DEF TypeOK, Control, InPrevious, Changing, unregister_thread_cas_failed,
         UnregisterWith, Goto, threadVars, globalVars
<1>4. CountsExact'
  BY <1>2, <1>3 DEF CountsExact, unregister_thread_cas_failed, globalVars
<1>5. Control'
  <2>1. advance_epoch(t, state) => t \in InPrevious
    BY DEF advance_epoch, remove_thread_from_old_epoch, InPrevious, Registered,
           Changing, unregister_thread_cas_failed
  <2> QED
    BY <1>3, <2>1 DEF Control, TypeOK, Changing, unregister_thread_cas_failed,
       UnregisterWith, Goto, threadVars, globalVars
<1>6. OneEpochChanger'
  <2>1. advance_epoch(t, state) => \A u \in Thread : ~Changing(u)
    <3>1. advance_epoch(t, state) => t \in InPrevious /\ state.prev = 1
      BY DEF advance_epoch, remove_thread_from_old_epoch, InPrevious, Registered,
             Changing, unregister_thread_cas_failed, Quiet
    <3> QED
      BY <3>1, LastOneAlone DEF Changing, unregister_thread_cas_failed, Quiet
  <2> QED
    BY <2>1 DEF OneEpochChanger, TypeOK, Changing, unregister_thread_cas_failed, UnregisterWith, Goto
<1> QED
  BY <1>1, <1>4, <1>5, <1>6

\* The requests of a thread after change_epoch, and after unregister_thread.
ChangeRequests(t) ==
    execute_previous_requests(requests(t), single_thread_mode(snap[t]),
                              advance(state.epoch), {})

SeenRequests(t) ==
    IF snap[t].prev = 0 THEN requests(t)
    ELSE advance_last_seen_epoch(requests(t), single_thread_mode(snap[t]),
                                 snap[t].epoch, {})

QuitRequests(t) ==
    IF advance_epoch(t, snap[t])
    THEN execute_previous_requests(SeenRequests(t), single_thread_mode(snap[t]),
                                   advance(snap[t].epoch), {})
    ELSE SeenRequests(t)

\* What change_epoch does, and to whom: everybody has left the previous epoch, and
\* everybody owes the next one a quiescent state.
ChangeEpochEffect(t) ==
    /\ pc[t] = "publish" /\ ~exiting[t] /\ ~quiesced[t]
    /\ lastQ[t] = state.epoch /\ state.prev = 0 /\ InPrevious = {}
    /\ \A u \in Thread : u # t => ~Changing(u)
    /\ \A u \in Registered : pc[u] # "spin" => lastQ[u] = state.epoch
    /\ advance(state.epoch) \in Epoch /\ advance(state.epoch) # state.epoch
    /\ state' = [epoch |-> advance(state.epoch), count |-> state.count,
                 prev |-> state.count]
    /\ lastQ' = [lastQ EXCEPT ![t] = advance(state.epoch)]
    /\ StoreRequests(t, ChangeRequests(t))
    /\ deallocate(ChangeRequests(t).done)
    /\ snap' = [snap EXCEPT ![t] = NoWord]
    /\ pc' = [pc EXCEPT ![t] = "run"]
    /\ UNCHANGED <<orphanPrev, orphanCur, quiesced, exiting, prepared, single,
                   takenVars, holds, hand>>
    /\ Registered' = Registered /\ InPrevious' = Registered

\* What change_epoch does to the word and to the vectors of its thread.
LEMMA ChangeEpochFacts ==
    ASSUME CountInv, NEW t \in Thread, change_epoch(t)
    PROVE  ChangeEpochEffect(t)
<1> USE DEF CountInv
<1>0. /\ pc[t] = "publish" /\ ~exiting[t] /\ ~quiesced[t]
      /\ lastQ[t] = state.epoch /\ state.prev = 0
      /\ Changing(t)
      /\ InPrevious = {}
      /\ state.epoch \in Epoch
  BY Counters DEF Control, Changing, change_epoch, TypeOK, Word
<1> DEFINE new == advance(state.epoch)
<1>1. new \in Epoch /\ new # state.epoch
  BY <1>0, AdvanceEpoch
<1>2. /\ state' = [epoch |-> new, count |-> state.count, prev |-> state.count]
      /\ lastQ' = [lastQ EXCEPT ![t] = new]
      /\ StoreRequests(t, ChangeRequests(t))
      /\ deallocate(ChangeRequests(t).done)
      /\ snap' = [snap EXCEPT ![t] = NoWord]
      /\ pc' = [pc EXCEPT ![t] = "run"]
      /\ UNCHANGED <<orphanPrev, orphanCur, quiesced, exiting, prepared, single,
                     takenVars, holds, hand>>
  BY <1>0 DEF change_epoch, Goto, inc_epoch_reset_previous, ChangeRequests
<1> HIDE DEF new
<1>3. \A u \in Thread : u # t => ~Changing(u)
  BY <1>0 DEF OneEpochChanger
<1>4. \A u \in Registered : pc[u] # "spin" => lastQ[u] = state.epoch
  <2>1. ASSUME NEW u \in Registered, pc[u] # "spin"
        PROVE  lastQ[u] = state.epoch
    <3>1. u \in Thread /\ u \notin InPrevious
      BY <1>0 DEF Registered
    <3> QED
      BY <1>0, <1>3, <2>1, <3>1 DEF InPrevious
  <2> QED
    BY <2>1
<1>5. Registered' = Registered
  BY <1>0, <1>2 DEF TypeOK, Registered
<1>6. InPrevious' = Registered
  <2>1. ASSUME NEW u \in Registered
        PROVE  u \in InPrevious'
    <3>1. CASE u = t
      BY <1>0, <1>2, <1>5, <3>1 DEF TypeOK, InPrevious, Changing
    <3>2. CASE u # t
      <4>1. u \in Thread /\ u \notin InPrevious /\ ~Changing(u)
        BY <1>0, <1>3, <3>2 DEF Registered
      <4> QED
        BY <1>1, <1>2, <1>5, <3>2, <4>1 DEF TypeOK, InPrevious, Changing, Registered
    <3> QED
      BY <3>1, <3>2
  <2> QED
    BY <1>5, <2>1 DEF InPrevious
<1> QED
  BY <1>0, <1>1, <1>2, <1>3, <1>4, <1>5, <1>6 DEF new, ChangeEpochEffect

\* An epoch change counts every thread as owing a quiescent state.
LEMMA ChangeEpochCounts ==
    ASSUME CountInv, NEW t \in Thread, change_epoch(t)
    PROVE  CountInv'
<1> USE DEF CountInv
<1>1. ChangeEpochEffect(t)
  BY ChangeEpochFacts
<1>2. TypeOK'
  <2>1. ChangeRequests(t) \in RequestSets
    <3>1. requests(t) \in RequestSets
      BY DEF TypeOK, RequestSets, requests
    <3> QED
      BY <1>1, <3>1, RequestTypes DEF ChangeEpochEffect, ChangeRequests
  <2> QED
    BY <1>1, <2>1, NoWordType
       DEF TypeOK, Word, RequestSets, StoreRequests, deallocate, ProgramPoint, takenVars,
           ChangeEpochEffect
<1>3. CountsExact'
  BY <1>1 DEF CountsExact, ChangeEpochEffect
<1>4. Control'
  <2>1. \A u \in Thread : Changing(u)' => FALSE
    BY <1>1 DEF OneEpochChanger, Changing, TypeOK, ChangeEpochEffect
  <2>2. \A u \in Thread : ~prepared[u] /\ pc[u] # "leavePrev"
    BY <1>1 DEF Control, InPrevious, Registered, Changing, ChangeEpochEffect
  <2> QED
    BY <1>1, <2>1, <2>2 DEF Control, TypeOK, ChangeEpochEffect
<1>5. OneEpochChanger'
  BY <1>1 DEF OneEpochChanger, Changing, TypeOK, ChangeEpochEffect
<1> QED
  BY <1>2, <1>3, <1>4, <1>5

\* What the last compare-exchange of unregister_thread does: if the thread was the
\* last of the previous epoch, the epoch changes and everybody else owes it a
\* quiescent state; otherwise the thread only leaves the sets it was in.
UnregisterEffect(t) ==
    /\ pc[t] = "unregister" /\ state = snap[t] /\ exiting[t]
    /\ t \in Registered /\ ~Changing(t)
    /\ StoreRequests(t, QuitRequests(t))
    /\ deallocate(QuitRequests(t).done)
    /\ prepared' = [prepared EXCEPT ![t] = FALSE]
    /\ snap' = [snap EXCEPT ![t] = NoWord]
    /\ pc' = [pc EXCEPT ![t] = "orphanPrev"]
    /\ UNCHANGED <<orphanPrev, orphanCur, lastQ, quiesced, exiting, single,
                   takenVars, holds, hand>>
    /\ remove_thread_from_old_epoch(t, state) <=> t \in InPrevious
    /\ Registered' = Registered \ {t}
    /\ state.count > 0

LastQuits(t) ==
    /\ t \in InPrevious /\ state.prev = 1
    /\ advance_epoch(t, state)
    /\ InPrevious = {t}
    /\ \A u \in Thread : ~Changing(u)
    /\ \A u \in Registered \ {t} : pc[u] # "spin" => lastQ[u] = state.epoch
    /\ advance(state.epoch) \in Epoch /\ advance(state.epoch) # state.epoch
    /\ state' = [epoch |-> advance(state.epoch), count |-> state.count - 1,
                 prev |-> state.count - 1]
    /\ InPrevious' = Registered \ {t}

OtherQuits(t) ==
    /\ ~advance_epoch(t, state)
    /\ t \in InPrevious => state.prev > 1
    /\ state' = [epoch |-> state.epoch, count |-> state.count - 1,
                 prev |-> IF t \in InPrevious THEN state.prev - 1 ELSE state.prev]
    /\ InPrevious' = InPrevious \ {t}

\* A quitting thread either was the last of the previous epoch and advances it, or
\* leaves the epoch alone.
LEMMA UnregisterFacts ==
    ASSUME CountInv, NEW t \in Thread, unregister_thread_cas(t)
    PROVE  UnregisterEffect(t) /\ (LastQuits(t) \/ OtherQuits(t))
<1> USE DEF CountInv
<1> DEFINE new == advance(state.epoch)
<1>0. /\ pc[t] = "unregister" /\ state = snap[t] /\ exiting[t]
      /\ t \in Registered /\ ~Changing(t)
      /\ state \in Word /\ state.count > 0
  BY Counters DEF unregister_thread_cas, Control, Registered, Changing, TypeOK
<1>1. new \in Epoch /\ new # state.epoch /\ state.epoch \in Epoch
  BY <1>0, AdvanceEpoch DEF Word
<1>2. /\ StoreRequests(t, QuitRequests(t))
      /\ deallocate(QuitRequests(t).done)
      /\ prepared' = [prepared EXCEPT ![t] = FALSE]
      /\ snap' = [snap EXCEPT ![t] = NoWord]
      /\ pc' = [pc EXCEPT ![t] = "orphanPrev"]
      /\ UNCHANGED <<orphanPrev, orphanCur, lastQ, quiesced, exiting, single,
                     takenVars, holds, hand>>
  BY DEF unregister_thread_cas, Goto, SeenRequests, QuitRequests
<1>3. remove_thread_from_old_epoch(t, state) <=> t \in InPrevious
  <2>1. t \in InPrevious => state.prev > 0
    BY Counters
  <2>2. state.prev = 0 => t \notin InPrevious
    BY Counters
  <2> QED
    BY <1>0, <2>1, <2>2 DEF remove_thread_from_old_epoch, InPrevious, Changing, Word
<1>4. state' = IF t \in InPrevious
               THEN IF state.prev = 1
                    THEN [epoch |-> new, count |-> state.count - 1,
                          prev |-> state.count - 1]
                    ELSE [epoch |-> state.epoch, count |-> state.count - 1,
                          prev |-> state.prev - 1]
               ELSE [epoch |-> state.epoch, count |-> state.count - 1,
                     prev |-> state.prev]
  BY <1>0, <1>3 DEF unregister_thread_cas, advance_epoch, dec_thread_count,
     dec_thread_count_threads_in_previous_epoch_maybe_advance,
     inc_epoch_dec_thread_count_reset_previous
<1> HIDE DEF new
<1>5. Registered' = Registered \ {t}
  BY <1>2 DEF TypeOK, Registered
<1>6. UnregisterEffect(t)
  BY <1>0, <1>2, <1>3, <1>5 DEF UnregisterEffect
<1>7. CASE t \in InPrevious /\ state.prev = 1
  <2>1. InPrevious = {t} /\ \A u \in Thread : ~Changing(u)
    BY <1>0, <1>7, Counters, LastOneAlone
  <2>2. ASSUME NEW u \in Registered \ {t}
        PROVE  (pc[u] # "spin" => lastQ[u] = state.epoch) /\ u \in InPrevious'
    <3>1. u \notin InPrevious /\ ~Changing(u)
      BY <2>1 DEF Registered
    <3>2. pc[u] # "spin" => lastQ[u] = state.epoch
      BY <3>1 DEF InPrevious
    <3> QED
      BY <1>1, <1>2, <1>4, <1>5, <1>7, <3>1, <3>2
         DEF TypeOK, InPrevious, Changing, Registered
  <2>3. InPrevious' = Registered \ {t}
    BY <1>5, <2>2 DEF InPrevious
  <2>4. advance_epoch(t, state)
    BY <1>3, <1>7 DEF advance_epoch
  <2> QED
    BY <1>1, <1>4, <1>6, <1>7, <2>1, <2>2, <2>3, <2>4 DEF LastQuits, new
<1>8. CASE ~(t \in InPrevious /\ state.prev = 1)
  <2>1. ~advance_epoch(t, state)
    BY <1>3, <1>8 DEF advance_epoch
  <2>2. t \in InPrevious => state.prev > 1
    BY <1>0, <1>8, Counters DEF Word
  <2>3. InPrevious' = InPrevious \ {t}
    BY <1>0, <1>2, <1>4, <1>5, <1>8 DEF InPrevious, Registered, Changing, TypeOK
  <2> QED
    BY <1>4, <1>6, <1>8, <2>1, <2>2, <2>3 DEF OtherQuits
<1> QED
  BY <1>7, <1>8

\* Either way the counters stay exact.
LEMMA UnregisterDoneCounts ==
    ASSUME CountInv, NEW t \in Thread, unregister_thread_cas(t)
    PROVE  CountInv'
<1> USE DEF CountInv
<1>1. UnregisterEffect(t) /\ (LastQuits(t) \/ OtherQuits(t))
  BY UnregisterFacts
<1>2. state \in Word /\ state.epoch \in Epoch /\ advance(state.epoch) \in Epoch
  BY AdvanceEpoch DEF TypeOK, Word
<1>3. TypeOK'
  <2>1. QuitRequests(t) \in RequestSets
    <3>1. requests(t) \in RequestSets
      BY DEF TypeOK, RequestSets, requests
    <3>2. snap[t] = state
      BY <1>1 DEF UnregisterEffect
    <3>3. SeenRequests(t) \in RequestSets
      BY <1>2, <3>1, <3>2, RequestTypes DEF SeenRequests
    <3> QED
      BY <1>2, <3>2, <3>3, RequestTypes DEF QuitRequests
  <2>2. state' \in Word
    BY <1>1, <1>2 DEF UnregisterEffect, LastQuits, OtherQuits, Word
  <2> QED
    BY <1>1, <2>1, <2>2, NoWordType
       DEF TypeOK, RequestSets, StoreRequests, deallocate, ProgramPoint, takenVars,
           UnregisterEffect
<1>4. Cardinality(Registered \ {t}) = Cardinality(Registered) - 1
  BY <1>1, Counters, FS_RemoveElement DEF UnregisterEffect
<1>5. OneEpochChanger'
  BY <1>1 DEF OneEpochChanger, Changing, TypeOK, UnregisterEffect
<1>6. CASE LastQuits(t)
  <2>1. CountsExact'
    BY <1>1, <1>4, <1>6 DEF CountsExact, UnregisterEffect, LastQuits
  <2>2. Control'
    <3>1. \A u \in Thread : ~Changing(u)'
      BY <1>1, <1>6 DEF Changing, TypeOK, UnregisterEffect, LastQuits
    <3>2. \A u \in Thread : u # t => ~prepared[u] /\ pc[u] # "leavePrev"
      BY <1>6 DEF Control, InPrevious, Registered, Changing, LastQuits
    <3> QED
      BY <1>1, <3>1, <3>2 DEF Control, TypeOK, UnregisterEffect
  <2> QED
    BY <1>3, <1>5, <2>1, <2>2
<1>7. CASE OtherQuits(t)
  <2>1. CountsExact'
    <3>1. Cardinality(InPrevious \ {t}) = IF t \in InPrevious
                                          THEN Cardinality(InPrevious) - 1
                                          ELSE Cardinality(InPrevious)
      BY Counters, FS_RemoveElement
    <3> QED
      BY <1>1, <1>4, <1>7, <3>1 DEF CountsExact, UnregisterEffect, OtherQuits
  <2>2. Control'
    <3>1. t \in InPrevious => \A u \in Thread : ~Changing(u) \/ exiting[u]
      BY Counters DEF Control
    <3> QED
      BY <1>1, <1>7, <3>1 DEF Control, Changing, TypeOK, UnregisterEffect, OtherQuits
  <2> QED
    BY <1>3, <1>5, <2>1, <2>2
<1> QED
  BY <1>1, <1>6, <1>7

\* Orphaning the requests of a thread that has quit touches no counter.
LEMMA OrphanPreviousCounts ==
    ASSUME CountInv, NEW t \in Thread, orphan_previous_requests(t)
    PROVE  CountInv'
<1> USE DEF CountInv
<1>1. TypeOK'
  BY DEF TypeOK, orphan_previous_requests, Goto, ProgramPoint, clientVars, takenVars
<1>2. Registered' = Registered /\ InPrevious' = InPrevious
  BY DEF TypeOK, Registered, InPrevious, Changing, orphan_previous_requests, Goto
<1>3. CountsExact'
  BY <1>2 DEF CountsExact, orphan_previous_requests
<1>4. Control'
  BY <1>2 DEF Control, TypeOK, Changing, orphan_previous_requests, Goto
<1>5. OneEpochChanger'
  BY DEF OneEpochChanger, TypeOK, Changing, orphan_previous_requests, Goto
<1> QED
  BY <1>1, <1>3, <1>4, <1>5

\* The same for its current requests.
LEMMA OrphanCurrentCounts ==
    ASSUME CountInv, NEW t \in Thread, orphan_current_requests(t)
    PROVE  CountInv'
<1> USE DEF CountInv
<1>1. TypeOK'
  BY DEF TypeOK, orphan_current_requests, Goto, ProgramPoint, clientVars, takenVars
<1>2. Registered' = Registered /\ InPrevious' = InPrevious
  BY DEF TypeOK, Registered, InPrevious, Changing, orphan_current_requests, Goto
<1>3. CountsExact'
  BY <1>2 DEF CountsExact, orphan_current_requests
<1>4. Control'
  BY <1>2 DEF Control, TypeOK, Changing, orphan_current_requests, Goto
<1>5. OneEpochChanger'
  BY DEF OneEpochChanger, TypeOK, Changing, orphan_current_requests, Goto
<1> QED
  BY <1>1, <1>3, <1>4, <1>5

\* The client changes neither the word nor the program points.
LEMMA ClientCounts ==
    ASSUME CountInv, NEW t \in Thread, Client(t)
    PROVE  CountInv'
<1> USE DEF CountInv
<1>1. UNCHANGED <<state, pc, exiting, prepared, snap, lastQ, quiesced>>
  BY DEF Client, Allocate, register_active_ptr, unregister_active_ptr, Unlink,
         on_next_epoch_deallocate, globalVars, threadVars, controlVars
<1>2. CountsExact' /\ Control' /\ OneEpochChanger'
  BY <1>1 DEF CountsExact, Control, OneEpochChanger, Registered, InPrevious, Changing
<1>3. CASE on_next_epoch_deallocate(t)
  <2> DEFINE p == hand[t]
             st == single_thread_mode(state)
             r == advance_last_seen_epoch(requests(t), st, state.epoch,
                                          IF st THEN {} ELSE {p})
             q == IF ~st /\ lastSeen[t] = state.epoch
                  THEN [seen |-> r.seen, prev |-> r.prev, cur |-> r.cur \cup {p},
                        done |-> r.done]
                  ELSE r
             d == r.done \cup (IF st THEN {p} ELSE {})
  <2>1. p \in Ptr
    BY <1>3 DEF on_next_epoch_deallocate, TypeOK
  <2>2. r \in RequestSets
    <3>1. requests(t) \in RequestSets /\ state.epoch \in Epoch
      BY DEF TypeOK, Word, RequestSets, requests
    <3>2. (IF st THEN {} ELSE {p}) \in SUBSET Ptr
      BY <2>1
    <3> QED
      BY <3>1, <3>2, RequestTypes
  <2>3. /\ StoreRequests(t, q)
        /\ deallocate(d)
        /\ hand' = [hand EXCEPT ![t] = NoPtr]
        /\ UNCHANGED <<globalVars, controlVars, lastQ, quiesced, holds>>
    BY <1>3 DEF on_next_epoch_deallocate
  <2> HIDE DEF r
  <2>4. q \in RequestSets /\ d \in SUBSET Ptr
    BY <2>1, <2>2 DEF RequestSets
  <2> HIDE DEF q, d
  <2>5. TypeOK'
    BY <1>1, <2>3, <2>4 DEF TypeOK, RequestSets, StoreRequests, deallocate, globalVars,
           controlVars, takenVars
  <2> QED
    BY <1>2, <2>5
<1>4. CASE \E p \in Ptr : \/ Allocate(t, p)
                          \/ register_active_ptr(t, p)
                          \/ unregister_active_ptr(t, p)
                          \/ Unlink(t, p)
  <2>1. TypeOK'
    BY <1>4 DEF TypeOK, Allocate, register_active_ptr, unregister_active_ptr, Unlink,
           globalVars, threadVars, controlVars, takenVars
  <2> QED
    BY <1>2, <2>1
<1> QED
  BY <1>3, <1>4 DEF Client

\* The counters are exact at the beginning.
LEMMA CountsInit ==
    ASSUME Init
    PROVE  CountInv
<1>1. TypeOK
  BY NoWordType, EpochAssumption DEF Init, TypeOK, ProgramPoint, Epoch
<1>2. Registered = {} /\ InPrevious = {}
  BY DEF Init, Registered, InPrevious
<1>3. CountsExact
  BY <1>2, FS_EmptySet DEF Init, NoWord, CountsExact
<1>4. Control /\ OneEpochChanger
  BY DEF Init, Control, OneEpochChanger, Changing
<1> QED
  BY <1>1, <1>3, <1>4 DEF CountInv

\* Every step keeps them exact.
LEMMA CountsStep ==
    ASSUME CountInv, [Next]_vars
    PROVE  CountInv'
<1>1. ASSUME NEW t \in Thread, Client(t)
      PROVE  CountInv'
  BY <1>1, ClientCounts
<1>2. ASSUME NEW t \in Thread, Register(t)
      PROVE  CountInv'
  BY <1>2, RegisterCounts, RegisterSpinCounts, SpinEndCounts DEF Register
<1>3. ASSUME NEW t \in Thread, Quiescent(t)
      PROVE  CountInv'
  BY <1>3, QuiescentCounts, LeavePreviousCounts, ChangeEpochCounts DEF Quiescent
<1>4. ASSUME NEW t \in Thread, HandleOrphans(t)
      PROVE  CountInv'
  BY <1>4, TakePreviousCounts, TakeCurrentCounts, InstallCounts DEF HandleOrphans
<1>5. ASSUME NEW t \in Thread, Unregister(t)
      PROVE  CountInv'
  BY <1>5, UnregisterCounts, UnregisterAgainCounts, UnregisterDoneCounts,
     OrphanPreviousCounts, OrphanCurrentCounts DEF Unregister
<1>6. CASE UNCHANGED vars
  BY <1>6 DEF CountInv, TypeOK, CountsExact, Control, OneEpochChanger, Registered,
     InPrevious, Changing, vars, globalVars, threadVars, controlVars, takenVars,
     clientVars
<1> QED
  BY <1>1, <1>2, <1>3, <1>4, <1>5, <1>6 DEF Next

\* The invariant that is inductive: the counters need the program points.
LEMMA CountInvariant == Spec => []CountInv
<1>1. Init => CountInv
  BY CountsInit
<1>2. CountInv /\ [Next]_vars => CountInv'
  BY CountsStep
<1> QED
  BY <1>1, <1>2, PTL DEF Spec

\* Type correctness of Qsbr: in particular advance keeps the epoch below
\* max_count, and no decrement of qsbr_state takes a counter below zero.
THEOREM TypesCorrect == Spec => []TypeOK
<1>1. CountInv => TypeOK
  BY DEF CountInv
<1> QED
  BY <1>1, CountInvariant, PTL

\* The counters that register_thread, quiescent, change_epoch and unregister_thread
\* keep in the word count what they are named after, for any number of threads.
THEOREM CountsCorrect == Spec => []CountsExact
<1>1. CountInv => CountsExact
  BY DEF CountInv
<1> QED
  BY <1>1, CountInvariant, PTL

\* No two threads are in epoch_change_barrier_and_handle_orphans or change_epoch
\* at once, whether they come from quiescent or from unregister_thread.
THEOREM EpochChangersExclude == Spec => []OneEpochChanger
<1>1. CountInv => OneEpochChanger
  BY DEF CountInv
<1> QED
  BY <1>1, CountInvariant, PTL

-------------------------------------------------------------------------------
\* No thread falls more than one epoch behind.
LEMMA EpochsChange ==
    ASSUME CountInv, CountInv', EpochsWithinOne, NEW t \in Thread,
           change_epoch(t) \/ unregister_thread_cas(t)
    PROVE  EpochsWithinOne'
<1> USE DEF CountInv
<1>1. CASE change_epoch(t)
  <2>1. ChangeEpochEffect(t)
    BY <1>1, ChangeEpochFacts
  <2>2. ChangeRequests(t).seen = advance(state.epoch)
    BY DEF ChangeRequests, execute_previous_requests
  <2>3. state'.prev # 0
    BY <2>1, Counters DEF ChangeEpochEffect, Registered
  <2>4. ASSUME NEW u \in Registered, pc[u] # "spin"
        PROVE  lastQ[u] = state.epoch /\ lastSeen[u] = state.epoch
    BY <2>1, <2>4 DEF ChangeEpochEffect, EpochsWithinOne
  <2>5. \A u \in Thread : pc[u] # "leavePrev" /\ ~Changing(u)'
    BY <2>1 DEF ChangeEpochEffect, Changing, TypeOK, Control, InPrevious, Registered
  <2> QED
    BY <2>1, <2>2, <2>3, <2>4, <2>5
       DEF ChangeEpochEffect, EpochsWithinOne, StoreRequests, TypeOK, Registered
<1>2. CASE unregister_thread_cas(t)
  <2>1. UnregisterEffect(t) /\ (LastQuits(t) \/ OtherQuits(t))
    BY <1>2, UnregisterFacts
  <2>2. ASSUME NEW u \in Registered'
        PROVE  /\ u # t /\ u \in Thread /\ u \in Registered
               /\ pc'[u] = pc[u] /\ lastQ'[u] = lastQ[u] /\ lastSeen'[u] = lastSeen[u]
               /\ snap'[u] = snap[u] /\ exiting'[u] = exiting[u]
    BY <2>1 DEF UnregisterEffect, StoreRequests, Registered, TypeOK
  <2>3. CASE LastQuits(t)
    <3>1. ASSUME NEW u \in Registered'
          PROVE  /\ state'.prev # 0
                 /\ pc[u] # "leavePrev" /\ ~Changing(u)'
                 /\ pc[u] # "spin" => lastQ[u] = state.epoch /\ lastSeen[u] = state.epoch
      <4>1. state'.prev # 0
        BY <2>1, <2>3, <3>1, Counters DEF UnregisterEffect, LastQuits
      <4>2. pc[u] # "leavePrev" /\ ~Changing(u)'
        BY <2>1, <2>2, <2>3 DEF LastQuits, Changing, Control, InPrevious
      <4> QED
        BY <2>1, <2>2, <2>3, <4>1, <4>2 DEF UnregisterEffect, LastQuits, EpochsWithinOne
    <3> QED
      BY <2>2, <2>3, <3>1 DEF EpochsWithinOne, LastQuits, Changing
  <2>4. CASE OtherQuits(t)
    <3>1. state'.epoch = state.epoch /\ (state'.prev = 0 => state.prev = 0)
      BY <2>4 DEF OtherQuits, TypeOK, Word
    <3> QED
      BY <2>2, <3>1 DEF EpochsWithinOne, Changing
  <2> QED
    BY <2>1, <2>3, <2>4
<1> QED
  BY <1>1, <1>2

\* Use of pointers leaves the epochs alone.
LEMMA EpochsClient ==
    ASSUME CountInv, EpochsWithinOne, NEW t \in Thread, Client(t)
    PROVE  EpochsWithinOne'
<1>1. UNCHANGED <<state, pc, exiting, snap, lastQ>>
  BY DEF Client, Allocate, register_active_ptr, unregister_active_ptr, Unlink,
         on_next_epoch_deallocate, globalVars, threadVars, controlVars
<1>2. \A u \in Thread : lastSeen'[u] \in {lastSeen[u], state.epoch}
  <2>1. CASE on_next_epoch_deallocate(t)
    <3> DEFINE st == single_thread_mode(state)
               r == advance_last_seen_epoch(requests(t), st, state.epoch,
                                            IF st THEN {} ELSE {hand[t]})
    <3>1. r.seen = state.epoch
      BY DEF advance_last_seen_epoch, execute_previous_requests, requests
    <3>2. lastSeen' = [lastSeen EXCEPT ![t] = r.seen]
      BY <2>1 DEF on_next_epoch_deallocate, StoreRequests
    <3> QED
      BY <3>1, <3>2 DEF CountInv, TypeOK
  <2>2. CASE ~on_next_epoch_deallocate(t)
    BY <2>2 DEF Client, Allocate, register_active_ptr, unregister_active_ptr, Unlink,
           threadVars
  <2> QED
    BY <2>1, <2>2
<1> QED
  BY <1>1, <1>2 DEF EpochsWithinOne, Registered, Changing

\* A registering thread and one that enters quiescent() see the current epoch.
LEMMA EpochsOthers ==
    ASSUME CountInv, CountInv', EpochsWithinOne, NEW t \in Thread,
           \/ Register(t)
           \/ quiescent(t)
           \/ remove_thread_from_previous_epoch(t)
           \/ HandleOrphans(t)
           \/ unregister_thread(t)
           \/ unregister_thread_cas_failed(t)
           \/ orphan_previous_requests(t)
           \/ orphan_current_requests(t)
    PROVE  EpochsWithinOne'
<1> USE DEF CountInv
<1>0. CountsExact' /\ Control' /\ TypeOK'
  OBVIOUS
<1>1. CASE register_thread(t)
  BY <1>1 DEF EpochsWithinOne, register_thread, RegisteredAt, Goto, Registered, Changing,
     TypeOK, Word, inc_thread_count_and_threads_in_previous_epoch
<1>2. CASE register_thread_during_epoch_change(t)
  BY <1>2 DEF EpochsWithinOne, register_thread_during_epoch_change, Goto, Registered,
     Changing, TypeOK, threadVars, inc_thread_count
<1>3. CASE register_thread_spin_end(t)
  BY <1>3 DEF EpochsWithinOne, register_thread_spin_end, RegisteredAt, Goto, Registered,
     Changing, TypeOK, globalVars
<1>4. CASE quiescent(t)
  <2> DEFINE r == advance_last_seen_epoch(requests(t), single_thread_mode(state),
                                          state.epoch, {})
  <2>1. r.seen = state.epoch
    BY DEF advance_last_seen_epoch, execute_previous_requests, requests
  <2>2. lastSeen' = [lastSeen EXCEPT ![t] = r.seen]
    BY <1>4 DEF quiescent, StoreRequests
  <2> QED
    BY <1>4, <2>1, <2>2 DEF EpochsWithinOne, quiescent, Quiet, Goto, Registered, Changing,
       TypeOK, globalVars
<1>5. CASE remove_thread_from_previous_epoch(t)
  <2>1. ASSUME NEW u \in Registered', pc'[u] # "spin", state'.prev = 0
        PROVE  lastQ'[u] = state'.epoch
    <3>1. InPrevious' = {}
      <4>1. Cardinality(InPrevious') = 0 /\ InPrevious' \subseteq Thread
        BY <1>0, <2>1 DEF CountsExact, InPrevious, Registered
      <4>2. IsFiniteSet(InPrevious')
        BY <4>1, ThreadAssumption, FS_Subset
      <4> QED
        BY <4>1, <4>2, FS_EmptySet
    <3> QED
      BY <1>0, <2>1, <3>1 DEF InPrevious, Registered, Control
  <2> QED
    BY <1>5, <2>1 DEF EpochsWithinOne, remove_thread_from_previous_epoch, Goto,
       Registered, Changing, TypeOK, dec_threads_in_previous_epoch
<1>6. CASE HandleOrphans(t)
  BY <1>6 DEF EpochsWithinOne, HandleOrphans, take_previous_orphans,
     take_current_orphans, install_previous_orphans, Goto, Registered, Changing,
     TypeOK, threadVars
<1>7. CASE unregister_thread(t) \/ unregister_thread_cas_failed(t)
  BY <1>7 DEF EpochsWithinOne, unregister_thread, unregister_thread_cas_failed, Control,
     UnregisterWith, Goto, Registered, Changing, TypeOK, threadVars, globalVars, Quiet
<1>8. CASE orphan_previous_requests(t) \/ orphan_current_requests(t)
  BY <1>8 DEF EpochsWithinOne, orphan_previous_requests, orphan_current_requests,
     Goto, Registered, Changing, TypeOK
<1> QED
  BY <1>1, <1>2, <1>3, <1>4, <1>5, <1>6, <1>7, <1>8 DEF Register

\* No step leaves a registered thread two epochs behind.
LEMMA EpochsStep ==
    ASSUME CountInv, CountInv', EpochsWithinOne, [Next]_vars
    PROVE  EpochsWithinOne'
<1>1. CASE UNCHANGED vars
  BY <1>1 DEF EpochsWithinOne, Registered, Changing, vars, globalVars, threadVars,
     controlVars
<1>2. CASE Next
  BY <1>2, EpochsChange, EpochsClient, EpochsOthers
     DEF Next, Quiescent, Unregister
<1> QED
  BY <1>1, <1>2

\* Every registered thread is in the current epoch or in the one before it, and a
\* thread counted as quiescent in the current epoch has seen it: the epoch
\* comparisons the code asserts, for any number of threads and epoch values.
THEOREM EpochsCorrect == Spec => []EpochsWithinOne
<1>1. Init => CountInv /\ EpochsWithinOne
  BY CountsInit DEF Init, EpochsWithinOne, Registered
<1>2. CountInv /\ EpochsWithinOne /\ [Next]_vars => (CountInv /\ EpochsWithinOne)'
  BY CountsStep, EpochsStep
<1> QED
  BY <1>1, <1>2, PTL DEF Spec

-------------------------------------------------------------------------------
(***************************************************************************)
(* Proof that Qsbr neither loses nor duplicates a deallocation request.    *)
(***************************************************************************)

\* The addresses that thread t has to see deallocated.
Kept(t) == ({hand[t]} \ {NoPtr}) \cup prevReq[t] \cup curReq[t]
           \cup takenPrev[t] \cup takenCur[t]

\* No address is in two lists of one thread.
Distinct(t) ==
    /\ hand[t] \notin prevReq[t] /\ hand[t] \notin curReq[t]
    /\ hand[t] \notin takenPrev[t] /\ hand[t] \notin takenCur[t]
    /\ prevReq[t] \cap curReq[t] = {} /\ prevReq[t] \cap takenPrev[t] = {}
    /\ prevReq[t] \cap takenCur[t] = {} /\ curReq[t] \cap takenPrev[t] = {}
    /\ curReq[t] \cap takenCur[t] = {} /\ takenPrev[t] \cap takenCur[t] = {}

Orphans == orphanPrev \cup orphanCur

QueueInv ==
    /\ \A p \in Ptr : mem[p] = "unlinked" <=>
           p \in Orphans \/ \E t \in Thread : p \in Kept(t)
    /\ orphanPrev \cap orphanCur = {}
    /\ \A t \in Thread : Distinct(t) /\ Kept(t) \cap Orphans = {}
    /\ \A t, u \in Thread : t # u => Kept(t) \cap Kept(u) = {}

\* A step of thread t that keeps the other threads' lists preserves QueueInv if
\* what t and the orphan lists hold is what they held before, less what is
\* deallocated, plus what is unlinked.
LEMMA QueueMove ==
    ASSUME TypeOK, TypeOK', QueueInv, NEW t \in Thread,
           \A u \in Thread : u # t => Kept(u)' = Kept(u) /\ Distinct(u)',
           Distinct(t)', orphanPrev' \cap orphanCur' = {},
           Kept(t)' \cap Orphans' = {},
           NEW D \in SUBSET Ptr, NEW N \in SUBSET Ptr,
           D \subseteq Kept(t) \cup Orphans,
           \A p \in N : mem[p] # "unlinked",
           Kept(t)' \cup Orphans' = ((Kept(t) \cup Orphans) \ D) \cup N,
           \A p \in Ptr : mem'[p] = "unlinked" <=>
                             (mem[p] = "unlinked" /\ p \notin D) \/ p \in N
    PROVE  QueueInv'
<1>1. \A u \in Thread : Kept(u) \subseteq Ptr /\ Kept(u)' \subseteq Ptr
  BY DEF Kept, TypeOK
<1>2. Orphans \subseteq Ptr /\ Orphans' \subseteq Ptr
  BY DEF Orphans, TypeOK
<1>3. \A u \in Thread : u # t => Kept(u)' \cap (Kept(t)' \cup Orphans') = {}
  BY <1>1, <1>2 DEF QueueInv
<1>4. \A u, v \in Thread : u # v => Kept(u)' \cap Kept(v)' = {}
  BY <1>3 DEF QueueInv
<1>5. \A p \in Ptr : mem'[p] = "unlinked" <=>
          p \in Orphans' \/ \E u \in Thread : p \in Kept(u)'
  BY <1>1, <1>2 DEF QueueInv
<1>6. \A u \in Thread : Distinct(u)' /\ Kept(u)' \cap Orphans' = {}
  BY <1>3
<1> QED
  BY <1>4, <1>5, <1>6 DEF QueueInv

All(r) == r.prev \cup r.cur \cup r.done

Parts(r) == r.prev \cap r.cur = {} /\ r.prev \cap r.done = {} /\ r.cur \cap r.done = {}

\* Executing requests keeps every one of them in exactly one of the three sets.
LEMMA ExecuteParts ==
    ASSUME NEW r \in RequestSets, NEW st, NEW e \in Epoch, NEW new \in SUBSET Ptr,
           Parts(r), new \cap All(r) = {}
    PROVE  /\ execute_previous_requests(r, st, e, new) \in RequestSets
           /\ Parts(execute_previous_requests(r, st, e, new))
           /\ All(execute_previous_requests(r, st, e, new)) = All(r) \cup new
  BY DEF RequestSets, Parts, All, execute_previous_requests

\* Aging the vectors of a thread loses no request and repeats none.
LEMMA AdvanceParts ==
    ASSUME NEW r \in RequestSets, NEW st, NEW e \in Epoch, NEW new \in SUBSET Ptr,
           Parts(r), new \cap All(r) = {}
    PROVE  /\ advance_last_seen_epoch(r, st, e, new) \in RequestSets
           /\ Parts(advance_last_seen_epoch(r, st, e, new))
           /\ All(advance_last_seen_epoch(r, st, e, new)) =
                 IF e = r.seen THEN All(r) ELSE All(r) \cup new
<1>1. CASE e = r.seen
  BY <1>1 DEF advance_last_seen_epoch
<1>2. CASE e # r.seen
  BY <1>2, ExecuteParts DEF advance_last_seen_epoch
<1> QED
  BY <1>1, <1>2

\* A thread that stores the lists q, and deallocates d, where these are together
\* the lists it had and possibly the address in its hand, preserves QueueInv.
LEMMA QueueStore ==
    ASSUME TypeOK, TypeOK', QueueInv, NEW t \in Thread, NEW q \in RequestSets,
           NEW d \in SUBSET Ptr,
           StoreRequests(t, q), deallocate(d),
           q.prev \cap q.cur = {}, q.prev \cap d = {}, q.cur \cap d = {},
           UNCHANGED <<orphanPrev, orphanCur, takenPrev, takenCur>>,
           \/ /\ q.prev \cup q.cur \cup d = prevReq[t] \cup curReq[t]
              /\ UNCHANGED hand
           \/ /\ q.prev \cup q.cur \cup d = prevReq[t] \cup curReq[t] \cup {hand[t]}
              /\ hand[t] # NoPtr
              /\ hand' = [hand EXCEPT ![t] = NoPtr]
    PROVE  QueueInv'
<1>1. /\ prevReq' = [prevReq EXCEPT ![t] = q.prev]
      /\ curReq' = [curReq EXCEPT ![t] = q.cur]
      /\ mem' = [p \in Ptr |-> IF p \in d THEN "free" ELSE mem[p]]
  BY DEF StoreRequests, deallocate
<1>2. \A u \in Thread : u # t => Kept(u)' = Kept(u) /\ Distinct(u)'
  BY <1>1 DEF TypeOK, QueueInv, Kept, Distinct
<1>3. q.prev \subseteq Ptr /\ q.cur \subseteq Ptr
  BY DEF RequestSets
<1>4. Distinct(t)'
  BY <1>1, <1>3, NoPtrAssumption DEF TypeOK, QueueInv, Distinct
<1>5. /\ d \subseteq Kept(t) \cup Orphans
      /\ Kept(t)' \cup Orphans' = ((Kept(t) \cup Orphans) \ d) \cup {}
      /\ Kept(t)' \cap Orphans' = {}
  <2>1. Kept(t)' = Kept(t) \ d
    BY <1>1, <1>3, NoPtrAssumption DEF TypeOK, QueueInv, Distinct, Kept
  <2>2. d \subseteq Kept(t)
    BY NoPtrAssumption DEF Kept, TypeOK
  <2>3. Orphans' = Orphans
    BY DEF Orphans
  <2> QED
    BY <2>1, <2>2, <2>3 DEF QueueInv
<1>6. \A p \in Ptr : mem'[p] = "unlinked" <=> (mem[p] = "unlinked" /\ p \notin d) \/ p \in {}
  BY <1>1
<1>7. orphanPrev' \cap orphanCur' = {}
  BY DEF QueueInv
<1>8. {} \in SUBSET Ptr /\ \A p \in {} : mem[p] # "unlinked"
  OBVIOUS
<1> QED
  BY ONLY TypeOK, TypeOK', QueueInv, t \in Thread, d \in SUBSET Ptr, <1>2, <1>4, <1>5,
     <1>6, <1>7, <1>8, QueueMove, Zenon

\* A thread's two vectors are disjoint, and what it is about to retire is in
\* neither.
LEMMA OwnParts ==
    ASSUME TypeOK, QueueInv, NEW t \in Thread
    PROVE  /\ requests(t) \in RequestSets /\ Parts(requests(t))
           /\ All(requests(t)) = prevReq[t] \cup curReq[t]
           /\ hand[t] \notin prevReq[t] \cup curReq[t]
  BY DEF TypeOK, RequestSets, requests, Parts, All, QueueInv, Distinct

\* quiescent keeps every request queued once.
LEMMA QueueQuiescent ==
    ASSUME CountInv, CountInv', QueueInv, NEW t \in Thread, quiescent(t)
    PROVE  QueueInv'
<1> USE DEF CountInv
<1> DEFINE r == advance_last_seen_epoch(requests(t), single_thread_mode(state),
                                        state.epoch, {})
<1>1. r \in RequestSets /\ Parts(r) /\ All(r) = prevReq[t] \cup curReq[t]
  <2>1. state.epoch \in Epoch
    BY DEF TypeOK, Word
  <2> QED
    BY <2>1, OwnParts, AdvanceParts
<1>2. /\ StoreRequests(t, r) /\ deallocate(r.done)
      /\ UNCHANGED <<orphanPrev, orphanCur, takenPrev, takenCur, hand>>
  BY DEF quiescent, globalVars, takenVars
<1> HIDE DEF r
<1> QED
  BY <1>1, <1>2, QueueStore DEF RequestSets, Parts, All

\* So does an epoch change,
LEMMA QueueChangeEpoch ==
    ASSUME CountInv, CountInv', QueueInv, NEW t \in Thread, change_epoch(t)
    PROVE  QueueInv'
<1> USE DEF CountInv
<1> DEFINE r == ChangeRequests(t)
<1>0. ChangeEpochEffect(t)
  BY ChangeEpochFacts
<1>1. r \in RequestSets /\ Parts(r) /\ All(r) = prevReq[t] \cup curReq[t]
  <2>1. advance(state.epoch) \in Epoch
    BY <1>0 DEF ChangeEpochEffect
  <2> QED
    BY <2>1, OwnParts, ExecuteParts DEF ChangeRequests
<1>2. /\ StoreRequests(t, r) /\ deallocate(r.done)
      /\ UNCHANGED <<orphanPrev, orphanCur, takenPrev, takenCur, hand>>
  BY <1>0 DEF ChangeEpochEffect, takenVars
<1> HIDE DEF r
<1> QED
  BY <1>1, <1>2, QueueStore DEF RequestSets, Parts, All

\* the compare-exchange of a thread that quits,
LEMMA QueueUnregister ==
    ASSUME CountInv, CountInv', QueueInv, NEW t \in Thread, unregister_thread_cas(t)
    PROVE  QueueInv'
<1> USE DEF CountInv
<1> DEFINE s == SeenRequests(t)
           r == QuitRequests(t)
<1>0. UnregisterEffect(t)
  BY UnregisterFacts
<1>1. state.epoch \in Epoch /\ advance(state.epoch) \in Epoch /\ snap[t] = state
  BY <1>0, AdvanceEpoch DEF TypeOK, Word, UnregisterEffect
<1>2. s \in RequestSets /\ Parts(s) /\ All(s) = prevReq[t] \cup curReq[t]
  BY <1>1, OwnParts, AdvanceParts, SMTT(30) DEF SeenRequests
<1>3. r \in RequestSets /\ Parts(r) /\ All(r) = prevReq[t] \cup curReq[t]
  <2> HIDE DEF s
  <2>1. r = IF advance_epoch(t, snap[t])
            THEN execute_previous_requests(s, single_thread_mode(snap[t]),
                                           advance(snap[t].epoch), {})
            ELSE s
    BY DEF s, QuitRequests
  <2> HIDE DEF r
  <2> QED
    BY <1>1, <1>2, <2>1, ExecuteParts
<1>4. /\ StoreRequests(t, r) /\ deallocate(r.done)
      /\ UNCHANGED <<orphanPrev, orphanCur, takenPrev, takenCur, hand>>
  BY <1>0 DEF UnregisterEffect, takenVars
<1> HIDE DEF r
<1> QED
  BY <1>3, <1>4, QueueStore DEF RequestSets, Parts, All

\* a new request,
LEMMA QueueRetire ==
    ASSUME CountInv, CountInv', QueueInv, NEW t \in Thread, on_next_epoch_deallocate(t)
    PROVE  QueueInv'
<1> USE DEF CountInv
<1> DEFINE p == hand[t]
           st == single_thread_mode(state)
           r == advance_last_seen_epoch(requests(t), st, state.epoch,
                                        IF st THEN {} ELSE {p})
           q == IF ~st /\ lastSeen[t] = state.epoch
                THEN [seen |-> r.seen, prev |-> r.prev, cur |-> r.cur \cup {p},
                      done |-> r.done]
                ELSE r
           d == r.done \cup (IF st THEN {p} ELSE {})
<1>1. p \in Ptr /\ p # NoPtr /\ p \notin prevReq[t] \cup curReq[t]
  BY OwnParts DEF on_next_epoch_deallocate, TypeOK
<1>2. /\ StoreRequests(t, q) /\ deallocate(d)
      /\ UNCHANGED <<orphanPrev, orphanCur, takenPrev, takenCur>>
      /\ hand' = [hand EXCEPT ![t] = NoPtr]
  BY DEF on_next_epoch_deallocate, globalVars, controlVars, takenVars
<1>3. state.epoch \in Epoch /\ prevReq[t] \cap curReq[t] = {}
      /\ prevReq[t] \in SUBSET Ptr /\ curReq[t] \in SUBSET Ptr /\ lastSeen[t] \in Epoch
  BY DEF TypeOK, Word, QueueInv, Distinct
<1>4. r = IF lastSeen[t] = state.epoch
          THEN [seen |-> lastSeen[t], prev |-> prevReq[t], cur |-> curReq[t],
                done |-> {}]
          ELSE [seen |-> state.epoch,
                prev |-> IF st THEN {} ELSE curReq[t],
                cur |-> IF st THEN {} ELSE {p},
                done |-> prevReq[t] \cup (IF st THEN curReq[t] ELSE {})]
  BY DEF advance_last_seen_epoch, execute_previous_requests, requests
<1> HIDE DEF r, p, st
<1>5. /\ q \in RequestSets /\ d \in SUBSET Ptr
      /\ q.prev \cap q.cur = {} /\ q.prev \cap d = {} /\ q.cur \cap d = {}
      /\ q.prev \cup q.cur \cup d = prevReq[t] \cup curReq[t] \cup {p}
  <2>1. CASE lastSeen[t] = state.epoch
    BY <1>1, <1>3, <1>4, <2>1 DEF RequestSets
  <2>2. CASE lastSeen[t] # state.epoch
    BY <1>1, <1>3, <1>4, <2>2 DEF RequestSets
  <2> QED
    BY <2>1, <2>2
<1> HIDE DEF q, d
<1> QED
  BY <1>1, <1>2, <1>5, QueueStore DEF p

\* The local lists of the orphan handling are empty outside of it.
Taken ==
    \A t \in Thread : /\ pc[t] # "takeCur" => takenPrev[t] = {}
                      /\ pc[t] # "install" => takenCur[t] = {}

\* Every step keeps them so.
LEMMA TakenStep ==
    ASSUME CountInv, Taken, [Next]_vars
    PROVE  Taken'
<1> USE DEF CountInv, TypeOK, Taken
<1>1. CASE UNCHANGED vars
  BY <1>1 DEF vars, controlVars, takenVars
<1>2. ASSUME NEW t \in Thread, Client(t)
      PROVE  Taken'
  BY <1>2 DEF Client, Allocate, register_active_ptr, unregister_active_ptr, Unlink,
     on_next_epoch_deallocate, controlVars, takenVars
<1>3. ASSUME NEW t \in Thread, Register(t)
      PROVE  Taken'
  BY <1>3 DEF Register, register_thread, register_thread_during_epoch_change,
     register_thread_spin_end, Goto, takenVars
<1>4. ASSUME NEW t \in Thread, Quiescent(t)
      PROVE  Taken'
  BY <1>4 DEF Quiescent, quiescent, remove_thread_from_previous_epoch, change_epoch,
     Quiet, Goto, takenVars
<1>5. ASSUME NEW t \in Thread, HandleOrphans(t)
      PROVE  Taken'
  BY <1>5 DEF HandleOrphans, take_previous_orphans, take_current_orphans,
     install_previous_orphans, Goto
<1>6. ASSUME NEW t \in Thread, Unregister(t)
      PROVE  Taken'
  BY <1>6 DEF Unregister, unregister_thread, unregister_thread_cas_failed,
     unregister_thread_cas, UnregisterWith, orphan_previous_requests,
     orphan_current_requests, Quiet, Goto, takenVars
<1> QED
  BY <1>1, <1>2, <1>3, <1>4, <1>5, <1>6 DEF Next

\* Taking the previous orphans keeps every request queued once,
LEMMA QueueTakePrevious ==
    ASSUME CountInv, CountInv', QueueInv, Taken, NEW t \in Thread,
           take_previous_orphans(t)
    PROVE  QueueInv'
<1> USE DEF CountInv
<1>1. /\ orphanPrev' = {} /\ takenPrev[t] = {}
      /\ takenPrev' = [takenPrev EXCEPT ![t] = orphanPrev]
      /\ UNCHANGED <<orphanCur, prevReq, curReq, takenCur, mem, hand>>
  BY DEF take_previous_orphans, Taken, threadVars, clientVars
<1>2. \A u \in Thread : u # t => Kept(u)' = Kept(u) /\ Distinct(u)'
  BY <1>1 DEF TypeOK, QueueInv, Kept, Distinct
<1>3. /\ Kept(t)' = Kept(t) \cup orphanPrev /\ Orphans' = orphanCur
      /\ Kept(t) \cap Orphans = {} /\ orphanPrev \cap orphanCur = {}
      /\ Distinct(t)
  BY <1>1 DEF TypeOK, Kept, Orphans, QueueInv
<1>4. Distinct(t)'
  BY <1>1, <1>3, NoPtrAssumption DEF TypeOK, Kept, Distinct, Orphans
<1>5. /\ {} \in SUBSET Ptr /\ {} \subseteq Kept(t) \cup Orphans
      /\ \A p \in {} : mem[p] # "unlinked"
      /\ Kept(t)' \cap Orphans' = {} /\ orphanPrev' \cap orphanCur' = {}
      /\ Kept(t)' \cup Orphans' = ((Kept(t) \cup Orphans) \ {}) \cup {}
      /\ \A p \in Ptr : mem'[p] = "unlinked" <=>
                            (mem[p] = "unlinked" /\ p \notin {}) \/ p \in {}
  BY <1>1, <1>3 DEF Orphans
<1> QED
  BY ONLY TypeOK, TypeOK', QueueInv, t \in Thread, <1>2, <1>4, <1>5, QueueMove, ZenonT(30)

\* as does taking the current ones,
LEMMA QueueTakeCurrent ==
    ASSUME CountInv, CountInv', QueueInv, Taken, NEW t \in Thread,
           take_current_orphans(t)
    PROVE  QueueInv'
<1> USE DEF CountInv
<1> DEFINE d == takenPrev[t]
<1>1. /\ orphanCur' = {} /\ takenCur[t] = {}
      /\ takenCur' = [takenCur EXCEPT ![t] = orphanCur]
      /\ takenPrev' = [takenPrev EXCEPT ![t] = {}]
      /\ mem' = [p \in Ptr |-> IF p \in d THEN "free" ELSE mem[p]]
      /\ UNCHANGED <<orphanPrev, prevReq, curReq, hand>>
  BY DEF take_current_orphans, deallocate, Taken, threadVars
<1>2. \A u \in Thread : u # t => Kept(u)' = Kept(u) /\ Distinct(u)'
  BY <1>1 DEF TypeOK, QueueInv, Kept, Distinct
<1>3. /\ Kept(t)' = (Kept(t) \ d) \cup orphanCur /\ Orphans' = orphanPrev
      /\ Kept(t) \cap Orphans = {} /\ orphanPrev \cap orphanCur = {}
      /\ Distinct(t) /\ d \subseteq Kept(t) /\ d \in SUBSET Ptr
  BY <1>1 DEF TypeOK, Kept, Orphans, QueueInv, Distinct
<1>4. Distinct(t)'
  BY <1>1, <1>3, NoPtrAssumption DEF TypeOK, Kept, Distinct, Orphans
<1> HIDE DEF d
<1>5. /\ {} \in SUBSET Ptr /\ d \subseteq Kept(t) \cup Orphans
      /\ \A p \in {} : mem[p] # "unlinked"
      /\ Kept(t)' \cap Orphans' = {} /\ orphanPrev' \cap orphanCur' = {}
      /\ Kept(t)' \cup Orphans' = ((Kept(t) \cup Orphans) \ d) \cup {}
      /\ \A p \in Ptr : mem'[p] = "unlinked" <=>
                            (mem[p] = "unlinked" /\ p \notin d) \/ p \in {}
  BY <1>1, <1>3 DEF Orphans
<1>6. d \in SUBSET Ptr
  BY <1>3
<1> QED
  BY ONLY TypeOK, TypeOK', QueueInv, t \in Thread, <1>2, <1>4, <1>5, <1>6, QueueMove,
     Zenon, ZenonT(30)

\* installing them as the previous ones,
LEMMA QueueInstall ==
    ASSUME CountInv, CountInv', QueueInv, NEW t \in Thread, install_previous_orphans(t)
    PROVE  QueueInv'
<1> USE DEF CountInv
<1> DEFINE d == IF single[t] THEN takenCur[t] ELSE {}
           n == IF single[t] THEN {} ELSE takenCur[t]
<1>1. /\ orphanPrev' = orphanPrev \cup n
      /\ takenCur' = [takenCur EXCEPT ![t] = {}]
      /\ mem' = [p \in Ptr |-> IF p \in d THEN "free" ELSE mem[p]]
      /\ UNCHANGED <<orphanCur, takenPrev, prevReq, curReq, hand>>
  BY DEF install_previous_orphans, deallocate, threadVars
<1>2. \A u \in Thread : u # t => Kept(u)' = Kept(u) /\ Distinct(u)'
  BY <1>1 DEF TypeOK, QueueInv, Kept, Distinct
<1>3. d \cup n = takenCur[t] /\ d \cap n = {} /\ d \in SUBSET Ptr
  BY DEF TypeOK
<1> HIDE DEF d, n
<1>4. /\ Kept(t)' = Kept(t) \ takenCur[t] /\ Orphans' = Orphans \cup n
      /\ Kept(t) \cap Orphans = {} /\ orphanPrev \cap orphanCur = {}
      /\ Distinct(t) /\ takenCur[t] \subseteq Kept(t)
  BY <1>1, NoPtrAssumption DEF TypeOK, Kept, Orphans, QueueInv, Distinct
<1>5. Distinct(t)'
  BY <1>1, <1>4, NoPtrAssumption DEF TypeOK, Distinct
<1>6. /\ {} \in SUBSET Ptr /\ d \subseteq Kept(t) \cup Orphans
      /\ \A p \in {} : mem[p] # "unlinked"
      /\ Kept(t)' \cap Orphans' = {} /\ orphanPrev' \cap orphanCur' = {}
      /\ Kept(t)' \cup Orphans' = ((Kept(t) \cup Orphans) \ d) \cup {}
      /\ \A p \in Ptr : mem'[p] = "unlinked" <=>
                            (mem[p] = "unlinked" /\ p \notin d) \/ p \in {}
  <2>1. orphanPrev' \cap orphanCur' = {}
    BY <1>1, <1>3, <1>4 DEF Orphans
  <2>2. Kept(t)' \cup Orphans' = ((Kept(t) \cup Orphans) \ d) \cup {}
    BY <1>3, <1>4
  <2> QED
    BY <1>1, <1>3, <1>4, <2>1, <2>2
<1>7. d \in SUBSET Ptr
  BY <1>3
<1> QED
  BY ONLY TypeOK, TypeOK', QueueInv, t \in Thread, <1>2, <1>5, <1>6, <1>7, QueueMove,
     Zenon, ZenonT(30)

\* adding the requests of a thread that quits to the orphans,
LEMMA QueueOrphan ==
    ASSUME CountInv, CountInv', QueueInv, NEW t \in Thread,
           orphan_previous_requests(t) \/ orphan_current_requests(t)
    PROVE  QueueInv'
<1> USE DEF CountInv
<1> DEFINE Push(list, req) ==
             /\ list' = list \cup req[t]
             /\ req' = [req EXCEPT ![t] = {}]
<1>1. /\ UNCHANGED <<takenPrev, takenCur, mem, hand>>
      /\ \/ Push(orphanPrev, prevReq) /\ UNCHANGED <<orphanCur, curReq>>
         \/ Push(orphanCur, curReq) /\ UNCHANGED <<orphanPrev, prevReq>>
  BY DEF orphan_previous_requests, orphan_current_requests, takenVars, clientVars
<1>2. \A u \in Thread : u # t => Kept(u)' = Kept(u) /\ Distinct(u)'
  BY <1>1 DEF TypeOK, QueueInv, Kept, Distinct
<1>3. /\ Kept(t)' \cup Orphans' = Kept(t) \cup Orphans
      /\ Distinct(t)' /\ Kept(t)' \cap Orphans' = {} /\ orphanPrev' \cap orphanCur' = {}
  <2>0. /\ Kept(t) \cap Orphans = {} /\ orphanPrev \cap orphanCur = {} /\ Distinct(t)
        /\ prevReq[t] \in SUBSET Ptr /\ curReq[t] \in SUBSET Ptr
    BY DEF QueueInv, TypeOK
  <2>1. CASE Push(orphanPrev, prevReq) /\ UNCHANGED <<orphanCur, curReq>>
    <3>1. prevReq'[t] = {}
      BY <2>1 DEF TypeOK
    <3> QED
      BY <1>1, <2>0, <2>1, <3>1, NoPtrAssumption DEF Kept, Orphans, Distinct
  <2>2. CASE Push(orphanCur, curReq) /\ UNCHANGED <<orphanPrev, prevReq>>
    <3>1. curReq'[t] = {}
      BY <2>2 DEF TypeOK
    <3> QED
      BY <1>1, <2>0, <2>2, <3>1, NoPtrAssumption DEF Kept, Orphans, Distinct
  <2> QED
    BY <1>1, <2>1, <2>2
<1>4. /\ {} \in SUBSET Ptr /\ {} \subseteq Kept(t) \cup Orphans
      /\ \A p \in {} : mem[p] # "unlinked"
      /\ Kept(t)' \cup Orphans' = ((Kept(t) \cup Orphans) \ {}) \cup {}
      /\ \A p \in Ptr : mem'[p] = "unlinked" <=>
                            (mem[p] = "unlinked" /\ p \notin {}) \/ p \in {}
  BY <1>1, <1>3
<1> QED
  BY ONLY TypeOK, TypeOK', QueueInv, t \in Thread, <1>2, <1>3, <1>4, QueueMove, Zenon

\* and every use of pointers.
LEMMA QueueClient ==
    ASSUME CountInv, CountInv', QueueInv, NEW t \in Thread, Client(t)
    PROVE  QueueInv'
<1> USE DEF CountInv
<1>1. CASE on_next_epoch_deallocate(t)
  BY <1>1, QueueRetire
<1>2. ASSUME NEW p \in Ptr, Unlink(t, p)
      PROVE  QueueInv'
  <2>1. /\ hand[t] = NoPtr /\ mem[p] = "linked"
        /\ mem' = [mem EXCEPT ![p] = "unlinked"]
        /\ hand' = [hand EXCEPT ![t] = p]
        /\ UNCHANGED <<orphanPrev, orphanCur, prevReq, curReq, takenPrev, takenCur>>
    BY <1>2 DEF Unlink, globalVars, threadVars, controlVars, takenVars
  <2>2. \A u \in Thread : u # t => Kept(u)' = Kept(u) /\ Distinct(u)'
    BY <2>1 DEF TypeOK, QueueInv, Kept, Distinct
  <2>3. p \notin Orphans /\ p \notin Kept(t) /\ p # NoPtr
    BY <2>1, NoPtrAssumption DEF QueueInv
  <2>4. Kept(t)' = Kept(t) \cup {p} /\ Orphans' = Orphans
    BY <2>1, <2>3 DEF TypeOK, Kept, Orphans
  <2>5. Distinct(t)'
    BY <2>1, <2>3 DEF TypeOK, QueueInv, Kept, Distinct
  <2>6. /\ {} \in SUBSET Ptr /\ {p} \in SUBSET Ptr /\ {} \subseteq Kept(t) \cup Orphans
        /\ \A q \in {p} : mem[q] # "unlinked"
        /\ Kept(t)' \cup Orphans' = ((Kept(t) \cup Orphans) \ {}) \cup {p}
        /\ Kept(t)' \cap Orphans' = {} /\ orphanPrev' \cap orphanCur' = {}
        /\ \A q \in Ptr : mem'[q] = "unlinked" <=>
                              (mem[q] = "unlinked" /\ q \notin {}) \/ q \in {p}
    BY <2>1, <2>3, <2>4 DEF TypeOK, QueueInv
  <2> QED
    BY ONLY TypeOK, TypeOK', QueueInv, t \in Thread, <2>2, <2>5, <2>6, QueueMove, Zenon
<1>3. ASSUME NEW p \in Ptr, Allocate(t, p)
      PROVE  QueueInv'
  <2>1. \A q \in Ptr : mem'[q] = "unlinked" <=> mem[q] = "unlinked"
    BY <1>3 DEF Allocate, TypeOK
  <2>2. UNCHANGED <<orphanPrev, orphanCur, prevReq, curReq, takenPrev, takenCur, hand>>
    BY <1>3 DEF Allocate, globalVars, threadVars, controlVars, takenVars
  <2> QED
    BY <2>1, <2>2 DEF QueueInv, Kept, Distinct, Orphans
<1>4. ASSUME NEW p \in Ptr, register_active_ptr(t, p) \/ unregister_active_ptr(t, p)
      PROVE  QueueInv'
  <2>1. UNCHANGED <<orphanPrev, orphanCur, prevReq, curReq, takenPrev, takenCur, hand, mem>>
    BY <1>4 DEF register_active_ptr, unregister_active_ptr, globalVars, threadVars,
       controlVars, takenVars
  <2> QED
    BY <2>1 DEF QueueInv, Kept, Distinct, Orphans
<1> QED
  BY <1>1, <1>2, <1>3, <1>4 DEF Client

\* Every step keeps every request queued once.
LEMMA QueueStep ==
    ASSUME CountInv, CountInv', QueueInv, Taken, [Next]_vars
    PROVE  QueueInv'
<1>1. ASSUME UNCHANGED <<orphanPrev, orphanCur, prevReq, curReq, takenPrev, takenCur,
                         hand, mem>>
      PROVE  QueueInv'
  BY <1>1 DEF QueueInv, Kept, Distinct, Orphans
<1>2. ASSUME NEW t \in Thread,
             \/ Register(t) \/ remove_thread_from_previous_epoch(t)
             \/ unregister_thread(t) \/ unregister_thread_cas_failed(t)
      PROVE  QueueInv'
  BY <1>1, <1>2 DEF Register, register_thread, register_thread_during_epoch_change,
     register_thread_spin_end, remove_thread_from_previous_epoch, unregister_thread,
     unregister_thread_cas_failed, takenVars, clientVars, globalVars, threadVars
<1>3. CASE UNCHANGED vars
  BY <1>1, <1>3 DEF vars, globalVars, threadVars, controlVars, takenVars, clientVars
<1> QED
  BY <1>2, <1>3, QueueClient, QueueQuiescent, QueueChangeEpoch, QueueTakePrevious,
     QueueTakeCurrent, QueueInstall, QueueUnregister, QueueOrphan
     DEF Next, Quiescent, HandleOrphans, Unregister

\* At most one place of an address, from the four conjuncts of QueueInv.
LEMMA QueuedOnceFromInv ==
    ASSUME TypeOK, QueueInv
    PROVE  QueuedOnce
<1> SUFFICES ASSUME NEW p \in Ptr
             PROVE  IF mem[p] = "unlinked" THEN \E x \in Places(p) : Places(p) = {x}
                                           ELSE Places(p) = {}
  BY DEF QueuedOnce
<1>1. p # NoPtr
  BY NoPtrAssumption
<1>2. CASE mem[p] # "unlinked"
  <2>1. p \notin Orphans /\ \A t \in Thread : p \notin Kept(t)
    BY <1>2 DEF QueueInv
  <2> QED
    BY <1>1, <1>2, <2>1 DEF Places, Kept, Orphans
<1>3. CASE mem[p] = "unlinked" /\ p \in Orphans
  <2>1. \A t \in Thread : p \notin Kept(t)
    BY <1>3 DEF QueueInv
  <2>2. ~(p \in orphanPrev /\ p \in orphanCur)
    BY DEF QueueInv
  <2>3. Places(p) = (IF p \in orphanPrev THEN {<<"orphanPrevious">>} ELSE {})
                    \cup (IF p \in orphanCur THEN {<<"orphanCurrent">>} ELSE {})
    BY <1>1, <2>1 DEF Places, Kept
  <2>4. Places(p) = {<<"orphanPrevious">>} \/ Places(p) = {<<"orphanCurrent">>}
    BY <1>3, <2>2, <2>3 DEF Orphans
  <2> QED
    BY <1>3, <2>4
<1>4. CASE mem[p] = "unlinked" /\ p \notin Orphans
  <2>1. PICK t \in Thread : p \in Kept(t)
    BY <1>4 DEF QueueInv
  <2>2. \A u \in Thread : u # t => p \notin Kept(u)
    BY <2>1 DEF QueueInv
  <2>3. Distinct(t)
    BY DEF QueueInv
  <2>4. \A u \in Thread : u # t =>
            hand[u] # p /\ p \notin prevReq[u] /\ p \notin curReq[u]
            /\ p \notin takenPrev[u] /\ p \notin takenCur[u]
    BY <1>1, <2>2 DEF Kept
  <2>5. \E x \in {<<"hand", t>>, <<"previous", t>>, <<"current", t>>,
                  <<"takenPrevious", t>>, <<"takenCurrent", t>>} : Places(p) = {x}
    BY <1>1, <1>4, <2>1, <2>3, <2>4 DEF Places, Kept, Orphans, Distinct
  <2> QED
    BY <1>4, <2>5
<1> QED
  BY <1>2, <1>3, <1>4

\* Neither leak nor double free, for any number of threads and addresses: what is
\* unlinked is queued in exactly one place until it is deallocated.
THEOREM RequestsQueuedOnce == Spec => []QueuedOnce
<1> DEFINE Inv == CountInv /\ QueueInv /\ Taken
<1>1. Init => Inv
  <2>1. Init => QueueInv
    BY NoPtrAssumption DEF Init, QueueInv, Kept, Distinct, Orphans
  <2>2. Init => Taken
    BY DEF Init, Taken
  <2> QED
    BY <2>1, <2>2, CountsInit
<1>2. Inv /\ [Next]_vars => Inv'
  BY CountsStep, QueueStep, TakenStep
<1>3. Inv => QueuedOnce
  BY QueuedOnceFromInv DEF CountInv
<1> QED
  BY <1>1, <1>2, <1>3, PTL DEF Spec

-------------------------------------------------------------------------------
(***************************************************************************)
(* Proofs about the grace period of Qsbr: a thread never executes requests *)
(* of its own while somebody holds the pointer, and, as long as no thread  *)
(* joins while another one exits, nothing held is ever deallocated.        *)
(***************************************************************************)

ThreadStep(t) ==
    Client(t) \/ Register(t) \/ Quiescent(t) \/ HandleOrphans(t) \/ Unregister(t)

\* Everybody who holds p has to pass through a quiescent state before the epoch
\* can change.
Covered(p) == Holders(p) \subseteq InPrevious

\* Pointers are held only between two calls of QSBR, by registered threads.
HoldersRun == \A t \in Thread : holds[t] # {} => pc[t] = "run"

-------------------------------------------------------------------------------
\* What a step may do to holders.
LEMMA HoldersRunStep ==
    ASSUME CountInv, HoldersRun, [Next]_vars
    PROVE  HoldersRun'
<1> USE DEF CountInv, TypeOK, HoldersRun
<1>1. CASE UNCHANGED vars
  BY <1>1 DEF vars, controlVars, clientVars
<1>2. ASSUME NEW t \in Thread, Client(t)
      PROVE  HoldersRun'
  BY <1>2 DEF Client, Allocate, register_active_ptr, unregister_active_ptr, Unlink,
     on_next_epoch_deallocate, controlVars
<1>3. ASSUME NEW t \in Thread, Register(t)
      PROVE  HoldersRun'
  BY <1>3 DEF Register, register_thread, register_thread_during_epoch_change,
     register_thread_spin_end, Goto, clientVars
<1>4. ASSUME NEW t \in Thread, Quiescent(t)
      PROVE  HoldersRun'
  BY <1>4 DEF Quiescent, quiescent, remove_thread_from_previous_epoch, change_epoch,
     Quiet, Goto, clientVars
<1>5. ASSUME NEW t \in Thread, HandleOrphans(t)
      PROVE  HoldersRun'
  BY <1>5 DEF HandleOrphans, take_previous_orphans, take_current_orphans,
     install_previous_orphans, Goto, clientVars
<1>6. ASSUME NEW t \in Thread, Unregister(t)
      PROVE  HoldersRun'
  BY <1>6 DEF Unregister, unregister_thread, unregister_thread_cas_failed,
     unregister_thread_cas, UnregisterWith, orphan_previous_requests,
     orphan_current_requests, Quiet, Goto, clientVars
<1> QED
  BY <1>1, <1>2, <1>3, <1>4, <1>5, <1>6 DEF Next

\* Only a published pointer can be acquired.
LEMMA HoldersShrink ==
    ASSUME TypeOK, NEW p \in Ptr, mem[p] # "linked", [Next]_vars
    PROVE  Holders(p)' \subseteq Holders(p)
<1>1. UNCHANGED holds \/ \E t \in Thread : \E q \in Ptr :
          \/ mem[q] = "linked" /\ holds' = [holds EXCEPT ![t] = @ \cup {q}]
          \/ holds' = [holds EXCEPT ![t] = @ \ {q}]
  BY ZenonT(30) DEF Next, vars, clientVars, Client, Allocate, register_active_ptr,
     unregister_active_ptr, Unlink, on_next_epoch_deallocate, Register, register_thread,
     register_thread_during_epoch_change, register_thread_spin_end, Quiescent, quiescent,
     remove_thread_from_previous_epoch, change_epoch, HandleOrphans,
     take_previous_orphans, take_current_orphans, install_previous_orphans, Unregister,
     unregister_thread, unregister_thread_cas_failed, unregister_thread_cas,
     orphan_previous_requests, orphan_current_requests
<1> QED
  BY <1>1 DEF TypeOK, Holders

\* As long as the epoch stays, a running thread stays in the previous epoch.
LEMMA StaysInPrevious ==
    ASSUME CountInv, [Next]_vars, state'.epoch = state.epoch,
           NEW u \in InPrevious, pc[u] = "run"
    PROVE  u \in InPrevious'
<1> USE DEF CountInv
<1>0. u \in Thread /\ u \in Registered /\ (lastQ[u] # state.epoch \/ ~quiesced[u])
  BY DEF InPrevious, Registered
<1>1. CASE UNCHANGED vars
  BY <1>1 DEF InPrevious, Registered, Changing, vars, globalVars, threadVars, controlVars
<1>2. ASSUME NEW t \in Thread, Client(t)
      PROVE  u \in InPrevious'
  <2>1. UNCHANGED <<state, pc, exiting, snap, lastQ, quiesced>>
    BY <1>2 DEF Client, Allocate, register_active_ptr, unregister_active_ptr, Unlink,
       on_next_epoch_deallocate, globalVars, threadVars, controlVars
  <2> QED
    BY <2>1 DEF InPrevious, Registered, Changing
<1>3. ASSUME NEW t \in Thread, Register(t)
      PROVE  u \in InPrevious'
  BY <1>0, <1>3 DEF Register, register_thread, register_thread_during_epoch_change,
     register_thread_spin_end, RegisteredAt, Goto, threadVars, InPrevious, Registered,
     Changing, TypeOK
<1>4. ASSUME NEW t \in Thread, quiescent(t)
      PROVE  u \in InPrevious'
  BY <1>0, <1>4 DEF quiescent, Quiet, Goto, InPrevious, Registered, Changing, TypeOK
<1>5. ASSUME NEW t \in Thread, remove_thread_from_previous_epoch(t)
      PROVE  u \in InPrevious'
  BY <1>0, <1>5 DEF remove_thread_from_previous_epoch, Goto, InPrevious, Registered,
     Changing, TypeOK
<1>6. ASSUME NEW t \in Thread, change_epoch(t)
      PROVE  u \in InPrevious'
  BY <1>0, <1>6, ChangeEpochFacts DEF ChangeEpochEffect
<1>7. ASSUME NEW t \in Thread, HandleOrphans(t)
      PROVE  u \in InPrevious'
  BY <1>0, <1>7 DEF HandleOrphans, take_previous_orphans, take_current_orphans,
     install_previous_orphans, Goto, threadVars, InPrevious, Registered, Changing, TypeOK
<1>8. ASSUME NEW t \in Thread, unregister_thread_cas(t)
      PROVE  u \in InPrevious'
  BY <1>0, <1>8, UnregisterFacts DEF UnregisterEffect, LastQuits, OtherQuits
<1>9. ASSUME NEW t \in Thread,
             \/ unregister_thread(t) \/ unregister_thread_cas_failed(t)
             \/ orphan_previous_requests(t) \/ orphan_current_requests(t)
      PROVE  u \in InPrevious'
  BY <1>0, <1>9 DEF unregister_thread, unregister_thread_cas_failed, UnregisterWith,
     Quiet, orphan_previous_requests, orphan_current_requests, Goto, globalVars,
     threadVars, InPrevious, Registered, Changing, TypeOK
<1> QED
  BY <1>1, <1>2, <1>3, <1>4, <1>5, <1>6, <1>7, <1>8, <1>9 DEF Next, Quiescent, Unregister

\* When the epoch changes, no running thread is in the previous epoch, everybody
\* has seen the epoch that ends, and every running thread owes the new one a
\* quiescent state.
LEMMA EpochChanges ==
    ASSUME CountInv, EpochsWithinOne, [Next]_vars, state'.epoch # state.epoch
    PROVE  /\ \A u \in InPrevious : pc[u] # "run"
           /\ \A u \in Thread : pc'[u] = "run" => u \in InPrevious'
           /\ \A u \in Registered' : pc[u] # "spin" => lastSeen[u] = state.epoch
<1> USE DEF CountInv
<1>1. PICK t \in Thread : change_epoch(t) \/ unregister_thread_cas(t)
  <2>1. \/ UNCHANGED state
        \/ state' = inc_thread_count(state)
        \/ state' = inc_thread_count_and_threads_in_previous_epoch(state)
        \/ state' = dec_threads_in_previous_epoch(state)
        \/ \E t \in Thread : change_epoch(t) \/ unregister_thread_cas(t)
    BY DEF Next, vars, globalVars, Client, Allocate, register_active_ptr,
       unregister_active_ptr, Unlink, on_next_epoch_deallocate, Register, register_thread,
       register_thread_during_epoch_change, register_thread_spin_end, Quiescent,
       quiescent, remove_thread_from_previous_epoch, HandleOrphans,
       take_previous_orphans, take_current_orphans, install_previous_orphans, Unregister,
       unregister_thread, unregister_thread_cas_failed, orphan_previous_requests,
       orphan_current_requests
  <2> QED
    BY <2>1 DEF inc_thread_count, inc_thread_count_and_threads_in_previous_epoch,
       dec_threads_in_previous_epoch
<1>2. CASE change_epoch(t)
  <2>1. ChangeEpochEffect(t)
    BY <1>2, ChangeEpochFacts
  <2>2. \A u \in Thread : pc'[u] = "run" => u \in Registered'
    BY DEF Registered
  <2> QED
    BY <2>1, <2>2 DEF ChangeEpochEffect, EpochsWithinOne
<1>3. CASE unregister_thread_cas(t)
  <2>1. UnregisterEffect(t) /\ LastQuits(t)
    BY <1>3, UnregisterFacts DEF OtherQuits
  <2>2. \A u \in Thread : pc'[u] = "run" => u \in Registered'
    BY DEF Registered
  <2> QED
    BY <2>1, <2>2 DEF UnregisterEffect, LastQuits, EpochsWithinOne
<1> QED
  BY <1>1, <1>2, <1>3

\* The heart of the grace period: an unlinked pointer only loses holders, the ones
\* it has stay in the previous epoch, and an epoch change finds none of them there.
LEMMA GraceShrink ==
    ASSUME CountInv, EpochsWithinOne, HoldersRun, HoldersRun', [Next]_vars,
           NEW p \in Ptr, mem[p] = "unlinked"
    PROVE  /\ Holders(p) = {} => Holders(p)' = {}
           /\ Covered(p) => Covered(p)'
           /\ state'.epoch # state.epoch => Covered(p)' /\ (Covered(p) => Holders(p)' = {})
<1>1. Holders(p)' \subseteq Holders(p)
  BY HoldersShrink DEF CountInv
<1>2. /\ \A u \in Holders(p) : u \in Thread /\ pc[u] = "run"
      /\ \A u \in Holders(p)' : u \in Thread /\ pc'[u] = "run"
  BY DEF HoldersRun, Holders
<1>3. CASE state'.epoch = state.epoch
  BY <1>1, <1>2, <1>3, StaysInPrevious DEF Covered
<1>4. CASE state'.epoch # state.epoch
  BY <1>1, <1>2, <1>4, EpochChanges DEF Covered
<1> QED
  BY <1>3, <1>4

-------------------------------------------------------------------------------
\* The invariants that do not mention who holds what is queued.
Base == CountInv /\ EpochsWithinOne /\ QueueInv /\ Taken /\ HoldersRun

\* Counters, epochs and queues are right at the beginning.
LEMMA BaseInit ==
    ASSUME Init
    PROVE  Base
<1>1. EpochsWithinOne /\ Taken /\ HoldersRun
  BY DEF Init, EpochsWithinOne, Registered, Taken, HoldersRun
<1>2. QueueInv
  BY NoPtrAssumption DEF Init, QueueInv, Kept, Distinct, Orphans
<1> QED
  BY <1>1, <1>2, CountsInit DEF Base

\* Every step keeps them so.
LEMMA BaseStep ==
    ASSUME Base, [Next]_vars
    PROVE  Base'
<1>1. CountInv'
  BY CountsStep DEF Base
<1> QED
  BY <1>1, EpochsStep, QueueStep, TakenStep, HoldersRunStep DEF Base

\* From its quiescent state on, a thread on its way to the epoch change.
Leaves(t) == pc[t] = "leavePrev" \/ (Changing(t) /\ ~exiting[t])

\* The grace period of what thread t has queued.
Waiting(t) ==
    /\ pc[t] \in {"out", "spin", "orphanCur"} => prevReq[t] = {}
    /\ pc[t] \in {"out", "spin"} => curReq[t] = {}
    /\ (prevReq[t] \cup curReq[t]) \cap holds[t] = {}
    /\ t \in Registered /\ lastSeen[t] # state.epoch =>
           /\ \A p \in prevReq[t] : Holders(p) = {}
           /\ \A p \in curReq[t] : Covered(p)
    /\ (t \in Registered /\ lastSeen[t] = state.epoch) \/ pc[t] = "orphanPrev" =>
           \A p \in prevReq[t] : Covered(p)
    /\ Leaves(t) /\ snap[t].count < 2 => \A p \in curReq[t] : Holders(p) = {}

GraceInv == Base /\ \A t \in Thread : Waiting(t)

\* What the step may deallocate of the thread's own requests.
OwnSafe(t) ==
    \A p \in prevReq[t] \cup curReq[t] : mem'[p] = "free" => Holders(p) = {}

\* What a thread keeps is unlinked and not yet freed.
LEMMA QueuedUnlinked ==
    ASSUME Base, NEW t \in Thread
    PROVE  \A p \in Kept(t) : p \in Ptr /\ mem[p] = "unlinked"
  BY DEF Base, CountInv, TypeOK, QueueInv, Kept

\* GraceShrink for what thread t has queued.
LEMMA QueuedShrink ==
    ASSUME Base, Base', [Next]_vars, NEW t \in Thread, NEW p \in prevReq[t] \cup curReq[t]
    PROVE  /\ p \in Ptr /\ mem[p] = "unlinked" /\ Holders(p)' \subseteq Holders(p)
           /\ Holders(p) = {} => Holders(p)' = {}
           /\ Covered(p) => Covered(p)'
           /\ state'.epoch # state.epoch => Covered(p)' /\ (Covered(p) => Holders(p)' = {})
<1>1. p \in Ptr /\ mem[p] = "unlinked"
  BY QueuedUnlinked DEF Kept
<1> QED
  BY <1>1, GraceShrink, HoldersShrink DEF Base, CountInv

\* A thread whose lists stay as they are.
LEMMA WaitingSame ==
    ASSUME Base, Base', [Next]_vars, NEW t \in Thread, Waiting(t),
           prevReq'[t] = prevReq[t], curReq'[t] = curReq[t], lastSeen'[t] = lastSeen[t],
           t \in Registered' => t \in Registered,
           Leaves(t)' => Leaves(t) /\ snap'[t] = snap[t],
           pc'[t] \in {"out", "spin", "orphanPrev", "orphanCur"} => pc'[t] = pc[t]
    PROVE  Waiting(t)'
<1>1. \A p \in prevReq[t] \cup curReq[t] :
          /\ Holders(p)' \subseteq Holders(p)
          /\ Holders(p) = {} => Holders(p)' = {}
          /\ Covered(p) => Covered(p)'
          /\ state'.epoch # state.epoch => Covered(p)' /\ (Covered(p) => Holders(p)' = {})
  BY QueuedShrink
<1>2. (prevReq[t] \cup curReq[t]) \cap holds'[t] = {}
  BY <1>1 DEF Holders, Waiting
<1>3. CASE state'.epoch = state.epoch
  BY <1>1, <1>2, <1>3 DEF Waiting
<1>4. CASE state'.epoch # state.epoch
  <2>1. t \in Registered' => lastSeen[t] = state.epoch \/ pc[t] = "spin"
    BY <1>4, EpochChanges DEF Base
  <2> QED
    BY <1>1, <1>2, <1>4, <2>1 DEF Waiting
<1> QED
  BY <1>3, <1>4

\* The steps of one thread leave the lists and program points of the others alone.
LEMMA OthersSame ==
    ASSUME TypeOK, NEW t \in Thread, ThreadStep(t), NEW u \in Thread, u # t
    PROVE  /\ pc'[u] = pc[u] /\ exiting'[u] = exiting[u] /\ snap'[u] = snap[u]
           /\ prevReq'[u] = prevReq[u] /\ curReq'[u] = curReq[u]
           /\ lastSeen'[u] = lastSeen[u]
<1> USE DEF TypeOK
<1>1. CASE Client(t)
  BY <1>1 DEF Client, Allocate, register_active_ptr, unregister_active_ptr, Unlink,
     on_next_epoch_deallocate, StoreRequests, threadVars, controlVars
<1>2. CASE Register(t)
  BY <1>2 DEF Register, register_thread, register_thread_during_epoch_change,
     register_thread_spin_end, RegisteredAt, Goto, threadVars
<1>3. CASE Quiescent(t)
  BY <1>3 DEF Quiescent, quiescent, remove_thread_from_previous_epoch, change_epoch,
     StoreRequests, Goto
<1>4. CASE HandleOrphans(t)
  BY <1>4 DEF HandleOrphans, take_previous_orphans, take_current_orphans,
     install_previous_orphans, Goto, threadVars
<1>5. CASE Unregister(t)
  BY <1>5 DEF Unregister, unregister_thread, unregister_thread_cas_failed,
     unregister_thread_cas, UnregisterWith, StoreRequests, orphan_previous_requests,
     orphan_current_requests, Goto, threadVars
<1> QED
  BY <1>1, <1>2, <1>3, <1>4, <1>5 DEF ThreadStep

\* A step of one thread does not shorten the wait of another's requests.
LEMMA WaitingOthers ==
    ASSUME Base, Base', NEW t \in Thread, ThreadStep(t),
           NEW u \in Thread, u # t, Waiting(u)
    PROVE  Waiting(u)'
<1>1. /\ pc'[u] = pc[u] /\ exiting'[u] = exiting[u] /\ snap'[u] = snap[u]
      /\ prevReq'[u] = prevReq[u] /\ curReq'[u] = curReq[u]
      /\ lastSeen'[u] = lastSeen[u]
  BY OthersSame DEF Base, CountInv
<1>2. [Next]_vars
  BY DEF Next, ThreadStep
<1>3. /\ u \in Registered' => u \in Registered
      /\ Leaves(u)' => Leaves(u)
  BY <1>1 DEF Registered, Leaves, Changing
<1> QED
  BY <1>1, <1>2, <1>3, WaitingSame

\* The steps of t that keep its own lists.
LEMMA WaitingKeeps ==
    ASSUME Base, Base', NEW t \in Thread, Waiting(t),
           \/ \E p \in Ptr : \/ Allocate(t, p) \/ register_active_ptr(t, p)
                             \/ unregister_active_ptr(t, p) \/ Unlink(t, p)
           \/ remove_thread_from_previous_epoch(t)
           \/ HandleOrphans(t)
           \/ unregister_thread(t)
           \/ unregister_thread_cas_failed(t)
    PROVE  Waiting(t)'
<1>1. [Next]_vars
  BY DEF Next, Client, Quiescent, Unregister
<1> USE DEF Base, CountInv, TypeOK
<1>2. UNCHANGED <<prevReq, curReq, lastSeen>>
  BY DEF Allocate, register_active_ptr, unregister_active_ptr, Unlink,
     remove_thread_from_previous_epoch, HandleOrphans, take_previous_orphans,
     take_current_orphans, install_previous_orphans, unregister_thread,
     unregister_thread_cas_failed, threadVars
<1>3. \/ UNCHANGED <<pc, snap, exiting>>
      \/ /\ pc[t] = "leavePrev" /\ pc'[t] = "run"
      \/ /\ pc[t] = "leavePrev" /\ pc'[t] = "takePrev"
         /\ UNCHANGED snap
      \/ /\ pc[t] \in {"takePrev", "takeCur", "install"}
         /\ pc'[t] \in {"takeCur", "install", "unregister", "publish"}
         /\ UNCHANGED <<snap, exiting>>
      \/ /\ pc[t] \in {"run", "unregister"} /\ exiting'[t]
         /\ pc'[t] \in {"takePrev", "unregister"}
  BY DEF Allocate, register_active_ptr, unregister_active_ptr, Unlink, controlVars,
     remove_thread_from_previous_epoch, HandleOrphans, take_previous_orphans,
     take_current_orphans, install_previous_orphans, unregister_thread,
     unregister_thread_cas_failed, UnregisterWith, Quiet, Goto, Control
<1>4. /\ t \in Registered' => t \in Registered
      /\ Leaves(t)' => Leaves(t) /\ snap'[t] = snap[t]
      /\ pc'[t] \in {"out", "spin", "orphanPrev", "orphanCur"} => pc'[t] = pc[t]
  BY <1>3 DEF Registered, Leaves, Changing
<1> QED
  BY <1>1, <1>2, <1>4, WaitingSame

\* A thread that registers has no requests.
LEMMA WaitingRegister ==
    ASSUME Base, Base', NEW t \in Thread, Waiting(t), Register(t)
    PROVE  Waiting(t)'
<1>1. UNCHANGED <<prevReq, curReq>> /\ pc[t] \in {"out", "spin"}
  BY DEF Register, register_thread, register_thread_during_epoch_change,
     register_thread_spin_end, threadVars
<1> QED
  BY <1>1 DEF Waiting

\* Orphaned requests are no longer those of the thread.
LEMMA WaitingOrphan ==
    ASSUME Base, Base', NEW t \in Thread, Waiting(t),
           orphan_previous_requests(t) \/ orphan_current_requests(t)
    PROVE  Waiting(t)'
<1> USE DEF Base, CountInv, TypeOK
<1>1. CASE orphan_previous_requests(t)
  BY <1>1 DEF orphan_previous_requests, Goto, clientVars, Waiting, Registered, Leaves,
     Changing
<1>2. CASE orphan_current_requests(t)
  BY <1>2 DEF orphan_current_requests, Goto, clientVars, Waiting, Registered, Leaves,
     Changing
<1> QED
  BY <1>1, <1>2

\* In single-thread mode only the one registered thread can hold a pointer.
LEMMA SingleHolder ==
    ASSUME Base, NEW t \in Registered, single_thread_mode(state), NEW p \in Ptr
    PROVE  Holders(p) \subseteq {t}
<1>1. state.count = 1
  BY Counters DEF Base, CountInv, single_thread_mode, TypeOK, Word
<1>2. Registered = {t}
  BY <1>1, Counters DEF Base, CountInv
<1>3. Holders(p) \subseteq Registered
  BY DEF Base, HoldersRun, Holders, Registered
<1> QED
  BY <1>2, <1>3

\* advance_last_seen_epoch on a thread's own requests, spelled out.
LEMMA OwnAdvance ==
    ASSUME NEW t, NEW st, NEW e, NEW new
    PROVE  advance_last_seen_epoch(requests(t), st, e, new) =
               IF e = lastSeen[t]
               THEN [seen |-> lastSeen[t], prev |-> prevReq[t], cur |-> curReq[t],
                     done |-> {}]
               ELSE [seen |-> e, prev |-> IF st THEN {} ELSE curReq[t], cur |-> new,
                     done |-> prevReq[t] \cup (IF st THEN curReq[t] ELSE {})]
  BY DEF advance_last_seen_epoch, execute_previous_requests, requests

\* The vectors of a quitting thread once it has seen the epoch of its snapshot.
LEMMA OwnSeen ==
    ASSUME NEW t
    PROVE  SeenRequests(t) =
               IF snap[t].prev = 0 \/ snap[t].epoch = lastSeen[t]
               THEN [seen |-> lastSeen[t], prev |-> prevReq[t], cur |-> curReq[t],
                     done |-> {}]
               ELSE [seen |-> snap[t].epoch,
                     prev |-> IF single_thread_mode(snap[t]) THEN {} ELSE curReq[t],
                     cur |-> {},
                     done |-> prevReq[t] \cup
                              (IF single_thread_mode(snap[t]) THEN curReq[t] ELSE {})]
<1>1. CASE snap[t].prev = 0
  BY <1>1 DEF SeenRequests, requests
<1>2. CASE snap[t].prev # 0
  BY <1>2 DEF SeenRequests, advance_last_seen_epoch, execute_previous_requests, requests
<1> QED
  BY <1>1, <1>2

\* Catching up with the epoch frees nothing that is held.
LEMMA CatchUpSafe ==
    ASSUME Base, NEW t \in Registered, Waiting(t), lastSeen[t] # state.epoch
    PROVE  /\ \A p \in prevReq[t] : Holders(p) = {}
           /\ single_thread_mode(state) => \A p \in curReq[t] : Holders(p) = {}
<1>0. t \in Thread
  BY DEF Registered
<1>1. ASSUME single_thread_mode(state), NEW p \in curReq[t]
      PROVE  Holders(p) = {}
  <2>1. p \in Ptr
    BY <1>0, QueuedUnlinked DEF Kept
  <2> QED
    BY <1>1, <2>1, SingleHolder DEF Waiting, Holders
<1> QED
  BY <1>1 DEF Waiting

\* What quiescent executes has waited long enough, and the rest goes on waiting.
LEMMA WaitingQuiescent ==
    ASSUME Base, Base', NEW t \in Thread, Waiting(t), quiescent(t)
    PROVE  Waiting(t)' /\ OwnSafe(t)
<1>0. [Next]_vars
  BY DEF Next, Quiescent
<1> USE DEF Base, CountInv
<1> DEFINE st == single_thread_mode(state)
<1>1. /\ t \in Registered /\ holds[t] = {} /\ UNCHANGED <<state, holds, exiting>>
      /\ pc'[t] \in {"run", "leavePrev"}
      /\ pc'[t] = "leavePrev" => snap'[t] = state
  BY DEF quiescent, Quiet, Registered, Goto, TypeOK, globalVars
<1>2. /\ st => \A p \in prevReq[t] \cup curReq[t] : Holders(p) = {}
  <2>1. \A p \in prevReq[t] \cup curReq[t] : p \in Ptr
    BY QueuedUnlinked DEF Kept
  <2> QED
    BY <1>1, <2>1, SingleHolder DEF Holders
<1>3. state'.epoch = state.epoch /\ lastSeen'[t] = state.epoch
  BY <1>1, OwnAdvance DEF quiescent, StoreRequests, TypeOK
<1>4. CASE lastSeen[t] = state.epoch
  <2>1. /\ prevReq'[t] = prevReq[t] /\ curReq'[t] = curReq[t]
        /\ \A p \in Ptr : mem'[p] = mem[p]
    BY <1>4, OwnAdvance DEF quiescent, StoreRequests, deallocate, TypeOK
  <2>2. \A p \in prevReq[t] \cup curReq[t] :
            /\ p \in Ptr /\ mem[p] = "unlinked"
            /\ Holders(p) = {} => Holders(p)' = {}
            /\ Covered(p) => Covered(p)'
    BY <1>0, QueuedShrink
  <2>3. OwnSafe(t)
    BY <2>1, <2>2 DEF OwnSafe
  <2>4. Leaves(t)' /\ snap'[t].count < 2 => st
    BY <1>1 DEF Leaves, Changing, single_thread_mode
  <2> QED
    BY <1>1, <1>2, <1>3, <1>4, <2>1, <2>2, <2>3, <2>4 DEF Waiting
<1>5. CASE lastSeen[t] # state.epoch
  <2>1. /\ prevReq'[t] = (IF st THEN {} ELSE curReq[t]) /\ curReq'[t] = {}
        /\ \A p \in Ptr : mem'[p] = IF p \in prevReq[t] \cup (IF st THEN curReq[t] ELSE {})
                                     THEN "free" ELSE mem[p]
    <3> DEFINE r == advance_last_seen_epoch(requests(t), st, state.epoch, {})
    <3>1. StoreRequests(t, r) /\ deallocate(r.done)
      BY DEF quiescent
    <3>2. /\ r.prev = (IF st THEN {} ELSE curReq[t]) /\ r.cur = {}
          /\ r.done = prevReq[t] \cup (IF st THEN curReq[t] ELSE {})
      BY <1>5, OwnAdvance, SMTT(30)
    <3> HIDE DEF r, st
    <3> QED
      BY <3>1, <3>2 DEF StoreRequests, deallocate, TypeOK
  <2>2. \A p \in prevReq[t] \cup curReq[t] :
            /\ p \in Ptr /\ mem[p] = "unlinked"
            /\ Covered(p) => Covered(p)'
    BY <1>0, QueuedShrink
  <2>3. OwnSafe(t)
    BY <1>1, <1>5, <2>1, <2>2, CatchUpSafe DEF OwnSafe
  <2>4. \A p \in prevReq'[t] : Covered(p)'
    BY <1>1, <1>5, <2>1, <2>2 DEF Waiting
  <2> QED
    BY <1>1, <1>3, <2>1, <2>3, <2>4 DEF Waiting
<1> QED
  BY <1>4, <1>5

\* The same when a new request finds that the epoch has changed,
LEMMA WaitingRetire ==
    ASSUME Base, Base', NEW t \in Thread, Waiting(t), on_next_epoch_deallocate(t)
    PROVE  Waiting(t)' /\ OwnSafe(t)
<1>0. [Next]_vars
  BY DEF Next, Client
<1> USE DEF Base, CountInv
<1> DEFINE st == single_thread_mode(state)
           h == hand[t]
<1>1. /\ t \in Registered /\ UNCHANGED <<state, holds, exiting, pc, snap>>
      /\ pc[t] = "run" /\ h \notin holds[t] /\ h \in Ptr
      /\ h \notin prevReq[t] \cup curReq[t]
  BY DEF on_next_epoch_deallocate, Registered, TypeOK, globalVars, controlVars, QueueInv,
     Distinct
<1>2. \A p \in prevReq[t] \cup curReq[t] :
          p \in Ptr /\ mem[p] = "unlinked" /\ (Covered(p) => Covered(p)')
  BY <1>0, QueuedShrink
<1>3. state'.epoch = state.epoch /\ lastSeen'[t] = state.epoch
  BY <1>1, OwnAdvance DEF on_next_epoch_deallocate, StoreRequests, TypeOK
<1>4. ~Leaves(t)' /\ pc'[t] = "run"
  BY <1>1 DEF Leaves, Changing
<1>5. CASE lastSeen[t] = state.epoch
  <2>1. /\ prevReq'[t] = prevReq[t]
        /\ curReq'[t] = curReq[t] \cup (IF st THEN {} ELSE {h})
        /\ \A p \in Ptr : mem'[p] = IF p \in (IF st THEN {h} ELSE {})
                                     THEN "free" ELSE mem[p]
    BY <1>5, OwnAdvance DEF on_next_epoch_deallocate, StoreRequests, deallocate, TypeOK
  <2>2. OwnSafe(t)
    BY <1>1, <1>2, <2>1 DEF OwnSafe
  <2>3. \A p \in prevReq'[t] : Covered(p)'
    BY <1>1, <1>2, <1>5, <2>1 DEF Waiting
  <2> QED
    BY <1>1, <1>3, <1>4, <2>1, <2>2, <2>3 DEF Waiting
<1>6. CASE lastSeen[t] # state.epoch
  <2>1. /\ prevReq'[t] = (IF st THEN {} ELSE curReq[t])
        /\ curReq'[t] = (IF st THEN {} ELSE {h})
        /\ \A p \in Ptr : mem'[p] = IF p \in prevReq[t] \cup (IF st THEN curReq[t] ELSE {})
                                            \cup (IF st THEN {h} ELSE {})
                                     THEN "free" ELSE mem[p]
    <3> DEFINE r == advance_last_seen_epoch(requests(t), st, state.epoch,
                                            IF st THEN {} ELSE {h})
    <3>1. StoreRequests(t, r) /\ deallocate(r.done \cup (IF st THEN {h} ELSE {}))
      BY <1>6 DEF on_next_epoch_deallocate
    <3>2. /\ r.prev = (IF st THEN {} ELSE curReq[t]) /\ r.cur = (IF st THEN {} ELSE {h})
          /\ r.done = prevReq[t] \cup (IF st THEN curReq[t] ELSE {})
      BY <1>6, OwnAdvance
    <3> HIDE DEF r, st, h
    <3> QED
      BY <3>1, <3>2 DEF StoreRequests, deallocate, TypeOK
  <2>2. OwnSafe(t)
    BY <1>1, <1>2, <1>6, <2>1, CatchUpSafe DEF OwnSafe
  <2>3. \A p \in prevReq'[t] : Covered(p)'
    BY <1>1, <1>2, <1>6, <2>1 DEF Waiting
  <2> QED
    BY <1>1, <1>3, <1>4, <2>1, <2>2, <2>3 DEF Waiting
<1> QED
  BY <1>5, <1>6

\* when its thread changes the epoch,
LEMMA WaitingChangeEpoch ==
    ASSUME Base, Base', NEW t \in Thread, Waiting(t), change_epoch(t)
    PROVE  Waiting(t)' /\ OwnSafe(t)
<1>0. [Next]_vars
  BY DEF Next, Quiescent
<1> USE DEF Base, CountInv
<1> DEFINE st == single_thread_mode(snap[t])
<1>1. ChangeEpochEffect(t)
  BY ChangeEpochFacts
<1>2. /\ state'.epoch = advance(state.epoch) /\ state'.epoch # state.epoch
      /\ t \in Registered /\ lastSeen[t] = state.epoch /\ Leaves(t) /\ InPrevious = {}
      /\ pc'[t] = "run" /\ UNCHANGED holds
  BY <1>1 DEF ChangeEpochEffect, Registered, EpochsWithinOne, Leaves, Changing, TypeOK
<1>3. \A p \in prevReq[t] \cup curReq[t] : p \in Ptr /\ mem[p] = "unlinked" /\ Covered(p)'
  BY <1>0, <1>2, QueuedShrink
<1>4. /\ prevReq'[t] = (IF st THEN {} ELSE curReq[t]) /\ curReq'[t] = {}
      /\ lastSeen'[t] = state'.epoch
      /\ \A p \in Ptr : mem'[p] = IF p \in prevReq[t] \cup (IF st THEN curReq[t] ELSE {})
                                   THEN "free" ELSE mem[p]
  BY <1>1, <1>2 DEF ChangeEpochEffect, ChangeRequests, execute_previous_requests,
     requests, StoreRequests, deallocate, TypeOK
<1>5. /\ \A p \in prevReq[t] : Holders(p) = {}
      /\ st => \A p \in curReq[t] : Holders(p) = {}
  BY <1>2 DEF Waiting, Covered, single_thread_mode
<1>6. OwnSafe(t)
  BY <1>3, <1>4, <1>5 DEF OwnSafe
<1> QED
  BY <1>2, <1>3, <1>4, <1>6 DEF Waiting

\* and when it quits.
LEMMA WaitingUnregister ==
    ASSUME Base, Base', NEW t \in Thread, Waiting(t), unregister_thread_cas(t)
    PROVE  Waiting(t)' /\ OwnSafe(t)
<1>0. [Next]_vars
  BY DEF Next, Unregister
<1> USE DEF Base, CountInv
<1> DEFINE st == single_thread_mode(state)
           s == SeenRequests(t)
           r == QuitRequests(t)
<1>1. UnregisterEffect(t) /\ (LastQuits(t) \/ OtherQuits(t))
  BY UnregisterFacts
<1>2. /\ t \in Registered /\ ~Leaves(t)' /\ pc'[t] = "orphanPrev" /\ t \notin Registered'
      /\ holds[t] = {} /\ UNCHANGED holds /\ snap[t] = state
  BY <1>1 DEF UnregisterEffect, HoldersRun, Leaves, Changing, TypeOK
<1>3. \A p \in prevReq[t] \cup curReq[t] :
          /\ p \in Ptr /\ mem[p] = "unlinked"
          /\ Covered(p) => Covered(p)'
          /\ state'.epoch # state.epoch => Covered(p)'
  BY <1>0, QueuedShrink
<1>4. st => \A p \in prevReq[t] \cup curReq[t] : Holders(p) = {}
  BY <1>2, <1>3, SingleHolder DEF Holders
<1>5. /\ s.prev \cup s.cur \cup s.done \subseteq prevReq[t] \cup curReq[t]
      /\ \A p \in s.done : Holders(p) = {}
      /\ \A p \in s.prev : Covered(p)
  <2>1. CASE state.prev = 0 \/ lastSeen[t] = state.epoch
    <3>1. s.prev = prevReq[t] /\ s.cur = curReq[t] /\ s.done = {}
      BY <1>2, <2>1, OwnSeen
    <3>2. lastSeen[t] = state.epoch
      BY <1>1, <1>2, <2>1 DEF EpochsWithinOne, UnregisterEffect
    <3> QED
      BY <1>2, <3>1, <3>2 DEF Waiting
  <2>2. CASE state.prev # 0 /\ lastSeen[t] # state.epoch
    <3>1. /\ s.prev = (IF st THEN {} ELSE curReq[t]) /\ s.cur = {}
          /\ s.done = prevReq[t] \cup (IF st THEN curReq[t] ELSE {})
      BY <1>2, <2>2, OwnSeen
    <3> HIDE DEF s
    <3> QED
      BY <1>2, <1>4, <2>2, <3>1 DEF Waiting
  <2> QED
    BY <2>1, <2>2
<1>6. /\ StoreRequests(t, r) /\ deallocate(r.done)
      /\ r = IF advance_epoch(t, state)
             THEN [seen |-> advance(state.epoch), prev |-> IF st THEN {} ELSE s.cur,
                   cur |-> {}, done |-> s.done \cup s.prev \cup (IF st THEN s.cur ELSE {})]
             ELSE s
  BY <1>1, <1>2 DEF UnregisterEffect, QuitRequests, execute_previous_requests
<1> HIDE DEF s, r, st
<1>7. /\ r.prev \cup r.done \subseteq prevReq[t] \cup curReq[t]
      /\ \A p \in r.done : Holders(p) = {}
      /\ \A p \in r.prev : Covered(p)'
  <2>1. CASE LastQuits(t)
    <3>1. /\ r.prev = (IF st THEN {} ELSE s.cur)
          /\ r.done = s.done \cup s.prev \cup (IF st THEN s.cur ELSE {})
      BY <1>6, <2>1 DEF LastQuits
    <3>2. \A p \in s.prev : Holders(p) = {}
      BY <1>2, <1>5, <2>1 DEF LastQuits, Covered, Holders
    <3>3. state'.epoch # state.epoch
      BY <2>1 DEF LastQuits
    <3> QED
      BY <1>3, <1>4, <1>5, <3>1, <3>2, <3>3
  <2>2. CASE OtherQuits(t)
    BY <1>3, <1>5, <1>6, <2>2 DEF OtherQuits
  <2> QED
    BY <1>1, <2>1, <2>2
<1>8. /\ prevReq'[t] = r.prev /\ \A p \in Ptr : mem'[p] = IF p \in r.done THEN "free"
                                                          ELSE mem[p]
  BY <1>6 DEF StoreRequests, deallocate, TypeOK
<1>9. OwnSafe(t)
  BY <1>3, <1>7, <1>8 DEF OwnSafe
<1> QED
  BY <1>2, <1>7, <1>8, <1>9 DEF Waiting

\* Where a thread may find what it deallocates in one step.
FreedFrom(t, p) ==
    \/ p \in prevReq[t] \cup curReq[t]
    \/ p = hand[t] /\ p \notin holds[t] /\ pc[t] = "run" /\ single_thread_mode(state)
    \/ p \in takenPrev[t]
    \/ p \in takenCur[t] /\ single[t] /\ pc[t] = "install"

\* Memory is freed from the vectors of the acting thread or from orphans it has
\* taken.
LEMMA Frees ==
    ASSUME Base, NEW t \in Thread, ThreadStep(t), NEW p \in Ptr,
           mem[p] # "free", mem'[p] = "free"
    PROVE  FreedFrom(t, p)
<1> USE DEF Base, CountInv
<1>1. CASE HandleOrphans(t)
  BY <1>1 DEF HandleOrphans, take_previous_orphans, take_current_orphans,
     install_previous_orphans, deallocate, clientVars, FreedFrom
<1>2. CASE on_next_epoch_deallocate(t)
  <2> DEFINE st == single_thread_mode(state)
             r == advance_last_seen_epoch(requests(t), st, state.epoch,
                                          IF st THEN {} ELSE {hand[t]})
  <2>1. r.done \subseteq prevReq[t] \cup curReq[t]
    BY OwnAdvance
  <2>2. /\ deallocate(r.done \cup (IF st THEN {hand[t]} ELSE {}))
        /\ pc[t] = "run" /\ hand[t] \notin holds[t]
    BY <1>2 DEF on_next_epoch_deallocate
  <2> HIDE DEF r
  <2> QED
    BY <2>1, <2>2 DEF deallocate, FreedFrom
<1>3. CASE quiescent(t)
  <2> DEFINE r == advance_last_seen_epoch(requests(t), single_thread_mode(state),
                                          state.epoch, {})
  <2>1. r.done \subseteq prevReq[t] \cup curReq[t]
    BY OwnAdvance
  <2>2. deallocate(r.done)
    BY <1>3 DEF quiescent
  <2> HIDE DEF r
  <2> QED
    BY <2>1, <2>2 DEF deallocate, FreedFrom
<1>4. CASE change_epoch(t)
  <2>1. deallocate(ChangeRequests(t).done)
    BY <1>4, ChangeEpochFacts DEF ChangeEpochEffect
  <2>2. ChangeRequests(t).done \subseteq prevReq[t] \cup curReq[t]
    BY DEF ChangeRequests, execute_previous_requests, requests
  <2> QED
    BY <2>1, <2>2 DEF deallocate, FreedFrom
<1>5. CASE unregister_thread_cas(t)
  <2>1. deallocate(QuitRequests(t).done)
    BY <1>5, UnregisterFacts DEF UnregisterEffect
  <2>2. SeenRequests(t).done \cup SeenRequests(t).prev \cup SeenRequests(t).cur
            \subseteq prevReq[t] \cup curReq[t]
    BY OwnSeen
  <2>3. QuitRequests(t).done \subseteq prevReq[t] \cup curReq[t]
    BY <2>2 DEF QuitRequests, execute_previous_requests
  <2> QED
    BY <2>1, <2>3 DEF deallocate, FreedFrom
<1>6. ASSUME mem' = mem
      PROVE  FALSE
  BY <1>6
<1>7. ASSUME NEW q \in Ptr, Allocate(t, q) \/ Unlink(t, q)
      PROVE  FALSE
  BY <1>7 DEF Allocate, Unlink, TypeOK
<1> QED
  BY <1>1, <1>2, <1>3, <1>4, <1>5, <1>6, <1>7
     DEF ThreadStep, Client, register_active_ptr, unregister_active_ptr, Register,
     register_thread, register_thread_during_epoch_change, register_thread_spin_end,
     Quiescent, remove_thread_from_previous_epoch, Unregister, unregister_thread,
     unregister_thread_cas_failed, orphan_previous_requests, orphan_current_requests,
     clientVars

\* A step deallocates only what its own thread has to see deallocated.
LEMMA FreedByOwner ==
    ASSUME Base, NEW t \in Thread, ThreadStep(t), NEW p \in Ptr,
           mem[p] # "free", mem'[p] = "free"
    PROVE  p \in Kept(t) /\ mem[p] = "unlinked"
<1>1. p \in Kept(t)
  BY Frees, NoPtrAssumption DEF FreedFrom, Kept
<1> QED
  BY <1>1, QueuedUnlinked

\* Every step of a thread keeps the grace periods, and frees nothing of its own that
\* is held.
LEMMA GraceStep ==
    ASSUME GraceInv, NEW t \in Thread, ThreadStep(t)
    PROVE  GraceInv' /\ OwnSafe(t)
<1>1. Base /\ Base' /\ Waiting(t)
  BY BaseStep DEF GraceInv, Next, ThreadStep
<1>2. \A u \in Thread : u # t => Waiting(u)'
  BY <1>1, WaitingOthers DEF GraceInv
<1> SUFFICES Waiting(t)' /\ OwnSafe(t)
  BY <1>1, <1>2 DEF GraceInv
<1>3. \A p \in prevReq[t] \cup curReq[t] : p \in Ptr /\ mem[p] = "unlinked" /\ p \in Kept(t)
  BY <1>1, QueuedUnlinked DEF Kept
<1>4. ASSUME UNCHANGED mem
      PROVE  OwnSafe(t)
  BY <1>3, <1>4 DEF OwnSafe
<1>5. CASE \/ \E p \in Ptr : \/ Allocate(t, p) \/ register_active_ptr(t, p)
                             \/ unregister_active_ptr(t, p) \/ Unlink(t, p)
           \/ remove_thread_from_previous_epoch(t)
           \/ unregister_thread(t)
           \/ unregister_thread_cas_failed(t)
  <2>1. Waiting(t)'
    BY <1>1, <1>5, WaitingKeeps
  <2>2. OwnSafe(t)
    BY <1>1, <1>3, <1>4, <1>5 DEF Allocate, register_active_ptr, unregister_active_ptr,
       Unlink, remove_thread_from_previous_epoch, unregister_thread,
       unregister_thread_cas_failed, clientVars, OwnSafe, Base, CountInv, TypeOK
  <2> QED
    BY <2>1, <2>2
<1>6. CASE HandleOrphans(t)
  <2>1. Waiting(t)'
    BY <1>1, <1>6, WaitingKeeps
  <2>2. OwnSafe(t)
    BY <1>1, <1>3, <1>4, <1>6 DEF HandleOrphans, take_previous_orphans,
       take_current_orphans, install_previous_orphans, deallocate, clientVars, OwnSafe,
       Base, QueueInv, Distinct
  <2> QED
    BY <2>1, <2>2
<1>7. CASE Register(t)
  BY <1>1, <1>4, <1>7, WaitingRegister DEF Register, register_thread,
     register_thread_during_epoch_change, register_thread_spin_end, clientVars
<1>8. CASE orphan_previous_requests(t) \/ orphan_current_requests(t)
  BY <1>1, <1>4, <1>8, WaitingOrphan DEF orphan_previous_requests,
     orphan_current_requests, clientVars
<1> QED
  BY <1>1, <1>5, <1>6, <1>7, <1>8, WaitingRetire, WaitingQuiescent, WaitingChangeEpoch,
     WaitingUnregister DEF ThreadStep, Client, Quiescent, Unregister

\* The invariant of the grace periods holds at the beginning.
LEMMA GraceInvInit ==
    ASSUME Init
    PROVE  GraceInv
<1>1. \A t \in Thread : prevReq[t] = {} /\ curReq[t] = {}
  BY DEF Init
<1> QED
  BY <1>1, BaseInit DEF GraceInv, Waiting

\* Every step keeps it.
LEMMA GraceInvStep ==
    ASSUME GraceInv, [Next]_vars
    PROVE  GraceInv'
<1>1. CASE UNCHANGED vars
  <2>1. \A t \in Thread : Waiting(t)'
    BY <1>1 DEF GraceInv, Waiting, Covered, Holders, Leaves, InPrevious, Registered,
       Changing, vars, globalVars, threadVars, controlVars, clientVars
  <2> QED
    BY <2>1, BaseStep DEF GraceInv
<1>2. CASE Next
  BY <1>2, GraceStep DEF Next, ThreadStep
<1> QED
  BY <1>1, <1>2

\* The grace period of every registered thread's own requests, for any number of
\* threads, addresses and epoch values: no request is executed before every thread
\* that could hold the pointer has passed through a quiescent state.
THEOREM GracePeriodKept == Spec => []GracePeriod
<1>1. GraceInv => GracePeriod
  <2> SUFFICES ASSUME GraceInv, NEW t \in Registered
               PROVE  /\ \A p \in prevReq[t] :
                             /\ lastSeen[t] # state.epoch => Holders(p) = {}
                             /\ lastSeen[t] = state.epoch => Holders(p) \subseteq InPrevious
                      /\ \A p \in curReq[t] :
                             lastSeen[t] # state.epoch => Holders(p) \subseteq InPrevious
    BY DEF GracePeriod
  <2>1. Waiting(t)
    BY DEF GraceInv, Registered
  <2> QED
    BY <2>1 DEF Waiting, Covered
<1> QED
  BY <1>1, GraceInvInit, GraceInvStep, PTL DEF Spec

\* When a thread executes requests of its own, nobody holds what is deallocated.
THEOREM OwnRequestsUnheld == Spec => OwnRequestsSafe
<1> DEFINE Safe == \A t \in Thread : \A p \in prevReq[t] \cup curReq[t] :
                       mem'[p] = "free" => Holders(p) = {}
<1>1. GraceInv /\ [Next]_vars => [Safe]_vars
  <2> SUFFICES ASSUME GraceInv, Next, NEW u \in Thread,
                      NEW p \in prevReq[u] \cup curReq[u], mem'[p] = "free"
               PROVE  Holders(p) = {}
    OBVIOUS
  <2>1. PICK t \in Thread : ThreadStep(t)
    BY DEF Next, ThreadStep
  <2>2. p \in Ptr /\ mem[p] = "unlinked" /\ p \in Kept(u)
    BY QueuedUnlinked DEF GraceInv, Kept
  <2>3. p \in Kept(t)
    BY <2>1, <2>2, FreedByOwner DEF GraceInv
  <2>4. u = t
    BY <2>2, <2>3 DEF GraceInv, Base, QueueInv
  <2> QED
    BY <2>1, <2>4, GraceStep DEF OwnSafe
<1> QED
  BY <1>1, GraceInvInit, GraceInvStep, PTL DEF Spec, OwnRequestsSafe

-------------------------------------------------------------------------------
\* From here on no thread registers while another one exits.  Then a quitting
\* thread that has handled the orphans stays the last of the previous epoch until
\* its compare-exchange, and single-thread mode does not end under its feet.
QuitsLast(t) == (exiting[t] /\ Changing(t)) \/ prepared[t] => state.prev = 1

Alone(t) == single[t] /\ Changing(t) => \A u \in Registered : u # t => pc[u] = "spin"

OrderlyInv == \A t \in Thread : QuitsLast(t) /\ Alone(t)

\* If nobody joins meanwhile, a quitting thread that handles the orphans stays the
\* last one of its epoch.
LEMMA QuitsLastStep ==
    ASSUME Base, Base', OrderlyInv, NoJoinDuringExit, NEW t \in Thread, ThreadStep(t),
           NEW u \in Thread
    PROVE  QuitsLast(u)'
<1> USE DEF Base, CountInv
<1>0. /\ (exiting[u] /\ Changing(u)) \/ prepared[u] =>
             state.prev = 1 /\ InPrevious = {u}
      /\ prepared[u] => pc[u] = "unregister"
  BY Counters DEF OrderlyInv, QuitsLast, Control
<1>1. CASE Client(t)
  BY <1>0, <1>1 DEF QuitsLast, Client, Allocate, register_active_ptr,
     unregister_active_ptr, Unlink, on_next_epoch_deallocate, globalVars, controlVars,
     Changing
<1>2. CASE Register(t)
  <2>1. exiting' = exiting /\ prepared' = prepared /\ (Changing(u)' => Changing(u))
    BY <1>2 DEF Register, register_thread, register_thread_during_epoch_change,
       register_thread_spin_end, Goto, Changing, TypeOK
  <2>2. CASE register_thread(t)
    <3>1. state'.count > state.count
      BY <2>2 DEF register_thread, inc_thread_count_and_threads_in_previous_epoch, TypeOK,
         Word
    <3>2. ~((exiting[u] /\ Changing(u)) \/ prepared[u])
      BY <3>1 DEF NoJoinDuringExit, Changing, Control
    <3> QED
      BY <2>1, <3>2 DEF QuitsLast
  <2>3. CASE register_thread_during_epoch_change(t)
    BY <1>0, <2>1, <2>3 DEF QuitsLast, register_thread_during_epoch_change,
       inc_thread_count
  <2>4. CASE register_thread_spin_end(t)
    BY <1>0, <2>1, <2>4 DEF QuitsLast, register_thread_spin_end, globalVars
  <2> QED
    BY <1>2, <2>2, <2>3, <2>4 DEF Register
<1>3. CASE quiescent(t)
  BY <1>0, <1>3 DEF QuitsLast, quiescent, Quiet, Goto, Changing, TypeOK, Control,
     globalVars
<1>4. CASE remove_thread_from_previous_epoch(t)
  <2>1. t \in InPrevious /\ ~exiting[t]
    BY <1>4 DEF remove_thread_from_previous_epoch, Control, InPrevious, Registered,
       Changing
  <2> QED
    BY <1>0, <1>4, <2>1 DEF QuitsLast, remove_thread_from_previous_epoch, Goto, Changing,
       TypeOK, Control
<1>5. CASE change_epoch(t)
  <2>1. ChangeEpochEffect(t)
    BY <1>5, ChangeEpochFacts
  <2> QED
    BY <1>0, <2>1 DEF QuitsLast, ChangeEpochEffect, Changing, TypeOK
<1>6. CASE HandleOrphans(t)
  BY <1>0, <1>6 DEF QuitsLast, HandleOrphans, take_previous_orphans,
     take_current_orphans, install_previous_orphans, Goto, Changing, TypeOK, Control
<1>7. CASE unregister_thread(t) \/ unregister_thread_cas_failed(t)
  <2>1. PICK b : UnregisterWith(t, state, b)
    BY <1>7 DEF unregister_thread, unregister_thread_cas_failed
  <2>2. /\ UNCHANGED state /\ prepared' = prepared
        /\ u # t => exiting'[u] = exiting[u]
    BY <1>7 DEF unregister_thread, unregister_thread_cas_failed, TypeOK, globalVars
  <2>3. pc'[t] \in {"takePrev", "unregister"} /\ (pc'[t] = "takePrev" => state.prev = 1)
        /\ (u # t => pc'[u] = pc[u])
    BY <2>1 DEF UnregisterWith, advance_epoch, Goto, TypeOK
  <2> QED
    BY <1>0, <2>2, <2>3 DEF QuitsLast, Changing
<1>8. CASE unregister_thread_cas(t)
  <2>1. UnregisterEffect(t) /\ (LastQuits(t) \/ OtherQuits(t))
    BY <1>8, UnregisterFacts
  <2> QED
    BY <1>0, <2>1 DEF QuitsLast, UnregisterEffect, LastQuits, OtherQuits, Changing, TypeOK
<1>9. CASE orphan_previous_requests(t) \/ orphan_current_requests(t)
  BY <1>0, <1>9 DEF QuitsLast, orphan_previous_requests, orphan_current_requests, Goto,
     Changing, TypeOK
<1> QED
  BY <1>1, <1>2, <1>3, <1>4, <1>5, <1>6, <1>7, <1>8, <1>9
     DEF ThreadStep, Quiescent, Unregister

\* One that found itself alone stays alone while it handles the orphans.
LEMMA AloneStep ==
    ASSUME Base, Base', OrderlyInv, NoJoinDuringExit, NEW t \in Thread, ThreadStep(t),
           NEW u \in Thread
    PROVE  Alone(u)'
<1> USE DEF Base, CountInv
<1>0. Alone(u) /\ (Changing(u) => InPrevious \subseteq {u})
  BY Counters DEF OrderlyInv, QuitsLast, Control
<1>1. CASE Client(t)
  BY <1>0, <1>1 DEF Alone, Client, Allocate, register_active_ptr,
     unregister_active_ptr, Unlink, on_next_epoch_deallocate, controlVars,
     Changing, Registered
<1>2. CASE register_thread(t)
  <2>1. ~Changing(u)
    <3>1. state'.count > state.count
      BY <1>2 DEF register_thread, inc_thread_count_and_threads_in_previous_epoch, TypeOK,
         Word
    <3>2. ~(exiting[u] /\ Changing(u))
      BY <3>1 DEF NoJoinDuringExit, Changing, Control
    <3>3. Changing(u) /\ ~exiting[u] => state.prev = 0 /\ state.count > 0
      BY Counters DEF Control, Registered, Changing
    <3> QED
      BY <1>2, <3>2, <3>3 DEF register_thread, TypeOK, Word
  <2> QED
    BY <1>2, <2>1 DEF Alone, register_thread, Goto, Changing, TypeOK
<1>3. CASE register_thread_during_epoch_change(t)
  BY <1>0, <1>3 DEF Alone, register_thread_during_epoch_change, Goto, Changing, TypeOK,
     Registered
<1>4. CASE register_thread_spin_end(t)
  <2>1. t \in InPrevious
    BY <1>4 DEF register_thread_spin_end, InPrevious, Registered, Changing
  <2> QED
    BY <1>0, <1>4, <2>1 DEF Alone, register_thread_spin_end, Goto, Changing, TypeOK,
       Registered
<1>5. CASE quiescent(t)
  BY <1>0, <1>5 DEF Alone, quiescent, Quiet, Goto, Changing, TypeOK, Registered
<1>6. CASE remove_thread_from_previous_epoch(t)
  <2>1. t \in Registered
    BY <1>6 DEF remove_thread_from_previous_epoch, Registered
  <2>2. single_thread_mode(state) => Registered = {t}
    BY <2>1, Counters DEF single_thread_mode, TypeOK, Word
  <2> QED
    BY <1>0, <1>6, <2>1, <2>2 DEF Alone, remove_thread_from_previous_epoch, Goto,
       Changing, TypeOK, Registered
<1>7. CASE change_epoch(t)
  BY <1>0, <1>7 DEF Alone, change_epoch, Goto, Changing, TypeOK, Registered,
     OneEpochChanger
<1>8. CASE HandleOrphans(t)
  <2>1. /\ pc[t] \in {"takePrev", "takeCur", "install"}
        /\ \A v \in Thread : v # t => pc'[v] = pc[v] /\ single'[v] = single[v]
        /\ single'[t] => single[t]
    BY <1>8 DEF HandleOrphans, take_previous_orphans, take_current_orphans,
       install_previous_orphans, Goto, TypeOK
  <2> QED
    BY <1>0, <2>1 DEF Alone, Changing, Registered
<1>9. CASE unregister_thread(t) \/ unregister_thread_cas_failed(t)
  <2>1. PICK b : /\ UnregisterWith(t, state, b)
                 /\ t \in Registered /\ pc[t] \in {"run", "unregister"}
    BY <1>9 DEF unregister_thread, unregister_thread_cas_failed, Quiet, Registered
  <2>2. single_thread_mode(state) => Registered = {t}
    BY <2>1, Counters DEF single_thread_mode, TypeOK, Word
  <2> QED
    BY <1>0, <2>1, <2>2 DEF Alone, UnregisterWith, Goto, Changing, TypeOK, Registered
<1>10. CASE unregister_thread_cas(t)
  BY <1>0, <1>10 DEF Alone, unregister_thread_cas, Goto, Changing, TypeOK, Registered
<1>11. CASE orphan_previous_requests(t) \/ orphan_current_requests(t)
  BY <1>0, <1>11 DEF Alone, orphan_previous_requests, orphan_current_requests, Goto,
     Changing, TypeOK, Registered
<1> QED
  BY <1>1, <1>2, <1>3, <1>4, <1>5, <1>6, <1>7, <1>8, <1>9, <1>10, <1>11
     DEF ThreadStep, Register, Quiescent, Unregister

\* Both hold along orderly behaviours.
LEMMA OrderlyStep ==
    ASSUME Base, Base', OrderlyInv, [Next /\ NoJoinDuringExit]_vars
    PROVE  OrderlyInv'
<1>1. CASE UNCHANGED vars
  BY <1>1 DEF OrderlyInv, QuitsLast, Alone, Changing, Registered, vars, globalVars,
     controlVars
<1>2. CASE Next /\ NoJoinDuringExit
  <2>1. PICK t \in Thread : ThreadStep(t)
    BY <1>2 DEF Next, ThreadStep
  <2> QED
    BY <1>2, <2>1, QuitsLastStep, AloneStep DEF OrderlyInv
<1> QED
  BY <1>1, <1>2

\* Between the orphan handling and the epoch change that it prepares, the list of
\* the previous interval already holds requests of the interval that is ending.
Settled == \A t \in Thread : pc[t] # "publish" /\ ~prepared[t]

OrphansCovered == Settled => \A p \in orphanPrev : Covered(p)

TakenUnheld == \A t \in Thread : \A p \in takenPrev[t] : Holders(p) = {}

OrphanInv == GraceInv /\ OrderlyInv /\ OrphansCovered /\ TakenUnheld /\ NoUseAfterFree

\* Orphans are unlinked and not yet freed.
LEMMA OrphanUnlinked ==
    ASSUME Base, NEW p \in orphanPrev
    PROVE  p \in Ptr /\ mem[p] = "unlinked"
  BY DEF Base, CountInv, TypeOK, QueueInv, Orphans

\* Whoever takes the list of the previous interval finds nothing held there.
LEMMA TakePreviousUnheld ==
    ASSUME OrphanInv, NEW t \in Thread, take_previous_orphans(t), NEW p \in orphanPrev
    PROVE  Holders(p) = {}
<1> USE DEF OrphanInv, GraceInv, Base, CountInv
<1>1. pc[t] = "takePrev" /\ Changing(t) /\ holds[t] = {}
  BY DEF take_previous_orphans, Changing, HoldersRun
<1>2. InPrevious \subseteq {t}
  BY <1>1, Counters DEF OrderlyInv, QuitsLast, Control
<1>3. Settled
  <2>1. \A u \in Thread : pc[u] # "publish"
    BY <1>1 DEF OneEpochChanger, Changing
  <2>2. \A u \in Thread : ~prepared[u]
    BY <1>1, <1>2 DEF Control
  <2> QED
    BY <2>1, <2>2 DEF Settled
<1> QED
  BY <1>1, <1>2, <1>3 DEF OrphansCovered, Covered, Holders

\* What a step does to the orphan list of the previous interval.
LEMMA OrphanListStep ==
    ASSUME TypeOK, NEW t \in Thread, ThreadStep(t)
    PROVE  \/ UNCHANGED orphanPrev
           \/ orphanPrev' = {}
           \/ install_previous_orphans(t)
           \/ orphan_previous_requests(t)
  BY DEF ThreadStep, globalVars, Client, Allocate, register_active_ptr,
     unregister_active_ptr, Unlink, on_next_epoch_deallocate, Register, register_thread,
     register_thread_during_epoch_change, register_thread_spin_end, Quiescent, quiescent,
     remove_thread_from_previous_epoch, change_epoch, HandleOrphans,
     take_previous_orphans, take_current_orphans, Unregister, unregister_thread,
     unregister_thread_cas_failed, unregister_thread_cas, orphan_current_requests

\* Only the epoch change settles the list again.
LEMMA SettledStep ==
    ASSUME Base, OrderlyInv, NEW t \in Thread, ThreadStep(t), Settled'
    PROVE  Settled \/ state'.epoch # state.epoch
<1> USE DEF Base, CountInv
<1>1. CASE change_epoch(t)
  BY <1>1, ChangeEpochFacts DEF ChangeEpochEffect
<1>2. CASE unregister_thread_cas(t)
  <2>1. UnregisterEffect(t) /\ (LastQuits(t) \/ OtherQuits(t))
    BY <1>2, UnregisterFacts
  <2>2. CASE prepared[t]
    <3>1. state.prev = 1 /\ t \in InPrevious
      BY <2>2 DEF OrderlyInv, QuitsLast, Control
    <3> QED
      BY <2>1, <3>1 DEF LastQuits, OtherQuits
  <2>3. CASE ~prepared[t]
    BY <2>1, <2>3 DEF Settled, UnregisterEffect, TypeOK
  <2> QED
    BY <2>2, <2>3
<1>3. CASE Client(t) \/ Register(t) \/ HandleOrphans(t)
  BY <1>3 DEF Settled, Client, Allocate, register_active_ptr, unregister_active_ptr,
     Unlink, on_next_epoch_deallocate, controlVars, Register, register_thread,
     register_thread_during_epoch_change, register_thread_spin_end, HandleOrphans,
     take_previous_orphans, take_current_orphans, install_previous_orphans, Goto, TypeOK,
     Control
<1>4. CASE \/ quiescent(t) \/ remove_thread_from_previous_epoch(t)
           \/ unregister_thread(t) \/ unregister_thread_cas_failed(t)
           \/ orphan_previous_requests(t) \/ orphan_current_requests(t)
  BY <1>4 DEF Settled, quiescent, remove_thread_from_previous_epoch, unregister_thread,
     unregister_thread_cas_failed, UnregisterWith, orphan_previous_requests,
     orphan_current_requests, Quiet, Goto, TypeOK
<1> QED
  BY <1>1, <1>2, <1>3, <1>4 DEF ThreadStep, Quiescent, Unregister

\* Whoever holds a previous orphan has not been quiescent since the last change of
\* the epoch.
LEMMA OrphansCoveredStep ==
    ASSUME OrphanInv, Base', NEW t \in Thread, ThreadStep(t)
    PROVE  OrphansCovered'
<1> USE DEF OrphanInv, GraceInv
<1> SUFFICES ASSUME Settled', NEW p \in orphanPrev'
             PROVE  Covered(p)'
  BY DEF OrphansCovered
<1>0. [Next]_vars
  BY DEF Next, ThreadStep
<1>1. Settled \/ state'.epoch # state.epoch
  BY SettledStep
<1>2. ASSUME p \in orphanPrev
      PROVE  Covered(p)'
  BY <1>0, <1>1, <1>2, OrphanUnlinked, GraceShrink DEF OrphansCovered, Base
<1>3. ASSUME install_previous_orphans(t)
      PROVE  FALSE
  BY <1>3 DEF install_previous_orphans, Goto, Settled, Base, CountInv, TypeOK
<1>4. CASE orphan_previous_requests(t) /\ p \notin orphanPrev
  <2>1. p \in prevReq[t] /\ pc[t] = "orphanPrev"
    BY <1>4 DEF orphan_previous_requests
  <2> QED
    BY <1>0, <2>1, QueuedShrink DEF Waiting
<1> QED
  BY <1>2, <1>3, <1>4, OrphanListStep DEF Base, CountInv

\* Nobody holds what has been taken from the previous orphans.
LEMMA TakenUnheldStep ==
    ASSUME OrphanInv, Base', NEW t \in Thread, ThreadStep(t)
    PROVE  TakenUnheld'
<1> USE DEF OrphanInv, GraceInv
<1> SUFFICES ASSUME NEW u \in Thread, NEW p \in takenPrev'[u]
             PROVE  Holders(p)' = {}
  BY DEF TakenUnheld
<1>0. [Next]_vars
  BY DEF Next, ThreadStep
<1>1. take_previous_orphans(t) \/ takenPrev'[u] \subseteq takenPrev[u]
  <2> USE DEF Base, CountInv, TypeOK
  <2>1. CASE Client(t) \/ Register(t) \/ Quiescent(t) \/ Unregister(t)
    BY <2>1 DEF takenVars, controlVars, Client, Allocate,
     register_active_ptr, unregister_active_ptr, Unlink, on_next_epoch_deallocate,
     Register, register_thread, register_thread_during_epoch_change,
     register_thread_spin_end, Quiescent, quiescent, remove_thread_from_previous_epoch,
     change_epoch, Unregister, unregister_thread,
     unregister_thread_cas_failed, unregister_thread_cas, orphan_previous_requests,
     orphan_current_requests
  <2>2. CASE HandleOrphans(t)
    BY <2>2 DEF HandleOrphans, take_current_orphans, install_previous_orphans
  <2> QED
    BY <2>1, <2>2 DEF ThreadStep
<1>2. ASSUME p \in takenPrev[u]
      PROVE  Holders(p)' = {}
  <2>1. p \in Ptr /\ mem[p] = "unlinked"
    BY <1>2, QueuedUnlinked DEF Kept
  <2> QED
    BY <1>0, <1>2, <2>1, GraceShrink DEF TakenUnheld, Base
<1>3. CASE take_previous_orphans(t) /\ p \notin takenPrev[u]
  <2>1. p \in orphanPrev
    BY <1>3 DEF take_previous_orphans, Base, CountInv, TypeOK
  <2>2. Holders(p) = {}
    BY <1>3, <2>1, TakePreviousUnheld
  <2> QED
    BY <1>0, <2>1, <2>2, OrphanUnlinked, GraceShrink DEF Base
<1> QED
  BY <1>1, <1>2, <1>3

\* Nothing that a step deallocates is held.
LEMMA FreedUnheld ==
    ASSUME OrphanInv, NEW t \in Thread, ThreadStep(t), NEW p \in Ptr,
           mem[p] # "free", mem'[p] = "free"
    PROVE  Holders(p) = {} /\ mem[p] = "unlinked"
<1> USE DEF OrphanInv, GraceInv
<1>1. mem[p] = "unlinked" /\ FreedFrom(t, p)
  BY FreedByOwner, Frees
<1>2. CASE p \in prevReq[t] \cup curReq[t]
  BY <1>1, <1>2, GraceStep DEF OwnSafe
<1>3. CASE p = hand[t] /\ p \notin holds[t] /\ pc[t] = "run" /\ single_thread_mode(state)
  <2>1. t \in Registered
    BY <1>3 DEF Registered
  <2> QED
    BY <1>1, <1>3, <2>1, SingleHolder DEF Holders
<1>4. CASE p \in takenPrev[t]
  BY <1>1, <1>4 DEF TakenUnheld
<1>5. CASE p \in takenCur[t] /\ single[t] /\ pc[t] = "install"
  <2>1. \A u \in Registered : pc[u] # "run"
    BY <1>5 DEF OrderlyInv, Alone, Changing
  <2> QED
    BY <1>1, <2>1 DEF Base, HoldersRun, Holders, Registered
<1> QED
  BY <1>1, <1>2, <1>3, <1>4, <1>5 DEF FreedFrom

\* Nothing that is held is freed.
LEMMA NoUseAfterFreeStep ==
    ASSUME OrphanInv, NEW t \in Thread, ThreadStep(t), GraceInv'
    PROVE  NoUseAfterFree'
<1> USE DEF OrphanInv, GraceInv, Base, CountInv
<1> SUFFICES ASSUME NEW u \in Thread, NEW p \in holds'[u], mem'[p] = "free"
             PROVE  FALSE
  BY DEF NoUseAfterFree
<1>0. p \in Ptr /\ [Next]_vars
  BY DEF TypeOK, Next, ThreadStep
<1>1. mem[p] # "free"
  BY <1>0, HoldersShrink DEF Holders, NoUseAfterFree
<1>2. Holders(p) = {} /\ mem[p] = "unlinked"
  BY <1>0, <1>1, FreedUnheld
<1> QED
  BY <1>0, <1>2, HoldersShrink DEF Holders

\* Every orderly step keeps the invariant of the orphans.
LEMMA OrphanInvStep ==
    ASSUME OrphanInv, [Next /\ NoJoinDuringExit]_vars
    PROVE  OrphanInv'
<1> USE DEF OrphanInv
<1>1. [Next]_vars
  OBVIOUS
<1>2. GraceInv' /\ Base /\ Base'
  BY <1>1, GraceInvStep DEF GraceInv
<1>3. OrderlyInv'
  BY <1>2, OrderlyStep
<1>4. CASE UNCHANGED vars
  BY <1>2, <1>3, <1>4 DEF OrphansCovered, Settled, Covered, TakenUnheld, NoUseAfterFree,
     Holders, InPrevious, Registered, Changing, vars, globalVars, threadVars, controlVars,
     takenVars, clientVars
<1>5. CASE Next
  <2>1. PICK t \in Thread : ThreadStep(t)
    BY <1>5 DEF Next, ThreadStep
  <2> QED
    BY <1>2, <1>3, <2>1, OrphansCoveredStep, TakenUnheldStep, NoUseAfterFreeStep
<1> QED
  BY <1>4, <1>5

\* No use after free, for any number of threads, addresses and epoch values (two
\* are enough), provided no thread registers between the orphan handling of a
\* quitting thread and the compare-exchange of unregister_thread.
THEOREM OrderlyNoUseAfterFree == OrderlySpec => []NoUseAfterFree
<1>1. Init => OrphanInv
  <2>1. Init => OrderlyInv /\ OrphansCovered /\ TakenUnheld /\ NoUseAfterFree
    BY DEF Init, OrderlyInv, QuitsLast, Alone, Changing, OrphansCovered, TakenUnheld,
       NoUseAfterFree
  <2> QED
    BY <2>1, GraceInvInit DEF OrphanInv
<1>2. OrphanInv /\ [Next /\ NoJoinDuringExit]_vars => OrphanInv'
  BY OrphanInvStep
<1>3. OrphanInv => NoUseAfterFree
  BY DEF OrphanInv
<1> QED
  BY <1>1, <1>2, <1>3, PTL DEF OrderlySpec

-------------------------------------------------------------------------------
(***************************************************************************)
(* Proof that the deallocation of orphans becomes safe again: once the     *)
(* lists are empty, what a join inside the window of unregister_thread     *)
(* spoiled is repaired, and the invariant of the orderly behaviours holds. *)
(***************************************************************************)

\* single_thread_mode is an argument of the orphan handling, dead after it.
SingleInHandling == \A t \in Thread : pc[t] = "publish" => ~single[t]

\* Every step keeps it so.
LEMMA SingleInHandlingStep ==
    ASSUME CountInv, SingleInHandling, [Next]_vars
    PROVE  SingleInHandling'
<1> USE DEF CountInv, TypeOK, SingleInHandling
<1>1. CASE UNCHANGED vars
  BY <1>1 DEF vars, controlVars
<1>2. ASSUME NEW t \in Thread, Client(t)
      PROVE  SingleInHandling'
  BY <1>2 DEF Client, Allocate, register_active_ptr, unregister_active_ptr, Unlink,
     on_next_epoch_deallocate, controlVars
<1>3. ASSUME NEW t \in Thread, Register(t)
      PROVE  SingleInHandling'
  BY <1>3 DEF Register, register_thread, register_thread_during_epoch_change,
     register_thread_spin_end, Goto
<1>4. ASSUME NEW t \in Thread, Quiescent(t)
      PROVE  SingleInHandling'
  BY <1>4 DEF Quiescent, quiescent, remove_thread_from_previous_epoch, change_epoch,
     Quiet, Goto
<1>5. ASSUME NEW t \in Thread, HandleOrphans(t)
      PROVE  SingleInHandling'
  BY <1>5 DEF HandleOrphans, take_previous_orphans, take_current_orphans,
     install_previous_orphans, Goto
<1>6. ASSUME NEW t \in Thread, Unregister(t)
      PROVE  SingleInHandling'
  BY <1>6 DEF Unregister, unregister_thread, unregister_thread_cas_failed,
     unregister_thread_cas, UnregisterWith, orphan_previous_requests,
     orphan_current_requests, Quiet, Goto
<1> QED
  BY <1>1, <1>2, <1>3, <1>4, <1>5, <1>6 DEF Next

\* With the orphans gone everything the orderly behaviours need holds again,
\* however the state was reached.
LEMMA OrphansGoneRepairs ==
    ASSUME GraceInv, SingleInHandling, OrphansGone
    PROVE  OrphanInv
<1> USE DEF GraceInv, Base, CountInv
<1>1. ASSUME NEW t \in Thread PROVE QuitsLast(t)
  BY DEF QuitsLast, OrphansGone, Control, Changing
<1>2. ASSUME NEW t \in Thread PROVE Alone(t)
  BY DEF Alone, OrphansGone, SingleInHandling, Changing
<1>3. OrphansCovered /\ TakenUnheld /\ NoUseAfterFree
  BY DEF OrphansCovered, TakenUnheld, OrphansGone, Taken
<1> QED
  BY <1>1, <1>2, <1>3 DEF OrphanInv, OrderlyInv

HistoryInv ==
    GraceInv /\ SingleInHandling /\ orderly \in BOOLEAN /\ (orderly => OrphanInv)

\* With the history variable every step keeps the grace periods and, while orderly,
\* the invariant of the orphans.
LEMMA HistoryInvStep ==
    ASSUME HistoryInv, [Next /\ KeepHistory]_<<vars, orderly>>
    PROVE  HistoryInv'
<1>1. [Next]_vars /\ (UNCHANGED <<vars, orderly>> \/ KeepHistory)
  OBVIOUS
<1>2. GraceInv' /\ SingleInHandling'
  BY <1>1, GraceInvStep, SingleInHandlingStep DEF HistoryInv, GraceInv, Base
<1>3. CASE UNCHANGED <<vars, orderly>>
  <2>1. [Next /\ NoJoinDuringExit]_vars
    BY <1>3
  <2> QED
    BY <1>2, <1>3, <2>1, OrphanInvStep DEF HistoryInv
<1>4. CASE KeepHistory
  <2>1. orderly' \in BOOLEAN
    BY <1>4 DEF KeepHistory
  <2>2. ASSUME orderly' PROVE OrphanInv'
    <3>1. (orderly \/ OrphansGone) /\ NoJoinDuringExit
      BY <1>4, <2>2 DEF KeepHistory
    <3>2. OrphanInv
      BY <3>1, OrphansGoneRepairs DEF HistoryInv
    <3>3. [Next /\ NoJoinDuringExit]_vars
      BY <1>1, <3>1
    <3> QED
      BY <3>2, <3>3, OrphanInvStep
  <2> QED
    BY <1>2, <2>1, <2>2 DEF HistoryInv
<1> QED
  BY <1>1, <1>3, <1>4

\* No use after free, for any number of threads, addresses and epoch values, in
\* every behaviour of the code whose joins since the orphan lists of
\* unregister_thread and change_epoch were last empty stayed out of the window
\* between the orphan handling of a quitting thread and its compare-exchange: one
\* join inside the window does harm only to the orphans of that time.
THEOREM OrderlyAgainIsSafe == HistorySpec => []SafeWhileOrderly
<1>1. Init /\ orderly = TRUE => HistoryInv
  <2>1. Init => OrderlyInv /\ OrphansCovered /\ TakenUnheld /\ NoUseAfterFree
    BY DEF Init, OrderlyInv, QuitsLast, Alone, Changing, OrphansCovered, TakenUnheld,
       NoUseAfterFree
  <2>2. Init => SingleInHandling
    BY DEF Init, SingleInHandling
  <2> QED
    BY <2>1, <2>2, GraceInvInit DEF HistoryInv, OrphanInv
<1>2. HistoryInv /\ [Next /\ KeepHistory]_<<vars, orderly>> => HistoryInv'
  BY HistoryInvStep
<1>3. HistoryInv => SafeWhileOrderly
  BY DEF HistoryInv, OrphanInv, SafeWhileOrderly
<1> QED
  BY <1>1, <1>2, <1>3, PTL DEF HistorySpec
===============================================================================
