--------------------------------- MODULE Qsbr ---------------------------------
(***************************************************************************)
(* Quiescent-state-based reclamation of UnoDB (qsbr.hpp, qsbr.cpp).        *)
(*                                                                         *)
(* The global QSBR state is one atomic word (epoch, number of threads,     *)
(* number of threads that have not yet been quiescent in this epoch) and   *)
(* two atomic lists of requests orphaned by threads that quit.  A thread   *)
(* keeps two vectors of deallocation requests and the epochs it has seen.  *)
(*                                                                         *)
(* One action is one atomic access to shared memory together with the      *)
(* thread-local code up to the next one.  Atomics are sequentially         *)
(* consistent here.  A weak-CAS loop that keeps nothing from a failed      *)
(* attempt is one action (register_thread, change_epoch, the push on an    *)
(* orphan list); unregister_thread keeps its snapshot of the word and the  *)
(* epoch_change_prepared flag over a failed CAS, so its loop is explicit.  *)
(*                                                                         *)
(* The client part (Allocate, Acquire, Release, Unlink) is what a data     *)
(* structure does around QSBR: publish memory, read pointers to published  *)
(* memory, unpublish it and hand it to on_next_epoch_deallocate.           *)
(***************************************************************************)
EXTENDS Naturals, FiniteSets

CONSTANTS
    Thread,     \* slots for qsbr_per_thread instances; a slot may register again
    Ptr,        \* addresses of QSBR-managed memory
    NoPtr,      \* nullptr
    EpochCount  \* number of epoch values, qsbr_epoch::max_count (4 in the code)

ASSUME ThreadAssumption == IsFiniteSet(Thread)
ASSUME NoPtrAssumption == NoPtr \notin Ptr
ASSUME EpochAssumption == EpochCount \in Nat /\ EpochCount > 1

VARIABLES
    state,        \* qsbr::state, the packed 64-bit word
    orphanPrev,   \* qsbr::orphaned_previous_interval_dealloc_requests
    orphanCur,    \* qsbr::orphaned_current_interval_dealloc_requests
    pc,           \* where each thread is between two shared accesses
    exiting,      \* the thread is in unregister_thread (pause or thread exit)
    prepared,     \* unregister_thread: epoch_change_prepared
    snap,         \* the thread's last loaded copy of state (old_state)
    single,       \* single_thread_mode argument of the orphan handling
    takenPrev,    \* orphaned_previous_requests while the orphans are handled
    takenCur,     \* orphaned_current_requests while the orphans are handled
    lastQ,        \* last_seen_quiescent_state_epoch
    lastSeen,     \* last_seen_epoch
    quiesced,     \* quiescent_states_since_epoch_change > 0
    prevReq,      \* previous_interval_dealloc_requests
    curReq,       \* current_interval_dealloc_requests
    mem,          \* client: whether an address is free, published or unpublished
    holds,        \* client: pointers a thread may dereference (active_ptrs)
    hand          \* client: unpublished, not yet given to on_next_epoch_deallocate

globalVars == <<state, orphanPrev, orphanCur>>
threadVars == <<lastQ, lastSeen, quiesced, prevReq, curReq>>
takenVars == <<takenPrev, takenCur>>
controlVars == <<pc, exiting, prepared, snap, single, takenVars>>
clientVars == <<mem, holds, hand>>
vars == <<globalVars, threadVars, controlVars, clientVars>>

Epoch == 0 .. EpochCount - 1
Word == [epoch : Epoch, count : Nat, prev : Nat]
NoWord == [epoch |-> 0, count |-> 0, prev |-> 0]   \* zero; also a dead local

(***************************************************************************)
(* qsbr_epoch and qsbr_state: operations on the word.                      *)
(***************************************************************************)
\* Mutant: the epoch does not wrap around.
advance_NoWrap(e) == e + 1

advance(e) == (e + 1) % EpochCount

\* Mutant: two threads count as one.
single_thread_mode_OffByOne(w) == w.count < 3

single_thread_mode(w) == w.count < 2

inc_thread_count(w) == [epoch |-> w.epoch, count |-> w.count + 1, prev |-> w.prev]

dec_thread_count(w) == [epoch |-> w.epoch, count |-> w.count - 1, prev |-> w.prev]

\* Mutant: a new thread is not expected to pass through a quiescent state.
inc_both_CountOnly(w) == [epoch |-> w.epoch, count |-> w.count + 1, prev |-> w.prev]

inc_thread_count_and_threads_in_previous_epoch(w) ==
    [epoch |-> w.epoch, count |-> w.count + 1, prev |-> w.prev + 1]

dec_threads_in_previous_epoch(w) ==
    [epoch |-> w.epoch, count |-> w.count, prev |-> w.prev - 1]

inc_epoch_reset_previous(w) ==
    [epoch |-> advance(w.epoch), count |-> w.count, prev |-> w.count]

inc_epoch_dec_thread_count_reset_previous(w) ==
    [epoch |-> advance(w.epoch), count |-> w.count - 1, prev |-> w.count - 1]

\* Mutant: a quitting thread never advances the epoch.
dec_counts_NeverAdvance(w, do_advance) ==
    [epoch |-> w.epoch, count |-> w.count - 1, prev |-> w.prev - 1]

dec_thread_count_threads_in_previous_epoch_maybe_advance(w, do_advance) ==
    IF do_advance
    THEN inc_epoch_dec_thread_count_reset_previous(w)
    ELSE [epoch |-> w.epoch, count |-> w.count - 1, prev |-> w.prev - 1]

(***************************************************************************)
(* The request vectors of one thread, as a value: the epoch last seen, the *)
(* two vectors, and the requests executed on the way.                      *)
(***************************************************************************)
requests(t) ==
    [seen |-> lastSeen[t], prev |-> prevReq[t], cur |-> curReq[t], done |-> {}]

\* Mutant: the new requests join the previous interval.
execute_previous_Early(r, single_thread, dealloc_epoch, new_current) ==
    [seen |-> dealloc_epoch,
     prev |-> IF single_thread THEN {} ELSE r.cur \cup new_current,
     cur  |-> {},
     done |-> r.done \cup r.prev \cup (IF single_thread THEN r.cur ELSE {})]

execute_previous_requests(r, single_thread, dealloc_epoch, new_current) ==
    [seen |-> dealloc_epoch,
     prev |-> IF single_thread THEN {} ELSE r.cur,
     cur  |-> new_current,
     done |-> r.done \cup r.prev \cup (IF single_thread THEN r.cur ELSE {})]

advance_last_seen_epoch(r, single_thread, new_seen, new_current) ==
    IF new_seen = r.seen
    THEN r
    ELSE execute_previous_requests(r, single_thread, new_seen, new_current)

StoreRequests(t, r) ==
    /\ lastSeen' = [lastSeen EXCEPT ![t] = r.seen]
    /\ prevReq' = [prevReq EXCEPT ![t] = r.prev]
    /\ curReq' = [curReq EXCEPT ![t] = r.cur]

\* qsbr::deallocate on every address of a set.
deallocate(ps) ==
    mem' = [p \in Ptr |-> IF p \in ps THEN "free" ELSE mem[p]]

-------------------------------------------------------------------------------
\* The word is zero-initialised; the main thread registers before main() runs.
Init ==
    /\ state = NoWord
    /\ orphanPrev = {}
    /\ orphanCur = {}
    /\ pc = [t \in Thread |-> "out"]
    /\ exiting = [t \in Thread |-> FALSE]
    /\ prepared = [t \in Thread |-> FALSE]
    /\ snap = [t \in Thread |-> NoWord]
    /\ single = [t \in Thread |-> FALSE]
    /\ takenPrev = [t \in Thread |-> {}]
    /\ takenCur = [t \in Thread |-> {}]
    /\ lastQ = [t \in Thread |-> 0]
    /\ lastSeen = [t \in Thread |-> 0]
    /\ quiesced = [t \in Thread |-> FALSE]
    /\ prevReq = [t \in Thread |-> {}]
    /\ curReq = [t \in Thread |-> {}]
    /\ mem = [p \in Ptr |-> "free"]
    /\ holds = [t \in Thread |-> {}]
    /\ hand = [t \in Thread |-> NoPtr]

Goto(t, label) == pc' = [pc EXCEPT ![t] = label]

(***************************************************************************)
(* The client.                                                             *)
(***************************************************************************)
\* A new node is allocated and linked into the shared structure.
Allocate(t, p) ==
    /\ pc[t] = "run"
    /\ mem[p] = "free"
    /\ mem' = [mem EXCEPT ![p] = "linked"]
    /\ UNCHANGED <<globalVars, threadVars, controlVars, holds, hand>>

\* register_active_ptr: a pointer is read from the shared structure.
register_active_ptr(t, p) ==
    /\ pc[t] = "run"
    /\ mem[p] = "linked"
    /\ p \notin holds[t]
    /\ holds' = [holds EXCEPT ![t] = @ \cup {p}]
    /\ UNCHANGED <<globalVars, threadVars, controlVars, mem, hand>>

unregister_active_ptr(t, p) ==
    /\ pc[t] = "run"
    /\ p \in holds[t]
    /\ holds' = [holds EXCEPT ![t] = @ \ {p}]
    /\ UNCHANGED <<globalVars, threadVars, controlVars, mem, hand>>

\* The node is unlinked; it is given to QSBR in a later step.
Unlink(t, p) ==
    /\ pc[t] = "run"
    /\ hand[t] = NoPtr
    /\ mem[p] = "linked"
    /\ mem' = [mem EXCEPT ![p] = "unlinked"]
    /\ hand' = [hand EXCEPT ![t] = p]
    /\ UNCHANGED <<globalVars, threadVars, controlVars, holds>>

\* The client does not dereference what it asks QSBR to deallocate.
on_next_epoch_deallocate(t) ==
    LET p == hand[t]
        st == single_thread_mode(state)
        r == advance_last_seen_epoch(requests(t), st, state.epoch,
                                     IF st THEN {} ELSE {p})
    IN /\ pc[t] = "run"
       /\ p # NoPtr
       /\ p \notin holds[t]
       /\ hand' = [hand EXCEPT ![t] = NoPtr]
       /\ StoreRequests(t, IF ~st /\ lastSeen[t] = state.epoch
                           THEN [seen |-> r.seen, prev |-> r.prev, cur |-> r.cur \cup {p},
                                 done |-> r.done]
                           ELSE r)
       /\ deallocate(r.done \cup (IF st THEN {p} ELSE {}))
       /\ UNCHANGED <<globalVars, controlVars, lastQ, quiesced, holds>>

(***************************************************************************)
(* Registration: thread start and qsbr_resume.                             *)
(***************************************************************************)
\* Mutant: qsbr_resume keeps the last_seen_epoch of before the pause.
RegisteredAt_StaleSeen(t, e) ==
    /\ lastQ' = [lastQ EXCEPT ![t] = e]
    /\ quiesced' = [quiesced EXCEPT ![t] = FALSE]
    /\ UNCHANGED lastSeen

RegisteredAt(t, e) ==
    /\ lastQ' = [lastQ EXCEPT ![t] = e]
    /\ lastSeen' = [lastSeen EXCEPT ![t] = e]
    /\ quiesced' = [quiesced EXCEPT ![t] = FALSE]

register_thread(t) ==
    /\ pc[t] = "out"
    /\ state.prev > 0 \/ state.count = 0
    /\ state' = inc_thread_count_and_threads_in_previous_epoch(state)
    /\ RegisteredAt(t, state.epoch)
    /\ Goto(t, "run")
    /\ UNCHANGED <<orphanPrev, orphanCur, prevReq, curReq, exiting, prepared,
                   snap, single, takenVars, clientVars>>

\* An epoch change is in progress: bump the thread count only, then spin.
register_thread_during_epoch_change(t) ==
    /\ pc[t] = "out"
    /\ state.prev = 0
    /\ state.count > 0
    /\ state' = inc_thread_count(state)
    /\ snap' = [snap EXCEPT ![t] = state]
    /\ Goto(t, "spin")
    /\ UNCHANGED <<orphanPrev, orphanCur, threadVars, exiting, prepared, single,
                   takenVars, clientVars>>

\* Mutant: the spinning thread waits for the old epoch.
register_thread_spin_Inverted(t) ==
    /\ pc[t] = "spin"
    /\ state.epoch = snap[t].epoch
    /\ RegisteredAt(t, state.epoch)
    /\ snap' = [snap EXCEPT ![t] = NoWord]
    /\ Goto(t, "run")
    /\ UNCHANGED <<globalVars, prevReq, curReq, exiting, prepared, single,
                   takenVars, clientVars>>

register_thread_spin_end(t) ==
    /\ pc[t] = "spin"
    /\ state.epoch # snap[t].epoch
    /\ RegisteredAt(t, state.epoch)
    /\ snap' = [snap EXCEPT ![t] = NoWord]
    /\ Goto(t, "run")
    /\ UNCHANGED <<globalVars, prevReq, curReq, exiting, prepared, single,
                   takenVars, clientVars>>

(***************************************************************************)
(* quiescent()                                                             *)
(***************************************************************************)
\* The asserted precondition of quiescent and qsbr_pause; a pointer in hand is
\* between the two halves of one operation of the client.
Quiet(t) == pc[t] = "run" /\ holds[t] = {} /\ hand[t] = NoPtr

\* Load the word; catch up with its epoch; leave if already counted in it.
quiescent(t) ==
    LET e == state.epoch
        r == advance_last_seen_epoch(requests(t), single_thread_mode(state), e, {})
        again == e = lastQ[t] /\ quiesced[t]
    IN /\ Quiet(t)
       /\ StoreRequests(t, r)
       /\ deallocate(r.done)
       /\ lastQ' = [lastQ EXCEPT ![t] = e]
       /\ quiesced' = [quiesced EXCEPT ![t] = again]
       /\ snap' = [snap EXCEPT ![t] = IF again THEN NoWord ELSE state]
       /\ Goto(t, IF again THEN "run" ELSE "leavePrev")
       /\ UNCHANGED <<globalVars, exiting, prepared, single, takenVars, holds, hand>>

\* The fetch_sub on the word; the last thread goes on to change_epoch.
remove_thread_from_previous_epoch(t) ==
    /\ pc[t] = "leavePrev"
    /\ state' = dec_threads_in_previous_epoch(state)
    /\ IF state.prev > 1
       THEN /\ quiesced' = [quiesced EXCEPT ![t] = TRUE]
            /\ snap' = [snap EXCEPT ![t] = NoWord]
            /\ Goto(t, "run")
            /\ UNCHANGED single
       ELSE /\ single' = [single EXCEPT ![t] = single_thread_mode(state)]
            /\ Goto(t, "takePrev")
            /\ UNCHANGED <<quiesced, snap>>
    /\ UNCHANGED <<orphanPrev, orphanCur, lastQ, lastSeen, prevReq, curReq,
                   exiting, prepared, takenVars, clientVars>>

(***************************************************************************)
(* epoch_change_barrier_and_handle_orphans, called by change_epoch and by  *)
(* unregister_thread.                                                      *)
(***************************************************************************)
take_previous_orphans(t) ==
    /\ pc[t] = "takePrev"
    /\ orphanPrev' = {}
    /\ takenPrev' = [takenPrev EXCEPT ![t] = orphanPrev]
    /\ Goto(t, "takeCur")
    /\ UNCHANGED <<state, orphanCur, threadVars, exiting, prepared, snap, single,
                   takenCur, clientVars>>

\* Take the second list, then free_orphan_list on the first.
take_current_orphans(t) ==
    /\ pc[t] = "takeCur"
    /\ orphanCur' = {}
    /\ takenCur' = [takenCur EXCEPT ![t] = orphanCur]
    /\ takenPrev' = [takenPrev EXCEPT ![t] = {}]
    /\ deallocate(takenPrev[t])
    /\ Goto(t, "install")
    /\ UNCHANGED <<state, orphanPrev, threadVars, exiting, prepared, snap, single,
                   holds, hand>>

\* Mutant: the batch is stored over requests pushed since the list was taken.
install_previous_Overwrites(t) ==
    /\ pc[t] = "install"
    /\ orphanPrev' = IF single[t] THEN orphanPrev ELSE takenCur[t]
    /\ deallocate(IF single[t] THEN takenCur[t] ELSE {})
    /\ takenCur' = [takenCur EXCEPT ![t] = {}]
    /\ prepared' = [prepared EXCEPT ![t] = exiting[t]]
    /\ single' = [single EXCEPT ![t] = FALSE]
    /\ Goto(t, IF exiting[t] THEN "unregister" ELSE "publish")
    /\ UNCHANGED <<state, orphanCur, threadVars, exiting, snap, takenPrev, holds,
                   hand>>

\* Whether the compare-exchange from nullptr succeeds or the batch is appended
\* behind new requests, the batch joins the previous-interval list.
install_previous_orphans(t) ==
    /\ pc[t] = "install"
    /\ orphanPrev' = IF single[t] THEN orphanPrev ELSE orphanPrev \cup takenCur[t]
    /\ deallocate(IF single[t] THEN takenCur[t] ELSE {})
    /\ takenCur' = [takenCur EXCEPT ![t] = {}]
    /\ prepared' = [prepared EXCEPT ![t] = exiting[t]]
    /\ single' = [single EXCEPT ![t] = FALSE]
    /\ Goto(t, IF exiting[t] THEN "unregister" ELSE "publish")
    /\ UNCHANGED <<state, orphanCur, threadVars, exiting, snap, takenPrev, holds,
                   hand>>

\* Publish the new epoch, then the rest of quiescent().
change_epoch(t) ==
    LET new == advance(lastQ[t])
        r == execute_previous_requests(requests(t), single_thread_mode(snap[t]),
                                       new, {})
    IN /\ pc[t] = "publish"
       /\ state' = inc_epoch_reset_previous(state)
       /\ lastQ' = [lastQ EXCEPT ![t] = new]
       /\ StoreRequests(t, r)
       /\ deallocate(r.done)
       /\ snap' = [snap EXCEPT ![t] = NoWord]
       /\ Goto(t, "run")
       /\ UNCHANGED <<orphanPrev, orphanCur, quiesced, exiting, prepared, single,
                      takenVars, holds, hand>>

(***************************************************************************)
(* unregister_thread: qsbr_pause and thread exit.                          *)
(***************************************************************************)
\* What unregister_thread computes from a snapshot w of the word.
remove_thread_from_old_epoch(t, w) ==
    w.prev > 0 /\ (lastQ[t] # w.epoch \/ ~quiesced[t])

\* Mutant: off by one in who is the last thread of the previous epoch.
advance_epoch_OffByOne(t, w) == remove_thread_from_old_epoch(t, w) /\ w.prev <= 2

advance_epoch(t, w) == remove_thread_from_old_epoch(t, w) /\ w.prev = 1

\* One round of its loop up to the orphan handling or the compare-exchange.
UnregisterWith(t, w, is_prepared) ==
    LET handle == advance_epoch(t, w) /\ ~is_prepared
    IN /\ snap' = [snap EXCEPT ![t] = w]
       /\ single' = [single EXCEPT ![t] = handle /\ single_thread_mode(w)]
       /\ Goto(t, IF handle THEN "takePrev" ELSE "unregister")

unregister_thread(t) ==
    /\ Quiet(t)
    /\ exiting' = [exiting EXCEPT ![t] = TRUE]
    /\ UnregisterWith(t, state, FALSE)
    /\ UNCHANGED <<globalVars, threadVars, prepared, takenVars, clientVars>>

unregister_thread_cas_failed(t) ==
    /\ pc[t] = "unregister"
    /\ state # snap[t]
    /\ UnregisterWith(t, state, prepared[t])
    /\ UNCHANGED <<globalVars, threadVars, exiting, prepared, takenVars, clientVars>>

unregister_thread_cas(t) ==
    LET w == snap[t]
        st == single_thread_mode(w)
        r1 == IF w.prev = 0 THEN requests(t)
              ELSE advance_last_seen_epoch(requests(t), st, w.epoch, {})
        r2 == IF advance_epoch(t, w)
              THEN execute_previous_requests(r1, st, advance(w.epoch), {})
              ELSE r1
    IN /\ pc[t] = "unregister"
       /\ state = w
       /\ state' = IF remove_thread_from_old_epoch(t, w)
                   THEN dec_thread_count_threads_in_previous_epoch_maybe_advance(
                            w, advance_epoch(t, w))
                   ELSE dec_thread_count(w)
       /\ StoreRequests(t, r2)
       /\ deallocate(r2.done)
       /\ prepared' = [prepared EXCEPT ![t] = FALSE]
       /\ snap' = [snap EXCEPT ![t] = NoWord]
       /\ Goto(t, "orphanPrev")
       /\ UNCHANGED <<orphanPrev, orphanCur, lastQ, quiesced, exiting, single,
                      takenVars, holds, hand>>

\* orphan_pending_requests: two pushes, one per list.
orphan_previous_requests(t) ==
    /\ pc[t] = "orphanPrev"
    /\ orphanPrev' = orphanPrev \cup prevReq[t]
    /\ prevReq' = [prevReq EXCEPT ![t] = {}]
    /\ Goto(t, "orphanCur")
    /\ UNCHANGED <<state, orphanCur, lastQ, lastSeen, quiesced, curReq, exiting,
                   prepared, snap, single, takenVars, clientVars>>

\* Mutant: the current-interval requests go to the previous-interval list.
orphan_current_AsPrevious(t) ==
    /\ pc[t] = "orphanCur"
    /\ orphanPrev' = orphanPrev \cup curReq[t]
    /\ curReq' = [curReq EXCEPT ![t] = {}]
    /\ exiting' = [exiting EXCEPT ![t] = FALSE]
    /\ Goto(t, "out")
    /\ UNCHANGED <<state, orphanCur, lastQ, lastSeen, quiesced, prevReq,
                   prepared, snap, single, takenVars, clientVars>>

orphan_current_requests(t) ==
    /\ pc[t] = "orphanCur"
    /\ orphanCur' = orphanCur \cup curReq[t]
    /\ curReq' = [curReq EXCEPT ![t] = {}]
    /\ exiting' = [exiting EXCEPT ![t] = FALSE]
    /\ Goto(t, "out")
    /\ UNCHANGED <<state, orphanPrev, lastQ, lastSeen, quiesced, prevReq,
                   prepared, snap, single, takenVars, clientVars>>

-------------------------------------------------------------------------------
Client(t) ==
    \/ \E p \in Ptr : \/ Allocate(t, p)
                      \/ register_active_ptr(t, p)
                      \/ unregister_active_ptr(t, p)
                      \/ Unlink(t, p)
    \/ on_next_epoch_deallocate(t)

Register(t) ==
    \/ register_thread(t)
    \/ register_thread_during_epoch_change(t)
    \/ register_thread_spin_end(t)

Quiescent(t) ==
    \/ quiescent(t)
    \/ remove_thread_from_previous_epoch(t)
    \/ change_epoch(t)

HandleOrphans(t) ==
    \/ take_previous_orphans(t)
    \/ take_current_orphans(t)
    \/ install_previous_orphans(t)

Unregister(t) ==
    \/ unregister_thread(t)
    \/ unregister_thread_cas_failed(t)
    \/ unregister_thread_cas(t)
    \/ orphan_previous_requests(t)
    \/ orphan_current_requests(t)

Next == \E t \in Thread :
    Client(t) \/ Register(t) \/ Quiescent(t) \/ HandleOrphans(t) \/ Unregister(t)

Spec == Init /\ [][Next]_vars

\* The behaviours in which no thread registers between the orphan handling of a
\* quitting thread, done for a snapshot of the word, and the compare-exchange
\* that was to advance the epoch from that snapshot.
NoJoinDuringExit ==
    state'.count > state.count =>
        \A t \in Thread :
            exiting[t] => pc[t] \notin {"takePrev", "takeCur", "install"} /\ ~prepared[t]

OrderlySpec == Init /\ [][Next /\ NoJoinDuringExit]_vars

-------------------------------------------------------------------------------
(***************************************************************************)
(* Properties.                                                             *)
(***************************************************************************)
ProgramPoint == {"out", "spin", "run", "leavePrev", "takePrev", "takeCur",
                 "install", "publish", "unregister", "orphanPrev", "orphanCur"}

\* Every variable keeps its type: the epoch wraps around below max_count.
TypeOK ==
    /\ state \in Word
    /\ orphanPrev \in SUBSET Ptr
    /\ orphanCur \in SUBSET Ptr
    /\ pc \in [Thread -> ProgramPoint]
    /\ exiting \in [Thread -> BOOLEAN]
    /\ prepared \in [Thread -> BOOLEAN]
    /\ snap \in [Thread -> Word]
    /\ single \in [Thread -> BOOLEAN]
    /\ takenPrev \in [Thread -> SUBSET Ptr]
    /\ takenCur \in [Thread -> SUBSET Ptr]
    /\ lastQ \in [Thread -> Epoch]
    /\ lastSeen \in [Thread -> Epoch]
    /\ quiesced \in [Thread -> BOOLEAN]
    /\ prevReq \in [Thread -> SUBSET Ptr]
    /\ curReq \in [Thread -> SUBSET Ptr]
    /\ mem \in [Ptr -> {"free", "linked", "unlinked"}]
    /\ holds \in [Thread -> SUBSET Ptr]
    /\ hand \in [Thread -> Ptr \cup {NoPtr}]

\* Threads counted in the word: from the registering compare-exchange to the
\* unregistering one.
Registered == {t \in Thread : pc[t] \notin {"out", "orphanPrev", "orphanCur"}}

\* A thread inside epoch_change_barrier_and_handle_orphans or change_epoch.
Changing(t) == pc[t] \in {"takePrev", "takeCur", "install", "publish"}

\* Threads that still owe the current epoch a quiescent state.  A registering
\* thread that spins owes none until the epoch has changed; the thread that
\* changes the epoch from quiescent() has already paid.
InPrevious ==
    {t \in Registered :
        /\ pc[t] = "spin" => snap[t].epoch # state.epoch
        /\ Changing(t) => exiting[t]
        /\ pc[t] # "spin" => lastQ[t] # state.epoch \/ ~quiesced[t]}

\* The two counters packed in qsbr_state are exactly the numbers they are named
\* after, whatever the order in which threads register, pass through quiescent
\* states, quit and change epochs.  The assertions of qsbr_state (no underflow,
\* previous <= total) and the choice of who changes the epoch rest on this.
CountsExact ==
    /\ state.count = Cardinality(Registered)
    /\ state.prev = Cardinality(InPrevious)

\* "Only one thread can do this" (the append to the orphan list in
\* epoch_change_barrier_and_handle_orphans): no two threads are ever handling
\* orphans or changing the epoch at once, quitting threads included.
OneEpochChanger ==
    \A t, u \in Thread : Changing(t) /\ Changing(u) => t = u

\* No thread falls more than one epoch behind: what the assertions in
\* advance_last_seen_epoch, quiescent, remove_thread_from_previous_epoch and
\* unregister_thread say of the epochs they compare.  In particular the
\* last_seen_epoch.advance(2) case that advance_last_seen_epoch allows for
\* never arises.
EpochsWithinOne ==
    \A t \in Registered : pc[t] # "spin" =>
        /\ state.epoch \in {lastSeen[t], advance(lastSeen[t])}
        /\ state.epoch \in {lastQ[t], advance(lastQ[t])}
        /\ lastQ[t] = state.epoch => lastSeen[t] = state.epoch
        /\ state.prev = 0 => lastQ[t] = state.epoch
        /\ pc[t] = "leavePrev" \/ (Changing(t) /\ ~exiting[t]) =>
               lastQ[t] = state.epoch /\ snap[t].epoch = state.epoch

Holders(p) == {u \in Thread : p \in holds[u]}

\* The grace period of the requests a registered thread keeps itself: a previous
\* interval request of a thread that has not caught up with the epoch is not
\* referenced by anyone (the next call executes it), and a request one epoch
\* change away from that is referenced at most by threads that must pass through
\* a quiescent state before the epoch can change.
GracePeriod ==
    \A t \in Registered :
        /\ \A p \in prevReq[t] :
               /\ lastSeen[t] # state.epoch => Holders(p) = {}
               /\ lastSeen[t] = state.epoch => Holders(p) \subseteq InPrevious
        /\ \A p \in curReq[t] :
               lastSeen[t] # state.epoch => Holders(p) \subseteq InPrevious

\* The action property behind it: when a thread executes requests of its own, nobody
\* holds a pointer to what is deallocated.
OwnRequestsSafe ==
    [][\A t \in Thread : \A p \in prevReq[t] \cup curReq[t] :
           mem'[p] = "free" => Holders(p) = {}]_vars

\* Where an unpublished address can wait for its deallocation.
Places(p) ==
    {<<"hand", t>> : t \in {u \in Thread : hand[u] = p}}
    \cup {<<"previous", t>> : t \in {u \in Thread : p \in prevReq[u]}}
    \cup {<<"current", t>> : t \in {u \in Thread : p \in curReq[u]}}
    \cup {<<"takenPrevious", t>> : t \in {u \in Thread : p \in takenPrev[u]}}
    \cup {<<"takenCurrent", t>> : t \in {u \in Thread : p \in takenCur[u]}}
    \cup (IF p \in orphanPrev THEN {<<"orphanPrevious">>} ELSE {})
    \cup (IF p \in orphanCur THEN {<<"orphanCurrent">>} ELSE {})

\* Neither leak nor double free: through every hand-over between threads and
\* orphan lists an unpublished address is queued exactly once, and an address
\* that is free or published is queued nowhere.
QueuedOnce ==
    \A p \in Ptr :
        IF mem[p] = "unlinked" THEN \E x \in Places(p) : Places(p) = {x}
                               ELSE Places(p) = {}

\* No use after free: memory a thread still references has not been deallocated.
NoUseAfterFree == \A t \in Thread : \A p \in holds[t] : mem[p] # "free"
===============================================================================
