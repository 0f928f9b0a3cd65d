------------------------------- MODULE QsbrWord -------------------------------
(***************************************************************************)
(* qsbr_state: the QSBR state as the packed word the code really updates.  *)
(*                                                                         *)
(* Qsbr treats the word as a record; here the word itself runs beside it,  *)
(* changed only by the shifts, masks and carries of qsbr_state, one word   *)
(* operation for each atomic update of the algorithm.  Fields, from bit 0: *)
(* threads in the previous epoch, Gap unused bits, thread count, epoch.    *)
(* The code's widths are 30, 2, 30 and 2.                                  *)
(***************************************************************************)
EXTENDS QsbrOrderly, Bitwise

CONSTANTS CountBits, Gap, EpochBits

ASSUME WidthAssumption ==
    /\ CountBits \in Nat \ {0} /\ Gap \in Nat /\ EpochBits \in Nat
    /\ EpochCount <= 2 ^ EpochBits

VARIABLE word   \* qsbr::state as an unsigned integer

wordVars == <<vars, word, orderly>>

max_qsbr_threads == 2 ^ CountBits - 1

\* "Its overflow is not checked": more threads than this are out of contract.
ASSUME ThreadLimit == Cardinality(Thread) <= max_qsbr_threads

threads_in_previous_epoch_in_word_mask == max_qsbr_threads
thread_count_in_word_offset == CountBits + Gap
thread_count_in_word_mask == max_qsbr_threads * 2 ^ thread_count_in_word_offset
epoch_in_word_offset == thread_count_in_word_offset + CountBits
one_thread_in_count == 2 ^ thread_count_in_word_offset
one_thread_and_one_in_previous == one_thread_in_count | 1

\* Arithmetic of the unsigned type wraps around.
Wrap(n) == n % 2 ^ (epoch_in_word_offset + EpochBits)

get_epoch(w) == w \div 2 ^ epoch_in_word_offset

\* The masks of the two counts, as remainders.
get_thread_count(w) == (w \div 2 ^ thread_count_in_word_offset) % 2 ^ CountBits

get_threads_in_previous_epoch(w) == w % 2 ^ CountBits

make_from_epoch(e) == Wrap(e * 2 ^ epoch_in_word_offset)

word_inc_thread_count(w) == Wrap(w + one_thread_in_count)

word_dec_thread_count(w) == Wrap(w - one_thread_in_count)

word_inc_both(w) == Wrap(w + one_thread_and_one_in_previous)

word_dec_both(w) == Wrap(w - one_thread_and_one_in_previous)

atomic_fetch_dec_threads_in_previous_epoch(w) == Wrap(w - 1)

\* Mutant: the epoch bits are shifted in above the previous-epoch count.
word_inc_epoch_NoMask(w) ==
    (make_from_epoch(advance(get_epoch(w))) | (w & thread_count_in_word_mask))
        | (w \div 2 ^ thread_count_in_word_offset)

word_inc_epoch_reset_previous(w) ==
    (make_from_epoch(advance(get_epoch(w))) | (w & thread_count_in_word_mask))
        | ((w \div 2 ^ thread_count_in_word_offset)
               & threads_in_previous_epoch_in_word_mask)

word_inc_epoch_dec_thread_count_reset_previous(w) ==
    LET new_thread_count == get_thread_count(w) - 1
    IN (make_from_epoch(advance(get_epoch(w)))
            | (new_thread_count * 2 ^ thread_count_in_word_offset))
        | new_thread_count

\* The word each atomic update stores, from the word it finds.
Updates(t) ==
    \/ register_thread(t) /\ word' = word_inc_both(word)
    \/ register_thread_during_epoch_change(t) /\ word' = word_inc_thread_count(word)
    \/ /\ remove_thread_from_previous_epoch(t)
       /\ word' = atomic_fetch_dec_threads_in_previous_epoch(word)
    \/ change_epoch(t) /\ word' = word_inc_epoch_reset_previous(word)
    \/ /\ unregister_thread_cas(t)
       /\ word' = IF ~remove_thread_from_old_epoch(t, snap[t])
                  THEN word_dec_thread_count(word)
                  ELSE IF advance_epoch(t, snap[t])
                       THEN word_inc_epoch_dec_thread_count_reset_previous(word)
                       ELSE word_dec_both(word)

\* The steps that leave the word alone.
KeepsWord(t) ==
    /\ \/ Client(t) \/ register_thread_spin_end(t) \/ quiescent(t)
       \/ HandleOrphans(t) \/ unregister_thread(t)
       \/ unregister_thread_cas_failed(t)
       \/ orphan_previous_requests(t) \/ orphan_current_requests(t)
    /\ UNCHANGED word

WordInit == Init /\ word = 0 /\ orderly = TRUE

WordNext ==
    /\ \E t \in Thread : Updates(t) \/ KeepsWord(t)
    /\ KeepHistory

WordSpec == WordInit /\ [][WordNext]_wordVars

-------------------------------------------------------------------------------
\* The packed word and the record of the algorithm never drift apart, up to and
\* including max_qsbr_threads threads: no increment carries and no decrement
\* borrows across a field, every compare-exchange and fetch_sub included, and the
\* unused bits stay clear, so that equal words are equal states.
WordIsState ==
    /\ get_epoch(word) = state.epoch
    /\ get_thread_count(word) = state.count
    /\ get_threads_in_previous_epoch(word) = state.prev
    /\ word = make_from_epoch(state.epoch) + state.count * one_thread_in_count
                  + state.prev
===============================================================================
