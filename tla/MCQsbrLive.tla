----------------------------- MODULE MCQsbrLive -----------------------------
(***************************************************************************)
(* Reclamation makes progress: Qsbr with the fairness of running threads   *)
(* and of a client that keeps its obligations.                             *)
(***************************************************************************)
EXTENDS Qsbr

CONSTANT Main   \* the thread registered by set_qsbr_per_thread_in_main_thread

ASSUME MainAssumption == Main \in Thread

\* A thread inside a QSBR call keeps running.
Inside(t) ==
    \/ register_thread_spin_end(t)
    \/ remove_thread_from_previous_epoch(t)
    \/ HandleOrphans(t)
    \/ change_epoch(t)
    \/ unregister_thread_cas_failed(t)
    \/ unregister_thread_cas(t)
    \/ orphan_previous_requests(t)
    \/ orphan_current_requests(t)

\* A registered thread finishes its operations: it drops its pointers, submits
\* what it unlinked, and signals a quiescent state again and again.
ClientObligations(t) ==
    /\ \A p \in Ptr : WF_vars(unregister_active_ptr(t, p))
    /\ WF_vars(on_next_epoch_deallocate(t))
    /\ SF_vars(quiescent(t))

\* The main thread stays registered.
LiveSpec ==
    /\ Init
    /\ [][Next /\ ~unregister_thread(Main)]_vars
    /\ WF_vars(register_thread(Main))
    /\ \A t \in Thread : WF_vars(Inside(t)) /\ ClientObligations(t)

RegisterAnew ==
    \E t \in Thread : register_thread(t) \/ register_thread_during_epoch_change(t)

\* If threads start and resume finitely often, every unlinked address is
\* deallocated, whoever submitted it and whether or not that thread quit.
\* (A thread can be kept in the retry loop of unregister_thread for ever by
\* others that keep pausing and resuming: the loop is lock-free, not wait-free.)
Reclaimed ==
    <>[][~RegisterAnew]_vars =>
        \A p \in Ptr : mem[p] = "unlinked" ~> mem[p] = "free"

\* A thread that registers during an epoch change does not spin for ever.
RegistrationEnds ==
    \A t \in Thread : pc[t] = "spin" ~> pc[t] # "spin"
=============================================================================
