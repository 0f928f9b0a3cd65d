------------------------------ MODULE QsbrOrderly ------------------------------
(***************************************************************************)
(* Qsbr with a history variable that tells whether the orphan lists are in *)
(* order: no thread has registered inside the window of unregister_thread  *)
(* that NoJoinDuringExit excludes since the lists were last empty.         *)
(***************************************************************************)
EXTENDS Qsbr

VARIABLE orderly    \* history: NoJoinDuringExit since the orphan lists were last empty

\* No orphan is left that a join could have aged too early, and none is on its way.
OrphansGone ==
    /\ orphanPrev = {} /\ orphanCur = {}
    /\ \A t \in Thread : ~prepared[t] /\ pc[t] \notin {"takePrev", "takeCur", "install"}
    /\ NoUseAfterFree

KeepHistory == orderly' = ((orderly \/ OrphansGone) /\ NoJoinDuringExit)

HistorySpec ==
    Init /\ orderly = TRUE /\ [][Next /\ KeepHistory]_<<vars, orderly>>

-------------------------------------------------------------------------------
\* No use after free as long as no thread registers while another is inside the
\* orphan handling of unregister_thread, and again when the orphans of that time are
\* gone: the deallocations of change_epoch, of the orphan lists and of quitting
\* threads are then all safe.
SafeWhileOrderly == orderly => NoUseAfterFree
===============================================================================
