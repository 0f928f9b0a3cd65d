------------------------------- MODULE MCQsbr -------------------------------
(***************************************************************************)
(* Small instances of Qsbr and QsbrWord for TLC.                           *)
(***************************************************************************)
EXTENDS QsbrWord, TLC

\* Thread slots and addresses are interchangeable.
Symmetry == Permutations(Thread) \cup Permutations(Ptr)
=============================================================================
