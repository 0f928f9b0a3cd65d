---------------------------- MODULE MCInodeLayout ----------------------------
(***************************************************************************)
(* InodeLayout for TLC: nine byte values, and classes just large enough to *)
(* have a full, a minimal and a neither full nor minimal inode among them. *)
(***************************************************************************)
EXTENDS InodeLayout

MCCap == <<3, 5, 7, 9>>
===============================================================================
