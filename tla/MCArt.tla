-------------------------------- MODULE MCArt --------------------------------
(***************************************************************************)
(* Art, ArtIterator and MutexArt for TLC: keys of three bytes that share   *)
(* prefixes of lengths 0, 1 and 2, one group of them larger than the       *)
(* smallest inode.  A prefix holds one byte less than a key, as for the    *)
(* eight bytes of std::uint64_t.                                           *)
(***************************************************************************)
EXTENDS MutexArt

CONSTANTS v1, v2, t1, t2

MCByte == 0 .. 4
MCCap == <<3, 5>>
MCStored == {<<0, 0, 0>>, <<0, 0, 1>>, <<0, 0, 2>>, <<0, 0, 3>>, <<0, 1, 0>>, <<1, 1, 0>>}
\* Keys between and after the stored ones at every depth.
MCAbsent == {<<0, 0, 4>>, <<0, 2, 0>>, <<1, 0, 0>>, <<1, 1, 1>>, <<2, 0, 0>>}
MCKey == MCStored \cup MCAbsent

Alike == Permutations(Value) \cup Permutations(Thread)
===============================================================================
