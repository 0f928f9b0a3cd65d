----------------------------- MODULE MCOlcIterator -----------------------------
(***************************************************************************)
(* Small instances of OlcIterator for TLC.                                 *)
(***************************************************************************)
EXTENDS OlcIterator

\* Two groups under different first bytes, one of them with a longer prefix.
MCKey == {<<0, 0, 0>>, <<0, 0, 1>>, <<0, 0, 2>>, <<0, 0, 3>>, <<0, 1, 0>>, <<1, 0, 0>>}
MCCap == <<3, 5>>

\* Trees to start from: one inode that is full, one of the next class with the fewest
\* children, two and three levels of inodes.
MCLoads == {
    << <<0, 0, 0>>, <<0, 0, 1>>, <<0, 0, 2>> >>,
    << <<0, 0, 0>>, <<0, 0, 1>>, <<0, 0, 2>>, <<0, 0, 3>> >>,
    << <<0, 0, 0>>, <<0, 0, 1>>, <<1, 0, 0>> >>,
    << <<0, 0, 0>>, <<0, 0, 1>>, <<0, 1, 0>>, <<1, 0, 0>> >> }
===============================================================================
