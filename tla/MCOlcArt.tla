------------------------------ MODULE MCOlcArt ------------------------------
(***************************************************************************)
(* Small instances of OlcArt for TLC.                                      *)
(***************************************************************************)
EXTENDS OlcArt, TLC

\* Three-byte keys: with the inode capacities 3 and 5 of the instances they reach
\* every node operation, with empty and with longer prefixes.
MCKey == {<<0, 0, 0>>, <<0, 0, 1>>, <<0, 0, 2>>, <<0, 0, 3>>, <<0, 0, 4>>,
          <<0, 1, 0>>, <<1, 0, 0>>}

MCCap == <<3, 5>>

\* Trees to start from: empty, a leaf, inodes of both classes that have the
\* fewest and the most children, two and three levels of inodes.
MCLoads == {
    <<>>,
    << <<0, 0, 0>> >>,
    << <<0, 0, 0>>, <<0, 0, 1>> >>,
    << <<0, 0, 0>>, <<0, 0, 1>>, <<0, 0, 2>> >>,
    << <<0, 0, 0>>, <<0, 0, 1>>, <<0, 0, 2>>, <<0, 0, 3>> >>,
    << <<0, 0, 0>>, <<0, 0, 1>>, <<0, 0, 2>>, <<0, 0, 3>>, <<0, 0, 4>> >>,
    << <<0, 0, 0>>, <<0, 0, 1>>, <<1, 0, 0>> >>,
    << <<0, 0, 0>>, <<0, 0, 1>>, <<0, 1, 0>>, <<1, 0, 0>> >> }

\* A chain of two inodes over three leaves, for the run of the merge race.
ChainKey == {<<0, 0>>, <<0, 1>>, <<1, 0>>}
ChainLoads == { << <<0, 0>>, <<0, 1>>, <<1, 0>> >> }

\* The threads other than the loader are interchangeable.
Symmetry == Permutations(Thread \ {Loader})
=============================================================================
