------------------------------- MODULE MCKeys -------------------------------
(***************************************************************************)
(* The key encoder and the key prefix word for TLC: bytes of two bits,     *)
(* integers of one and two bytes, floats of two bytes, text of up to       *)
(* maxlen = 12 bytes.                                                      *)
(***************************************************************************)
EXTENDS KeyWord

\* All numbers of one byte; of two bytes, those around the carry between the bytes,
\* the middle and the ends of the range.
MCSample(n) == IF n = 1 THEN 0 .. 3 ELSE {0, 3, 4, 7, 8, 15}

\* A text of n bytes b.
Run(b, n) == [i \in 1 .. n |-> b]

\* Prefixes of each other, with trailing pad bytes, and at and beyond maxlen; the
\* last two of these lose their ends to truncation.
PlainText == {<<>>, <<1>>, <<1, 1>>, <<1, 2>>, <<1, 0>>, Run(1, 11), Run(1, 12),
              Run(1, 11) \o <<0, 2>>, Run(1, 12) \o <<2>>}

\* With pad bytes inside: text that differs from another only after one, and text in which
\* one is followed by the run length that <<1>> gets.
MCText == PlainText \cup {<<1, 0, 1>>, <<1, 0, 2, 3>>}
MCRaw == {<<0, 3>>, <<1, 0>>}

\* The two encoders are interchangeable.
Symmetry == Permutations(Encoder)
============================================================================
