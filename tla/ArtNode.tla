------------------------------- MODULE ArtNode -------------------------------
(***************************************************************************)
(* Keys, key prefixes and inodes of the adaptive radix tree as values      *)
(* (art_internal.hpp, art_internal_impl.hpp), shared by the models of db   *)
(* and olc_db.                                                             *)
(*                                                                         *)
(* An inode is its class, its prefix and a function from key bytes to      *)
(* children; what a child is, is up to the module that uses this one.      *)
(***************************************************************************)
EXTENDS Integers, Sequences, FiniteSets

CONSTANTS
    Byte,       \* the values of a byte of a key
    KeyLen,     \* number of bytes of a key
    Key,        \* the keys, sequences of KeyLen bytes
    Cap,        \* capacities of the inode classes, 4, 16, 48, 256 in the code
    PrefixCap   \* key_prefix_capacity, 7 in the code

ASSUME KeyAssumption ==
    /\ KeyLen \in Nat \ {0}
    /\ 0 \in Byte /\ Byte \subseteq Nat /\ IsFiniteSet(Byte)
    /\ Key \subseteq [1 .. KeyLen -> Byte]
\* The smallest inode has room for more than two, the largest for every byte.
ASSUME CapAssumption ==
    /\ Cap \in Seq(Nat) /\ Len(Cap) > 0
    /\ Cap[1] > 2
    /\ \A i \in 2 .. Len(Cap) : Cap[i] > Cap[i - 1] + 1
    /\ Cap[Len(Cap)] >= Cardinality(Byte)
ASSUME PrefixAssumption == PrefixCap \in Nat

Inode(c, p, f) == [kind |-> "inode", class |-> c, prefix |-> p, kids |-> f]

matches(n, k) == n.key = k

\* A key shifted past its end has zero bytes.
ByteAt(k, i) == IF i <= Len(k) THEN k[i] ELSE 0

\* basic_art_key::cmp on key bytes: k1 is ordered before k2.
precedes(k1, k2) ==
    \E i \in 1 .. KeyLen : k1[i] < k2[i] /\ \A j \in 1 .. i - 1 : k1[j] = k2[j]

(***************************************************************************)
(* Key prefixes.                                                           *)
(***************************************************************************)
\* key_prefix::get_shared_length: bytes in common with k after its first d.
get_shared_length(p, k, d) ==
    CHOOSE n \in 0 .. Len(p) :
        /\ \A i \in 1 .. n : p[i] = ByteAt(k, d + i)
        /\ n < Len(p) => p[n + 1] # ByteAt(k, d + n + 1)

cut(p, n) == SubSeq(p, n + 1, Len(p))

\* The prefix of a new inode over two leaves: what k1 and k2 share after d bytes,
\* up to the capacity.
common_prefix(k1, k2, d) ==
    LET len == get_shared_length(cut(k1, d), k2, d)
    IN SubSeq(k1, d + 1, d + (IF len < PrefixCap THEN len ELSE PrefixCap))

\* Mutant of prepend: the byte of the parent's slot is lost.
prepend_NoSlotByte(p, prefix1, prefix2) == prefix1 \o p

prepend(p, prefix1, prefix2) == prefix1 \o <<prefix2>> \o p

(***************************************************************************)
(* Inodes.                                                                 *)
(***************************************************************************)
min_size(c) == IF c = 1 THEN 2 ELSE Cap[c - 1] + 1

\* Mutant of is_min_size: off by one.
is_min_size_OffByOne(n) == Cardinality(DOMAIN n.kids) < min_size(n.class)

is_min_size(n) == Cardinality(DOMAIN n.kids) = min_size(n.class)

\* Mutant of is_full: the node grows one child early.
is_full_Early(n) == n.class < Len(Cap) /\ Cardinality(DOMAIN n.kids) = Cap[n.class] - 1

\* The largest class has room for every byte and is never full.
is_full(n) == n.class < Len(Cap) /\ Cardinality(DOMAIN n.kids) = Cap[n.class]

add(f, b, n) == [x \in DOMAIN f \cup {b} |-> IF x = b THEN n ELSE f[x]]
drop(f, b) == [x \in DOMAIN f \ {b} |-> f[x]]

(***************************************************************************)
(* Keys and inodes as the iterators see them, going forward or backward.   *)
(***************************************************************************)
Before(k1, k2, fwd) == IF fwd THEN precedes(k1, k2) ELSE precedes(k2, k1)

\* The key bytes of an inode's children beyond byte b, and the first of a set of them.
siblings(n, b, fwd) == {c \in DOMAIN n.kids : IF fwd THEN c > b ELSE c < b}
nearest(S, fwd) == CHOOSE b \in S : \A c \in S : IF fwd THEN b <= c ELSE c <= b
===============================================================================
