------------------------------- MODULE KeyWord -------------------------------
(***************************************************************************)
(* What the tree does with the bytes of a key a word at a time:            *)
(* basic_art_key::get_u64 and shift_right (art_internal.hpp), and          *)
(* key_prefix (art_internal_impl.hpp), a machine word whose highest byte   *)
(* is the length of the prefix and whose other bytes, from the lowest, are *)
(* the prefix.  The bytes beyond the length are arbitrary.                 *)
(*                                                                         *)
(* ArtNode has the same operations on sequences of bytes; the words must   *)
(* agree with it on every two keys that KeyEncoder can produce.            *)
(***************************************************************************)
EXTENDS KeyEncoder, Bitwise

CONSTANT WordBytes      \* bytes of std::uint64_t

ASSUME WordAssumption == WordBytes \in Nat \ {0, 1} /\ WordBytes - 1 < Base

key_prefix_capacity == WordBytes - 1
key_bytes_mask == Base ^ key_prefix_capacity - 1

Tree == INSTANCE ArtNode WITH Byte <- 0 .. Base - 1, KeyLen <- WordBytes, Key <- {},
                              Cap <- <<3, Base + 1>>, PrefixCap <- key_prefix_capacity

(***************************************************************************)
(* basic_art_key.                                                          *)
(***************************************************************************)
\* memcpy into a zero word of at most its size.
get_u64(kv) == Loaded(SubSeq(kv, 1, IF Len(kv) < WordBytes THEN Len(kv) ELSE WordBytes))

\* Of a key_view, and of a fixed width key in a word.
shift_right(kv, num_bytes) == SubSeq(kv, num_bytes + 1, Len(kv))
shift_right_word(u, num_bytes) == u \div Base ^ num_bytes

(***************************************************************************)
(* key_prefix.                                                             *)
(***************************************************************************)
length(w) == w \div Base ^ key_prefix_capacity
length_to_word(n) == n * Base ^ key_prefix_capacity
byte_at(w, i) == (w \div Base ^ i) % Base

countr_zero(w) == CHOOSE n \in 0 .. WordBytes * ByteBits - 1 :
                      w % 2 ^ n = 0 /\ w % 2 ^ (n + 1) # 0

shared_len(k1, k2, clamp_byte_pos) ==
    countr_zero((k1 ^^ k2) | Base ^ clamp_byte_pos) \div ByteBits

get_shared_length(w, shifted_key_u64) == shared_len(shifted_key_u64, w, length(w))

\* The prefix of a new inode, from a key of the tree and the shifted inserted key.
make_u64(k1, shifted_k2, depth) ==
    LET k1_u64 == get_u64(shift_right(k1, depth)) & key_bytes_mask
    IN k1_u64 | length_to_word(shared_len(k1_u64, get_u64(shifted_k2),
                                          key_prefix_capacity))

\* The constructor from another prefix: its first bytes, the rest left in place.
shortened(len, w) == (w & key_bytes_mask) | length_to_word(len)

\* basic_inode_4::init: the bytes of the two children of the new inode.
next_bytes(k1, shifted_k2, depth) ==
    LET n == length(make_u64(k1, shifted_k2, depth))
    IN <<k1[n + depth + 1], shifted_k2[n + 1]>>

cut(w, cut_len) ==
    (shift_right_word(w, cut_len) & key_bytes_mask) | length_to_word(length(w) - cut_len)

\* Mutant: the bytes beyond the length of the first prefix are not masked off.
prepend_NoMask(w, prefix1, prefix2) ==
    LET len1 == length(prefix1)
        prefix3 == w % Base ^ length(w)
    IN (((prefix3 * Base ^ (len1 + 1)) | (prefix2 * Base ^ len1))
            | (prefix1 & key_bytes_mask)) | length_to_word(length(w) + len1 + 1)

prepend(w, prefix1, prefix2) ==
    LET len1 == length(prefix1)
        prefix3 == w & (Base ^ length(w) - 1)
    IN (((prefix3 * Base ^ (len1 + 1)) | (prefix2 * Base ^ len1))
            | (prefix1 & (Base ^ len1 - 1))) | length_to_word(length(w) + len1 + 1)

-------------------------------------------------------------------------------
\* The prefix a word stands for.
Bytes(w) == [i \in 1 .. length(w) |-> byte_at(w, i - 1)]

\* A fixed width key shifted as a number is the key shifted as bytes, zero filled.
ShiftAgrees(k) ==
    Len(k) <= WordBytes =>
        \A d \in 0 .. Len(k) : shift_right_word(get_u64(k), d) = get_u64(shift_right(k, d))

\* The shared length of prefix w with key k at every depth.
LengthAgrees(w, k) ==
    \A d \in 0 .. Len(k) :
        get_shared_length(w, get_u64(shift_right(k, d)))
            = Tree!get_shared_length(Bytes(w), k, d)

\* An inode's prefix w split at the byte after n others; and the upper inode merged
\* with a child at another byte, whose prefix may have stale bytes of its own.
SplitAgrees(w, n) ==
    LET upper == shortened(n, w)
        lower == cut(w, n + 1)
    IN /\ Bytes(upper) = SubSeq(Bytes(w), 1, n)
       /\ Bytes(lower) = Tree!cut(Bytes(w), n + 1)
       /\ \A child \in {lower, shortened(length(lower), w)}, c \in {0, Base - 1} :
              Bytes(prepend(child, upper, c))
                  = Tree!prepend(Bytes(child), Bytes(upper), c)

\* Where a leaf at the root makes room for a second one, the new inode_4 has two children of
\* different bytes, as add_two_to_empty asserts ("key1 != key2"), exactly if the keys
\* part within the word: beyond, a chain of inodes would be needed.
ChildBytesDiffer(k1, k2) ==
    LET b == next_bytes(k1, k2, 0)
        part(i) == i \in DOMAIN k1 \cap DOMAIN k2 /\ k1[i] # k2[i]
    IN b[1] # b[2] <=> \E i \in 1 .. WordBytes : part(i)

\* "The ART index disallows keys which are prefixes of other keys": the two keys part
\* at a byte that both have.
MayMeet(a, b) == ~IsPrefix(a, b) /\ ~IsPrefix(b, a)

\* The xor, mask and shift arithmetic on prefix words computes, for every two keys that
\* may be in one tree and from every depth a word before they part, what the tree models
\* take prefixes to do: the prefix of a new inode, the length shared with a key however
\* short, the two halves of a split and their reunion, the stale bytes beyond the length
\* notwithstanding.  The inode over two leaves tells their keys apart as long as they
\* part within a word, and never beyond.
PrefixWordExact ==
    \A e, f \in Encoder : MayMeet(key(e), key(f)) =>
        LET a == key(e)
            b == key(f)
            common == Tree!get_shared_length(a, b, 0)
        IN /\ ShiftAgrees(a)
           /\ ChildBytesDiffer(a, b)
           /\ \A d \in {i \in 0 .. common : i + WordBytes >= common} :
                  LET w == make_u64(a, shift_right(b, d), d)
                  IN /\ Bytes(w) = Tree!common_prefix(a, b, d)
                     /\ LengthAgrees(w, b)
                     /\ \A n \in 0 .. length(w) - 1 : SplitAgrees(w, n)
===============================================================================
