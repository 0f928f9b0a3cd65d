----------------------------- MODULE InodeLayout -----------------------------
(***************************************************************************)
(* How the four inode classes store their children (basic_inode_4, _16,    *)
(* _48 and _256 of art_internal_impl.hpp), for one inode from its creation *)
(* over two children until one child is left: adding and removing a child  *)
(* within a class, growing into the next class and shrinking into the one  *)
(* before, finding a child and iterating over the children.                *)
(*                                                                         *)
(* Classes 1 and 2 keep the key bytes sorted in an array, with the         *)
(* children in the same positions.  Class 3 maps every byte to a position  *)
(* in the array of children, class 4 has a position for every byte.        *)
(* Positions count from 0.  The build is the one for x86-64: positions of  *)
(* the arrays that are not in use hold what they held before.              *)
(***************************************************************************)
EXTENDS Integers, FiniteSets

CONSTANTS
    Bytes,  \* how many values a byte has, 256 in the code
    Cap     \* capacities of the four classes, 4, 16, 48, 256 in the code

ASSUME LayoutAssumption ==
    /\ Bytes \in Nat
    /\ Cap \in [1 .. 4 -> Nat]
    /\ 2 < Cap[1] /\ Cap[1] + 1 < Cap[2] /\ Cap[2] + 1 < Cap[3] /\ Cap[3] + 1 < Cap[4]
    /\ Cap[4] = Bytes

Byte == 0 .. Bytes - 1
Pos(c) == 0 .. Cap[c] - 1

Nil == -1       \* nullptr
Empty == -1     \* empty_child, 0xFF
None == [class |-> 0]

VARIABLES
    node,       \* the inode, None while there is none
    present     \* history: the bytes that have a child

vars == <<node, present>>

(***************************************************************************)
(* The inodes.  The child of byte b is b.                                  *)
(***************************************************************************)
Sorted(c, n, ks, cs) == [class |-> c, count |-> n, keys |-> ks, children |-> cs]
Indexed(n, is, cs) == [class |-> 3, count |-> n, child_indexes |-> is, children |-> cs]
Direct(n, cs) == [class |-> 4, count |-> n, children |-> cs]

capacity(n) == Cap[n.class]
min_size(c) == IF c = 1 THEN 2 ELSE Cap[c - 1] + 1

\* Mutant of is_min_size: off by one.
is_min_size_OffByOne(n) == n.count = min_size(n.class) - 1

is_min_size(n) == n.count = min_size(n.class)
is_full(n) == n.class < 4 /\ n.count = capacity(n)

Least(S) == CHOOSE x \in S : \A y \in S : x <= y
Greatest(S) == CHOOSE x \in S : \A y \in S : x >= y
\* How many elements of S are less than b, and the element that has i such.
Rank(S, b) == Cardinality(S \cap 0 .. b - 1)
Nth(S, i) == CHOOSE b \in S : Rank(S, b) = i

\* The bytes that an inode of class 3 or 4 has a child for.
mapped(n) ==
    IF n.class = 3 THEN {b \in Byte : n.child_indexes[b] # Empty}
    ELSE {b \in Byte : n.children[b] # Nil}

(***************************************************************************)
(* find_child: the index of the child of byte b and the child.             *)
(***************************************************************************)
\* Mutant of positions: the bits of the positions not in use are not masked out.
positions_NoMask(n, b) == {i \in Pos(n.class) : n.keys[i] = b}

positions(n, b) == {i \in 0 .. n.count - 1 : n.keys[i] = b}

child_index(n, b) == IF n.class <= 2 THEN Least(positions(n, b)) ELSE b

get_child(n, i) ==
    CASE n.class <= 2 -> n.children[i]
      [] n.class = 3 -> IF n.child_indexes[i] = Empty THEN Nil
                        ELSE n.children[n.child_indexes[i]]
      [] n.class = 4 -> n.children[i]

find_child(n, b) ==
    IF n.class <= 2 /\ positions(n, b) = {} THEN Nil ELSE get_child(n, child_index(n, b))

(***************************************************************************)
(* Adding a child.                                                         *)
(***************************************************************************)
\* get_insert_pos of inode_4: how many keys are before b.
get_insert_pos(n, b) == Cardinality({i \in 0 .. n.count - 1 : n.keys[i] <= b})

\* inode_16: the first position with a key after b.
get_sorted_key_array_insert_position(n, b) ==
    Least({i \in 0 .. n.count - 1 : b <= n.keys[i]} \cup {n.count})

\* An array with x put at position p, what follows moved on within the first n + 1
\* positions; the other positions keep what they have.
Shifted(a, p, n, x) ==
    [i \in DOMAIN a |-> CASE i = p -> x
                          [] p < i /\ i <= n -> a[i - 1]
                          [] OTHER -> a[i]]

add_to_sorted(n, b) ==
    LET p == IF n.class = 1 THEN get_insert_pos(n, b)
             ELSE get_sorted_key_array_insert_position(n, b)
    IN Sorted(n.class, n.count + 1,
              Shifted(n.keys, p, n.count, b), Shifted(n.children, p, n.count, b))

\* inode_48: the first position without a child.
add_to_48(n, b) ==
    LET p == Least({i \in Pos(3) : n.children[i] = Nil})
    IN Indexed(n.count + 1, [n.child_indexes EXCEPT ![b] = p],
               [n.children EXCEPT ![p] = b])

\* inode_256: children_count is one byte wide.
add_to_256(n, b) == Direct((n.count + 1) % Bytes, [n.children EXCEPT ![b] = b])

add_to_nonfull(n, b) ==
    CASE n.class <= 2 -> add_to_sorted(n, b)
      [] n.class = 3 -> add_to_48(n, b)
      [] n.class = 4 -> add_to_256(n, b)

\* inode_16 from a full inode_4; junk is in the positions not in use.
grow_4(n, b, junk) ==
    LET wide(a, x) == [i \in Pos(2) |-> IF i < Cap[1] THEN a[i] ELSE x]
        p == get_insert_pos(n, b)
    IN Sorted(2, min_size(2), Shifted(wide(n.keys, junk), p, Cap[1], b),
              Shifted(wide(n.children, Nil), p, Cap[1], b))

\* inode_48 from a full inode_16.
grow_16(n, b) ==
    LET at(x) == {i \in Pos(2) : n.keys[i] = x}
    IN Indexed(min_size(3),
               [x \in Byte |-> CASE x = b -> Cap[2]
                                 [] x # b /\ at(x) # {} -> Greatest(at(x))
                                 [] OTHER -> Empty],
               [i \in Pos(3) |-> CASE i < Cap[2] -> n.children[i]
                                   [] i = Cap[2] -> b
                                   [] i > Cap[2] -> Nil])

\* inode_256 from a full inode_48.
grow_48(n, b) ==
    Direct(min_size(4), [x \in Byte |-> IF x = b THEN b ELSE get_child(n, x)])

grow(n, b, junk) ==
    CASE n.class = 1 -> grow_4(n, b, junk)
      [] n.class = 2 -> grow_16(n, b)
      [] n.class = 3 -> grow_48(n, b)

(***************************************************************************)
(* Removing a child.                                                       *)
(***************************************************************************)
\* An array without position p, what follows moved back within the first n positions.
Closed(a, p, n) == [i \in DOMAIN a |-> IF p <= i /\ i < n - 1 THEN a[i + 1] ELSE a[i]]

remove_from_sorted(n, b) ==
    LET p == child_index(n, b)
    IN Sorted(n.class, n.count - 1, Closed(n.keys, p, n.count),
              Closed(n.children, p, n.count))

\* Mutant of remove_from_48: the pointer to the reclaimed leaf stays.
remove_from_48_KeepPointer(n, b) ==
    Indexed(n.count - 1, [n.child_indexes EXCEPT ![b] = Empty], n.children)

remove_from_48(n, b) ==
    Indexed(n.count - 1, [n.child_indexes EXCEPT ![b] = Empty],
            [n.children EXCEPT ![n.child_indexes[b]] = Nil])

remove_from_256(n, b) == Direct((n.count - 1) % Bytes, [n.children EXCEPT ![b] = Nil])

remove_child(n, b) ==
    CASE n.class <= 2 -> remove_from_sorted(n, b)
      [] n.class = 3 -> remove_from_48(n, b)
      [] n.class = 4 -> remove_from_256(n, b)

\* inode_4 from an inode_16 at its minimum.
shrink_16(n, b) ==
    LET p == child_index(n, b)
        without(a) == [i \in Pos(1) |-> IF i < p THEN a[i] ELSE a[i + 1]]
    IN Sorted(1, Cap[1], without(n.keys), without(n.children))

\* inode_16 from an inode_48 at its minimum: its bytes in order.
shrink_48(n, b) ==
    LET S == mapped(n) \ {b}
        keys == [i \in Pos(2) |-> Nth(S, i)]
    IN Sorted(2, Cap[2], keys, [i \in Pos(2) |-> get_child(n, keys[i])])

\* inode_48 from an inode_256 at its minimum: its children in the order of the bytes.
shrink_256(n, b) ==
    LET S == mapped(n) \ {b}
    IN Indexed(Cap[3], [x \in Byte |-> IF x \in S THEN Rank(S, x) ELSE Empty],
               [i \in Pos(3) |-> n.children[Nth(S, i)]])

shrink(n, b) ==
    CASE n.class = 2 -> shrink_16(n, b)
      [] n.class = 3 -> shrink_48(n, b)
      [] n.class = 4 -> shrink_256(n, b)

(***************************************************************************)
(* Iterating: an entry is a key byte and a child index, or End.            *)
(***************************************************************************)
End == [byte |-> -1, index |-> -1]
Entry(n, i) == [byte |-> IF n.class <= 2 THEN n.keys[i] ELSE i, index |-> i]
FirstOf(n, S) == IF S = {} THEN End ELSE Entry(n, Least(S))
LastOf(n, S) == IF S = {} THEN End ELSE Entry(n, Greatest(S))
\* The child indexes in use from i to j.
indexes(n, i, j) ==
    CASE n.class <= 2 -> i .. (IF j < n.count THEN j ELSE n.count - 1)
      [] n.class = 3 -> {x \in i .. j : n.child_indexes[x] # Empty}
      [] n.class = 4 -> {x \in i .. j : n.children[x] # Nil}

begin(n) == FirstOf(n, indexes(n, 0, Bytes - 1))
last(n) == LastOf(n, indexes(n, 0, Bytes - 1))
next(n, i) == FirstOf(n, indexes(n, i + 1, Bytes - 1))
prior(n, i) == LastOf(n, indexes(n, 0, i - 1))

gte_key_byte(n, b) ==
    FirstOf(n, IF n.class <= 2 THEN {i \in 0 .. n.count - 1 : n.keys[i] >= b}
               ELSE indexes(n, b, Bytes - 1))

\* Mutant of lte_key_byte: the byte itself is passed over.
lte_key_byte_Strict(n, b) ==
    LastOf(n, IF n.class <= 2 THEN {i \in 0 .. n.count - 1 : n.keys[i] < b}
              ELSE indexes(n, 0, b - 1))

lte_key_byte(n, b) ==
    LastOf(n, IF n.class <= 2 THEN {i \in 0 .. n.count - 1 : n.keys[i] <= b}
              ELSE indexes(n, 0, b))

\* The children that delete_subtree visits, by position.
delete_subtree(n) ==
    IF n.class <= 2 THEN 0 .. n.count - 1
    ELSE {i \in Pos(n.class) : n.children[i] # Nil}

-------------------------------------------------------------------------------
Init == node = None /\ present = {}

\* add_two_to_empty: an inode_4 over children of different bytes.
create(b1, b2, junk) ==
    /\ b1 # b2
    /\ LET lo == Least({b1, b2})
           hi == Greatest({b1, b2})
           first(x) == [i \in Pos(1) |-> CASE i = 0 -> lo [] i = 1 -> hi [] i > 1 -> x]
       IN node' = Sorted(1, 2, first(junk), first(Nil))
    /\ present' = {b1, b2}

\* add_or_choose_subtree for a byte that has no child.
AddsChild(b) ==
    /\ find_child(node, b) = Nil
    /\ present' = present \cup {b}

add(b) ==
    /\ ~is_full(node)
    /\ AddsChild(b)
    /\ node' = add_to_nonfull(node, b)

replace_by_larger(b) ==
    /\ is_full(node)
    /\ AddsChild(b)
    /\ \E junk \in IF node.class = 1 THEN Byte ELSE {0} : node' = grow(node, b, junk)

\* remove_or_choose_subtree for a byte whose child is the leaf to remove.
RemovesChild(b) == find_child(node, b) # Nil

remove(b) ==
    /\ ~is_min_size(node)
    /\ RemovesChild(b)
    /\ node' = remove_child(node, b)
    /\ present' = present \ {b}

replace_by_smaller(b) ==
    /\ node.class > 1 /\ is_min_size(node)
    /\ RemovesChild(b)
    /\ node' = shrink(node, b)
    /\ present' = present \ {b}

\* The child that is left takes the place of the inode.
leave_last_child(b) ==
    /\ node.class = 1 /\ is_min_size(node)
    /\ RemovesChild(b)
    /\ node' = None
    /\ present' = {}

Next ==
    \/ node = None /\ \E b1, b2, junk \in Byte : create(b1, b2, junk)
    \/ /\ node # None
       /\ \E b \in Byte :
             \/ add(b) \/ replace_by_larger(b)
             \/ remove(b) \/ replace_by_smaller(b) \/ leave_last_child(b)

Spec == Init /\ [][Next]_vars

-------------------------------------------------------------------------------
(***************************************************************************)
(* Properties.                                                             *)
(***************************************************************************)
\* find_child finds the child of every byte that has one and no other: no key without
\* its child, no child under another's key, nothing left of what was removed.
FindsChildren ==
    node # None =>
        \A b \in Byte : find_child(node, b) = IF b \in present THEN b ELSE Nil

\* children_count, one byte wide, counts the children, and the class is the one for
\* that many: 256 children are counted as 0 and are neither full nor few.
CountsChildren ==
    node # None =>
        /\ node.count = Cardinality(present) % Bytes
        /\ Cardinality(present) \in min_size(node.class) .. Cap[node.class]

\* delete_subtree visits every child exactly once, as its assertions demand: a
\* subtree is neither leaked nor deleted twice.
DeletesChildren ==
    node # None =>
        LET S == delete_subtree(node)
        IN /\ {node.children[i] : i \in S} = present
           /\ Cardinality(S) = Cardinality(present)

\* e is the entry of the byte in S before all others (fwd) or after them, or the end.
IsFirst(e, S, fwd) ==
    IF S = {} THEN e = End
    ELSE /\ e.byte \in S
         /\ \A x \in S : IF fwd THEN e.byte <= x ELSE x <= e.byte
         /\ get_child(node, e.index) = e.byte

\* begin, last, next, prior, gte_key_byte and lte_key_byte go through the bytes that
\* have a child in order, in every class, and give the indexes of their children.
IteratesInOrder ==
    node # None =>
        /\ IsFirst(begin(node), present, TRUE)
        /\ IsFirst(last(node), present, FALSE)
        /\ \A b \in present :
              LET i == child_index(node, b)
              IN /\ IsFirst(next(node, i), {x \in present : x > b}, TRUE)
                 /\ IsFirst(prior(node, i), {x \in present : x < b}, FALSE)
        /\ \A b \in Byte :
              /\ IsFirst(gte_key_byte(node, b), {x \in present : x >= b}, TRUE)
              /\ IsFirst(lte_key_byte(node, b), {x \in present : x <= b}, FALSE)
===============================================================================
