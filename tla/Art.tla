---------------------------------- MODULE Art ----------------------------------
(***************************************************************************)
(* The sequential adaptive radix tree, db (art.hpp): get, insert, remove,  *)
(* clear and empty.                                                        *)
(*                                                                         *)
(* The tree is a value: nothing shares a node and nothing runs beside an   *)
(* operation, so a node holds its children and an operation on a subtree   *)
(* is a function of the subtree.  A loop that descends with a pointer to   *)
(* the place to change becomes a recursion that rebuilds the path.         *)
(*                                                                         *)
(* Any allocation may throw std::bad_alloc (a leaf's also length_error).   *)
(* The counters of nodes that grew or shrank, which only ever increase,    *)
(* and the sizes of nodes are left out.                                    *)
(***************************************************************************)
EXTENDS ArtNode, FiniteSetsExt, TLC

CONSTANTS
    Value,
    NotFound,   \* what get returns for a key that is not there
    Stored      \* bound: the keys that are inserted; others are only looked for

ASSUME ValueAssumption == NotFound \notin Value
ASSUME StoredAssumption == Stored \subseteq Key

VARIABLES
    root,
    node_counts,    \* per node type
    answer          \* what the operation that has ended returns to its caller

vars == <<root, node_counts, answer>>

Null == [kind |-> "null"]
Leaf(k, v) == [kind |-> "leaf", key |-> k, val |-> v]

Idle == [op |-> "none"]
Answer(o, k, ok, v) == [op |-> o, key |-> k, ok |-> ok, val |-> v]
NoKey == <<>>

\* Node types: a leaf, and the classes of inodes.
LeafType == 0
Type == 0 .. Len(Cap)

\* The key has the whole prefix of inode n after its first d bytes.
prefix_matches(n, k, d) == get_shared_length(n.prefix, k, d) = Len(n.prefix)
\* The byte of the key at which inode n branches, and the depth of its children.
key_byte(n, k, d) == ByteAt(k, d + Len(n.prefix) + 1)
below(n, d) == d + Len(n.prefix) + 1

set_child(n, b, child) == [n EXCEPT !.kids = add(@, b, child)]

(***************************************************************************)
(* get                                                                     *)
(***************************************************************************)
RECURSIVE get_internal(_, _, _)
get_internal(n, k, d) ==
    CASE n.kind = "null" -> NotFound
      [] n.kind = "leaf" -> IF matches(n, k) THEN n.val ELSE NotFound
      [] n.kind = "inode" ->
            IF prefix_matches(n, k, d) /\ key_byte(n, k, d) \in DOMAIN n.kids
            THEN get_internal(n.kids[key_byte(n, k, d)], k, below(n, d))
            ELSE NotFound

(***************************************************************************)
(* insert and remove on a subtree: the subtree as it becomes, the types of *)
(* the nodes allocated for it, in that order, and of the nodes deleted.    *)
(* Everything is allocated before the tree or a node of it is changed.     *)
(***************************************************************************)
Outcome(n, made, gone) == [tree |-> n, made |-> made, gone |-> gone]
Unchanged(n) == Outcome(n, <<>>, <<>>)
\* The outcome r for the child of n at b, as an outcome for n.
InChild(n, b, r) == [r EXCEPT !.tree = set_child(n, b, @)]

\* inode_4 over two leaves.  When their keys agree beyond the capacity of the
\* prefix, both have the same byte and a lookup finds the new leaf only.
split_leaf(old, new, d) ==
    LET p == common_prefix(old.key, new.key, d)
        i == d + Len(p) + 1
    IN Outcome(Inode(1, p, add(ByteAt(old.key, i) :> old, ByteAt(new.key, i), new)),
               <<LeafType, 1>>, <<>>)

\* inode_4 over an inode whose prefix the key has only the first bytes of: the inode
\* keeps what follows the byte that differs.
split_prefix(n, new, d) ==
    LET s == get_shared_length(n.prefix, new.key, d)
        lower == [n EXCEPT !.prefix = cut(@, s + 1)]
    IN Outcome(Inode(1, SubSeq(n.prefix, 1, s),
                     add(n.prefix[s + 1] :> lower, ByteAt(new.key, d + s + 1), new)),
               <<LeafType, 1>>, <<>>)

add_leaf(n, b, new) ==
    IF is_full(n)
    THEN Outcome(Inode(n.class + 1, n.prefix, add(n.kids, b, new)),
                 <<LeafType, n.class + 1>>, <<n.class>>)
    ELSE Outcome(set_child(n, b, new), <<LeafType>>, <<>>)

\* Mutant of insert_at_leaf: the value of a key that is there is replaced.
insert_at_leaf_Overwrite(n, new, d) ==
    IF matches(n, new.key) THEN Unchanged(new) ELSE split_leaf(n, new, d)

insert_at_leaf(n, new, d) ==
    IF matches(n, new.key) THEN Unchanged(n) ELSE split_leaf(n, new, d)

RECURSIVE insert_internal(_, _, _)
insert_internal(n, new, d) ==
    CASE n.kind = "null" -> Outcome(new, <<LeafType>>, <<>>)
      [] n.kind = "leaf" -> insert_at_leaf(n, new, d)
      [] n.kind = "inode" ->
            LET b == key_byte(n, new.key, d)
            IN IF ~prefix_matches(n, new.key, d) THEN split_prefix(n, new, d)
               ELSE IF b \notin DOMAIN n.kids THEN add_leaf(n, b, new)
               ELSE InChild(n, b, insert_internal(n.kids[b], new, below(n, d)))

\* The other child of an inode with two takes its place.
leave_last_child(n, b) ==
    LET c == CHOOSE x \in DOMAIN n.kids : x # b
        last == n.kids[c]
    IN IF last.kind = "leaf" THEN last
       ELSE [last EXCEPT !.prefix = prepend(@, n.prefix, c)]

remove_leaf(n, b) ==
    IF ~is_min_size(n)
    THEN Outcome([n EXCEPT !.kids = drop(@, b)], <<>>, <<LeafType>>)
    ELSE IF n.class = 1
    THEN Outcome(leave_last_child(n, b), <<>>, <<LeafType, 1>>)
    ELSE Outcome(Inode(n.class - 1, n.prefix, drop(n.kids, b)),
                 <<n.class - 1>>, <<LeafType, n.class>>)

RECURSIVE remove_internal(_, _, _)
remove_internal(n, k, d) ==
    CASE n.kind = "null" -> Unchanged(n)
      [] n.kind = "leaf" ->
            IF matches(n, k) THEN Outcome(Null, <<>>, <<LeafType>>) ELSE Unchanged(n)
      [] n.kind = "inode" ->
            LET b == key_byte(n, k, d)
            IN IF ~prefix_matches(n, k, d) \/ b \notin DOMAIN n.kids THEN Unchanged(n)
               ELSE IF n.kids[b].kind = "inode"
                    THEN InChild(n, b, remove_internal(n.kids[b], k, below(n, d)))
               ELSE IF matches(n.kids[b], k) THEN remove_leaf(n, b)
               ELSE Unchanged(n)

(***************************************************************************)
(* Node counts.                                                            *)
(***************************************************************************)
Occurrences(s, i) == Cardinality({j \in DOMAIN s : s[j] = i})

\* increment_ and decrement_ of leaf and inode counts for nodes made and deleted.
account(made, gone) ==
    node_counts' = [i \in Type |-> node_counts[i] + Occurrences(made, i) - Occurrences(gone, i)]

\* Mutant of unwound: what was allocated before the allocation that failed is leaked.
unwound_Leak(made) == <<>>

\* The unique_ptrs to nodes that are not in the tree yet delete them.
unwound(made) == made

-------------------------------------------------------------------------------
Init ==
    /\ root = Null
    /\ answer = Idle
    /\ node_counts = [i \in Type |-> 0]

get(k) ==
    /\ answer = Idle
    /\ LET v == get_internal(root, k, 0)
       IN answer' = Answer("get", k, v # NotFound, v)
    /\ UNCHANGED <<root, node_counts>>

Apply(r) == root' = r.tree /\ account(r.made, r.gone)

\* One of the allocations throws, after the ones before it.
Fail(r, k) ==
    /\ \E i \in DOMAIN r.made :
           LET done == SubSeq(r.made, 1, i - 1) IN account(done, unwound(done))
    /\ answer' = Answer("bad_alloc", k, FALSE, NotFound)
    /\ UNCHANGED root

insert(k, v) ==
    /\ answer = Idle
    /\ LET r == insert_internal(root, Leaf(k, v), 0)
       IN \/ Apply(r) /\ answer' = Answer("insert", k, root' # root, v)
          \/ Fail(r, k)

remove(k) ==
    /\ answer = Idle
    /\ LET r == remove_internal(root, k, 0)
       IN \/ Apply(r) /\ answer' = Answer("remove", k, root' # root, NotFound)
          \/ Fail(r, k)

\* The types of the nodes of a subtree.
RECURSIVE nodes_of(_)
nodes_of(n) ==
    CASE n.kind = "null" -> <<>>
      [] n.kind = "leaf" -> <<LeafType>>
      [] n.kind = "inode" ->
            FoldSet(LAMBDA b, s : s \o nodes_of(n.kids[b]), <<n.class>>, DOMAIN n.kids)

\* Every node is deleted; then the counts of inodes are set to zero, not that of leaves.
clear ==
    /\ answer = Idle
    /\ root' = Null
    /\ node_counts' = [i \in Type |->
           IF i = LeafType THEN node_counts[i] - Occurrences(nodes_of(root), i) ELSE 0]
    /\ answer' = Answer("clear", NoKey, TRUE, NotFound)

empty ==
    /\ answer = Idle
    /\ answer' = Answer("empty", NoKey, root = Null, NotFound)
    /\ UNCHANGED <<root, node_counts>>

return ==
    /\ answer # Idle
    /\ answer' = Idle
    /\ UNCHANGED <<root, node_counts>>

Next ==
    \/ \E k \in Key : get(k) \/ remove(k)
    \/ \E k \in Stored, v \in Value : insert(k, v)
    \/ clear \/ empty \/ return

Spec == Init /\ [][Next]_vars
-------------------------------------------------------------------------------
(***************************************************************************)
(* Properties.                                                             *)
(***************************************************************************)
map == [k \in Key |-> get_internal(root, k, 0)]
contents == {k \in Key : map[k] # NotFound}

\* The path-compressed radix tree over a set of bound keys, all with the same first d
\* bytes: the definition of an adaptive radix tree, not an algorithm of the code.
RECURSIVE Radix(_, _, _)
Radix(S, m, d) ==
    IF S = {} THEN Null
    ELSE LET one == CHOOSE k \in S : TRUE
         IN IF S = {one} THEN Leaf(one, m[one])
            ELSE LET j == CHOOSE i \in d + 1 .. KeyLen :
                              /\ \E k \in S : k[i] # one[i]
                              /\ \A k \in S, h \in d + 1 .. i - 1 : k[h] = one[h]
                     bytes == {k[j] : k \in S}
                     fits == {c \in DOMAIN Cap : Cardinality(bytes) <= Cap[c]}
                 IN Inode(CHOOSE c \in fits : \A x \in fits : c <= x,
                          SubSeq(one, d + 1, j - 1),
                          [b \in bytes |-> Radix({k \in S : k[j] = b}, m, j)])

\* The tree depends on what is bound and on nothing else: whatever was inserted and
\* removed in whatever order, every inode has the longest prefix of the keys below
\* it, at least two children and the smallest class that holds them (splits of
\* insert_internal, merges and shrinking of remove_or_choose_subtree).
Canonical == root = Radix(contents, map, 0)

\* The node counts are those of the tree, whatever allocation failed on the way: no
\* node is counted that is not there and none forgotten (assert_node_counts in the
\* tests; with the counts goes current_memory_use, changed in the same functions).
CountsMatchTree ==
    \A i \in Type : node_counts[i] = Occurrences(nodes_of(root), i)

\* db implements the map: get, insert, remove, clear and empty answer as a map from
\* keys to values would, and change what get finds as they would change it.
D == INSTANCE Dictionary
DictionarySpec == D!Spec
===============================================================================
