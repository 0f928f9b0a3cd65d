-------------------------------- MODULE OlcArt --------------------------------
(***************************************************************************)
(* The concurrent adaptive radix tree of UnoDB, olc_db (olc_art.hpp, with  *)
(* the node operations of art_internal_impl.hpp): get, insert and remove   *)
(* by optimistic lock coupling.                                            *)
(*                                                                         *)
(* A thread descends from the root pointer with a read critical section    *)
(* (RCS) on the parent, on the node and, in remove, on the child.  A step  *)
(* that reads nodes decides what to do next: which RCSs to validate, which *)
(* to upgrade to write guards and which nodes to make obsolete, in the     *)
(* order of the code.  That list is todo[t]; one action does one entry of  *)
(* it, since each is one atomic access to one lock word.  When the list is *)
(* done the thread goes on at pc[t].                                       *)
(*                                                                         *)
(* A write section changes the nodes it has write-locked in one action:    *)
(* who reads them meanwhile fails to validate whatever it read.  The locks *)
(* are those of OptimisticLock, atomics are sequentially consistent.       *)
(* Memory of obsolete nodes is not reused: Qsbr is about that.             *)
(***************************************************************************)
EXTENDS LockWord, ArtNode

CONSTANTS
    Thread,
    Loader,     \* the thread that fills the tree before the others start
    Loads,      \* what the loader may insert: a set of sequences of keys
    MaxNode,    \* bound: number of nodes ever allocated
    MaxOps,     \* bound: operations of each thread other than the loader
    MaxWord     \* bound: lock words up to which write sections are opened

ASSUME ThreadAssumption == IsFiniteSet(Thread) /\ Loader \in Thread
ASSUME LoadAssumption == Loads \subseteq Seq(Key)
ASSUME BoundAssumption == MaxNode \in Nat /\ MaxOps \in Nat /\ MaxWord \in Nat
\* Two keys differ within a full prefix and one byte, as add_two_to_empty asserts: the
\* fixed-width keys have 8 bytes, and key_prefix_capacity is 7.
ASSUME LengthAssumption == KeyLen <= PrefixCap + 1

VARIABLES
    root,       \* olc_db::root
    nodes,      \* the leaves and inodes
    word,       \* lock words: of the nodes, and of root_pointer_lock under 0
    map,        \* history: key -> leaf, the map the tree stands for
    load,       \* what the loader has still to insert
    left,       \* operations each thread may still start
    op, key,    \* the operation a thread is in
    pc,         \* where it goes on when todo is empty
    depth,      \* bytes of the key consumed above the current node
    at, ver,    \* parent, node and child, and the versions of their RCSs
    todo,       \* lock accesses to make next
    held,       \* active write guards, in the order they were constructed
    result,     \* the leaf that the operation takes to be bound to its key
    seen,       \* history: the leaves bound to the key during the operation
    torn        \* history: threads whose node got another prefix without a guard

treeVars == <<root, nodes>>
historyVars == <<map, seen, torn>>
opVars == <<load, left, op, key>>
rcsVars == <<depth, at, ver>>
vars == <<treeVars, word, historyVars, opVars, pc, rcsVars, todo, held, result>>

Nil == 0
Node == 1 .. MaxNode
Lock == 0 .. MaxNode
Role == {"parent", "node", "child"}
Nowhere == [r \in Role |-> Nil]

Unused == [kind |-> "unused"]
Leaf(k) == [kind |-> "leaf", key |-> k]

-------------------------------------------------------------------------------
Init ==
    /\ root = Nil
    /\ nodes = [n \in Node |-> Unused]
    /\ word = [l \in Lock |-> 0]
    /\ map = [k \in Key |-> Nil]
    /\ load \in Loads
    /\ left = [t \in Thread |-> IF t = Loader THEN 0 ELSE MaxOps]
    /\ op = [t \in Thread |-> "none"]
    /\ key = [t \in Thread |-> <<>>]
    /\ pc = [t \in Thread |-> "idle"]
    /\ depth = [t \in Thread |-> 0]
    /\ at = [t \in Thread |-> Nowhere]
    /\ ver = [t \in Thread |-> Nowhere]
    /\ todo = [t \in Thread |-> <<>>]
    /\ held = [t \in Thread |-> <<>>]
    /\ result = [t \in Thread |-> Nil]
    /\ seen = [t \in Thread |-> {}]
    /\ torn = {}

Ready(t, label) == pc[t] = label /\ todo[t] = <<>>
Goto(t, label) == pc' = [pc EXCEPT ![t] = label]
NodeOf(t, r) == nodes[at[t][r]]

\* The lock accesses of a list of <<what, role>>, on the RCSs as they are now.
Plan(t, steps) ==
    todo' = [todo EXCEPT ![t] =
        [i \in DOMAIN steps |-> [do |-> steps[i][1], on |-> at[t][steps[i][2]],
                                 ver |-> ver[t][steps[i][2]]]]]

\* Do these, then return; r is what the operation takes to be bound to the key.
Return(t, r, steps) ==
    /\ Plan(t, steps)
    /\ result' = [result EXCEPT ![t] = r]
    /\ Goto(t, "return")

\* Do these, then commit; likewise.
Commit(t, label, r, steps) ==
    /\ Plan(t, steps)
    /\ result' = [result EXCEPT ![t] = r]
    /\ Goto(t, label)

\* The guards are destroyed in reverse order of construction.
Unlocks(ls) ==
    [i \in DOMAIN ls |-> [do |-> "unlock", on |-> ls[Len(ls) + 1 - i], ver |-> 0]]

(***************************************************************************)
(* Operations begin and end.                                               *)
(***************************************************************************)
Start(t, o, k) ==
    /\ op' = [op EXCEPT ![t] = o]
    /\ key' = [key EXCEPT ![t] = k]
    /\ seen' = [seen EXCEPT ![t] = {map[k]}]
    /\ Goto(t, "root_lock")
    /\ UNCHANGED <<treeVars, word, map, torn, rcsVars, todo, held, result>>

begin_load ==
    /\ load # <<>>
    /\ pc[Loader] = "idle"
    /\ load' = Tail(load)
    /\ Start(Loader, "insert", Head(load))
    /\ UNCHANGED left

begin(t, o, k) ==
    /\ load = <<>> /\ pc[Loader] = "idle"
    /\ pc[t] = "idle"
    /\ left[t] > 0
    /\ left' = [left EXCEPT ![t] = @ - 1]
    /\ Start(t, o, k)
    /\ UNCHANGED load

Leave(t) ==
    /\ op' = [op EXCEPT ![t] = "none"]
    /\ key' = [key EXCEPT ![t] = <<>>]
    /\ result' = [result EXCEPT ![t] = Nil]
    /\ seen' = [seen EXCEPT ![t] = {}]
    /\ torn' = torn \ {t}
    /\ depth' = [depth EXCEPT ![t] = 0]
    /\ at' = [at EXCEPT ![t] = Nowhere]
    /\ ver' = [ver EXCEPT ![t] = Nowhere]
    /\ Goto(t, "idle")
    /\ UNCHANGED <<treeVars, word, map, load, left, todo, held>>

return(t) == Ready(t, "return") /\ Leave(t)

-------------------------------------------------------------------------------
(***************************************************************************)
(* Accesses to the lock words.                                             *)
(***************************************************************************)
\* The try_ function returns an empty result: release what is held, start over.
Restart(t) ==
    /\ todo' = [todo EXCEPT ![t] = Unlocks(held[t])]
    /\ held' = [held EXCEPT ![t] = <<>>]
    /\ depth' = [depth EXCEPT ![t] = 0]
    /\ at' = [at EXCEPT ![t] = Nowhere]
    /\ ver' = [ver EXCEPT ![t] = Nowhere]
    /\ result' = [result EXCEPT ![t] = Nil]
    /\ torn' = torn \ {t}
    /\ Goto(t, "root_lock")
    /\ UNCHANGED <<treeVars, word, map, seen, opVars>>

\* try_read_lock on root_pointer_lock, which is never obsolete.  Here and below a
\* write-locked word is loaded again.
try_read_lock_root(t) ==
    /\ Ready(t, "root_lock")
    /\ is_free(word[Nil])
    /\ ver' = [ver EXCEPT ![t]["parent"] = word[Nil]]
    /\ Goto(t, "load_root")
    /\ UNCHANGED <<treeVars, word, historyVars, opVars, depth, at, todo, held, result>>

\* Mutant of try_read_lock: the parent is not validated after the node is locked.
try_read_lock_NoParentCheck(t, r) ==
    /\ Ready(t, IF r = "node" THEN "lock_node" ELSE "lock_child")
    /\ is_free(word[at[t][r]])
    /\ ver' = [ver EXCEPT ![t][r] = word[at[t][r]]]
    /\ Goto(t, IF r = "node" THEN "at_node" ELSE "at_child")
    /\ UNCHANGED <<treeVars, word, historyVars, opVars, depth, at, todo, held, result>>

\* try_read_lock on the node, or in remove on the child.  A get, and an iterator,
\* validates the parent's RCS next.
try_read_lock(t, r) ==
    /\ Ready(t, IF r = "node" THEN "lock_node" ELSE "lock_child")
    /\ is_free(word[at[t][r]])
    /\ ver' = [ver EXCEPT ![t][r] = word[at[t][r]]]
    /\ IF op[t] \in {"insert", "remove"} THEN UNCHANGED todo
       ELSE Plan(t, << <<"check", "parent">> >>)
    /\ Goto(t, IF r = "node" THEN "at_node" ELSE "at_child")
    /\ UNCHANGED <<treeVars, word, historyVars, opVars, depth, at, held, result>>

try_read_lock_obsolete(t, r) ==
    /\ Ready(t, IF r = "node" THEN "lock_node" ELSE "lock_child")
    /\ is_obsolete(word[at[t][r]])
    /\ Restart(t)

\* The next entry of the list is to do d.
Must(t, d) == todo[t] # <<>> /\ Head(todo[t]).do = d
Done(t) == todo' = [todo EXCEPT ![t] = Tail(@)]
SetWord(t, w) == word' = [word EXCEPT ![Head(todo[t]).on] = w]
SameVersion(t) == word[Head(todo[t]).on] = Head(todo[t]).ver

\* check() or try_read_unlock() succeeds.
check(t) ==
    /\ Must(t, "check")
    /\ SameVersion(t)
    /\ Done(t)
    /\ UNCHANGED <<treeVars, word, historyVars, opVars, pc, rcsVars, held, result>>

\* Mutant of try_upgrade_to_write_lock: any free lock is taken.
try_upgrade_AnyVersion(t) ==
    /\ Must(t, "upgrade")
    /\ is_free(word[Head(todo[t]).on])
    /\ word[Head(todo[t]).on] <= MaxWord
    /\ SetWord(t, word[Head(todo[t]).on] + 2)
    /\ held' = [held EXCEPT ![t] = Append(@, Head(todo[t]).on)]
    /\ Done(t)
    /\ UNCHANGED <<treeVars, historyVars, opVars, pc, rcsVars, result>>

\* A write_guard is constructed from the RCS.
try_upgrade_to_write_lock(t) ==
    /\ Must(t, "upgrade")
    /\ SameVersion(t)
    /\ word[Head(todo[t]).on] <= MaxWord
    /\ SetWord(t, word[Head(todo[t]).on] + 2)
    /\ held' = [held EXCEPT ![t] = Append(@, Head(todo[t]).on)]
    /\ Done(t)
    /\ UNCHANGED <<treeVars, historyVars, opVars, pc, rcsVars, result>>

\* One of the above finds another version: must_restart.
version_mismatch(t) ==
    /\ todo[t] # <<>>
    /\ Head(todo[t]).do \in {"check", "upgrade"}
    /\ ~SameVersion(t)
    /\ Restart(t)

\* The guard is no longer active: its destructor does nothing.
unlock_and_obsolete(t) ==
    LET i == CHOOSE i \in DOMAIN held[t] : held[t][i] = Head(todo[t]).on
    IN /\ Must(t, "obsolete")
       /\ SetWord(t, obsolete_lock_word)
       /\ held' = [held EXCEPT ![t] = SubSeq(@, 1, i - 1) \o SubSeq(@, i + 1, Len(@))]
       /\ Done(t)
       /\ UNCHANGED <<treeVars, historyVars, opVars, pc, rcsVars, result>>

\* The destructor of an active write_guard.
write_unlock(t) ==
    /\ Must(t, "unlock")
    /\ SetWord(t, word[Head(todo[t]).on] + 2)
    /\ Done(t)
    /\ UNCHANGED <<treeVars, historyVars, opVars, pc, rcsVars, held, result>>

-------------------------------------------------------------------------------
(***************************************************************************)
(* Reading the tree and deciding what to do.                               *)
(***************************************************************************)
load_root(t) ==
    /\ Ready(t, "load_root")
    /\ root # Nil
    /\ at' = [at EXCEPT ![t]["node"] = root]
    /\ Plan(t, << <<"check", "parent">> >>)
    /\ Goto(t, "lock_node")
    /\ UNCHANGED <<treeVars, word, historyVars, opVars, depth, ver, held, result>>

\* The tree is empty: get and remove have their answer if that is validated.
empty_tree(t) ==
    /\ Ready(t, "load_root")
    /\ root = Nil
    /\ op[t] # "insert"
    /\ Return(t, Nil, << <<"check", "parent">> >>)
    /\ UNCHANGED <<treeVars, word, historyVars, opVars, rcsVars, held>>

empty_tree_insert(t) ==
    /\ Ready(t, "load_root")
    /\ root = Nil
    /\ op[t] = "insert"
    /\ Commit(t, "insert_root", Nil, << <<"upgrade", "parent">> >>)
    /\ UNCHANGED <<treeVars, word, historyVars, opVars, rcsVars, held>>

\* An operation o is at a leaf, or at an inode.
AtLeaf(t, o) == Ready(t, "at_node") /\ op[t] = o /\ NodeOf(t, "node").kind = "leaf"
AtInode(t) == Ready(t, "at_node") /\ NodeOf(t, "node").kind = "inode"

get_leaf(t) ==
    /\ AtLeaf(t, "get")
    /\ Return(t, IF matches(NodeOf(t, "node"), key[t]) THEN at[t]["node"] ELSE Nil,
              << <<"check", "node">> >>)
    /\ UNCHANGED <<treeVars, word, historyVars, opVars, rcsVars, held>>

insert_leaf(t) ==
    /\ AtLeaf(t, "insert")
    /\ IF matches(NodeOf(t, "node"), key[t])
       THEN Return(t, at[t]["node"], << <<"check", "parent">>, <<"check", "node">> >>)
       ELSE Commit(t, "split_leaf", Nil,
                   << <<"upgrade", "parent">>, <<"upgrade", "node">> >>)
    /\ UNCHANGED <<treeVars, word, historyVars, opVars, rcsVars, held>>

\* The root is a leaf; leaves below it are removed from their parent.
remove_root_leaf(t) ==
    /\ AtLeaf(t, "remove")
    /\ IF matches(NodeOf(t, "node"), key[t])
       THEN Commit(t, "remove_root", at[t]["node"],
                   << <<"upgrade", "parent">>, <<"upgrade", "node">>,
                      <<"obsolete", "node">> >>)
       ELSE Return(t, Nil, << <<"check", "node">> >>)
    /\ UNCHANGED <<treeVars, word, historyVars, opVars, rcsVars, held>>

\* Bytes of the node's key prefix that agree with the rest of the key.
shared(t) == get_shared_length(NodeOf(t, "node").prefix, key[t], depth[t])

match_prefix(t) ==
    /\ AtInode(t)
    /\ shared(t) = Len(NodeOf(t, "node").prefix)
    /\ depth' = [depth EXCEPT ![t] = @ + shared(t)]
    /\ Goto(t, "find_child")
    /\ UNCHANGED <<treeVars, word, historyVars, opVars, at, ver, todo, held, result>>

PrefixDiffers(t) == AtInode(t) /\ shared(t) < Len(NodeOf(t, "node").prefix)

get_prefix_differs(t) ==
    /\ PrefixDiffers(t)
    /\ op[t] = "get"
    /\ Return(t, Nil, << <<"check", "node">> >>)
    /\ UNCHANGED <<treeVars, word, historyVars, opVars, rcsVars, held>>

insert_prefix_differs(t) ==
    /\ PrefixDiffers(t)
    /\ op[t] = "insert"
    /\ Commit(t, "split_prefix", Nil,
              << <<"upgrade", "parent">>, <<"upgrade", "node">> >>)
    /\ UNCHANGED <<treeVars, word, historyVars, opVars, rcsVars, held>>

remove_prefix_differs(t) ==
    /\ PrefixDiffers(t)
    /\ op[t] = "remove"
    /\ Return(t, Nil, << <<"check", "parent">>, <<"check", "node">> >>)
    /\ UNCHANGED <<treeVars, word, historyVars, opVars, rcsVars, held>>

\* find_child and the load of the child pointer.
NextByte(t) == ByteAt(key[t], depth[t] + 1)
HasChild(t) == NextByte(t) \in DOMAIN NodeOf(t, "node").kids
find_child(t) == NodeOf(t, "node").kids[NextByte(t)]

\* parent_critical_section = std::move(node_critical_section), node = child.
Descend(t, c, cver) ==
    /\ at' = [at EXCEPT ![t] = [Nowhere EXCEPT !["parent"] = at[t]["node"],
                                               !["node"] = c]]
    /\ ver' = [ver EXCEPT ![t] = [Nowhere EXCEPT !["parent"] = ver[t]["node"],
                                                 !["node"] = cver]]
    /\ depth' = [depth EXCEPT ![t] = @ + 1]

\* The rest of the loop in try_get.
get_child(t) ==
    /\ Ready(t, "find_child")
    /\ op[t] = "get"
    /\ IF HasChild(t)
       THEN /\ Plan(t, << <<"check", "node">> >>)
            /\ Descend(t, find_child(t), 0)
            /\ Goto(t, "lock_node")
            /\ UNCHANGED result
       ELSE /\ Return(t, Nil, << <<"check", "node">> >>)
            /\ UNCHANGED rcsVars
    /\ UNCHANGED <<treeVars, word, historyVars, opVars, held>>

\* The rest of the loop in try_insert.  The new leaf, and a new inode, are private
\* until the commit that links them.
add_or_choose_subtree(t) ==
    /\ Ready(t, "find_child")
    /\ op[t] = "insert"
    /\ IF HasChild(t)
       THEN /\ Plan(t, << <<"check", "parent">>, <<"check", "node">> >>)
            /\ Descend(t, find_child(t), 0)
            /\ Goto(t, "lock_node")
            /\ UNCHANGED result
       ELSE /\ IF is_full(NodeOf(t, "node"))
               THEN Commit(t, "grow", Nil,
                           << <<"upgrade", "parent">>, <<"upgrade", "node">>,
                              <<"obsolete", "node">> >>)
               ELSE Commit(t, "add_to_nonfull", Nil,
                           << <<"upgrade", "node">>, <<"check", "parent">> >>)
            /\ UNCHANGED rcsVars
    /\ UNCHANGED <<treeVars, word, historyVars, opVars, held>>

\* remove_or_choose_subtree, up to the lock on the child.
remove_find_child(t) ==
    /\ Ready(t, "find_child")
    /\ op[t] = "remove"
    /\ IF HasChild(t)
       THEN /\ Plan(t, << <<"check", "node">> >>)
            /\ at' = [at EXCEPT ![t]["child"] = find_child(t)]
            /\ Goto(t, "lock_child")
            /\ UNCHANGED result
       ELSE /\ Return(t, Nil, << <<"check", "parent">>, <<"check", "node">> >>)
            /\ UNCHANGED at
    /\ UNCHANGED <<treeVars, word, historyVars, opVars, depth, ver, held>>

\* Mutant of shrink_steps: the node that is replaced is not made obsolete.
shrink_steps_NodeStays ==
    << <<"upgrade", "parent">>, <<"upgrade", "node">>, <<"upgrade", "child">>,
       <<"obsolete", "child">> >>

\* Write guards and obsolete nodes of the two cases of a node of minimal size.
shrink_steps ==
    << <<"upgrade", "parent">>, <<"upgrade", "node">>, <<"upgrade", "child">>,
       <<"obsolete", "node">>, <<"obsolete", "child">> >>

\* Its rest, with the lock on the child.
remove_or_choose_subtree(t) ==
    LET c == at[t]["child"]
    IN /\ Ready(t, "at_child")
       /\ IF nodes[c].kind = "inode"
          THEN /\ Plan(t, << <<"check", "parent">> >>)
               /\ Descend(t, c, ver[t]["child"])
               /\ Goto(t, "at_node")
               /\ UNCHANGED result
          ELSE /\ \/ /\ ~matches(nodes[c], key[t])
                     /\ Return(t, Nil, << <<"check", "parent">>, <<"check", "node">>,
                                          <<"check", "child">> >>)
                  \/ /\ matches(nodes[c], key[t])
                     /\ ~is_min_size(NodeOf(t, "node"))
                     /\ Commit(t, "remove_child", c,
                               << <<"check", "parent">>, <<"upgrade", "node">>,
                                  <<"upgrade", "child">>, <<"obsolete", "child">> >>)
                  \/ /\ matches(nodes[c], key[t])
                     /\ is_min_size(NodeOf(t, "node"))
                     /\ Commit(t, IF NodeOf(t, "node").class = 1
                                  THEN "leave_last_child" ELSE "shrink",
                               c, shrink_steps)
               /\ UNCHANGED rcsVars
       /\ UNCHANGED <<treeVars, word, historyVars, opVars, held>>

\* What t has read makes it allocate a leaf or an inode, as yet without write guards.
Allocates(t) ==
    \/ /\ op[t] = "insert"
       /\ \/ Ready(t, "load_root") /\ root = Nil
          \/ AtLeaf(t, "insert") /\ ~matches(NodeOf(t, "node"), key[t])
          \/ PrefixDiffers(t)
          \/ Ready(t, "find_child") /\ ~HasChild(t)
    \/ /\ Ready(t, "at_child")
       /\ NodeOf(t, "child").kind = "leaf" /\ matches(NodeOf(t, "child"), key[t])
       /\ is_min_size(NodeOf(t, "node")) /\ NodeOf(t, "node").class > 1

\* The allocation throws, and the exception leaves the operation.  (An insert that
\* kept its leaf from an attempt before may need no other: it can throw here still.)
bad_alloc(t) ==
    /\ t # Loader
    /\ Allocates(t)
    /\ Leave(t)

-------------------------------------------------------------------------------
(***************************************************************************)
(* Write sections: all guards are held, nodes to go are obsolete already.  *)
(***************************************************************************)
used == Cardinality({n \in Node : nodes[n] # Unused})
fresh(i) == used + i

\* History: the write section takes effect.
Rebind(k, leaf) ==
    /\ map' = [map EXCEPT ![k] = leaf]
    /\ seen' = [u \in Thread |-> IF key[u] = k THEN seen[u] \cup {leaf} ELSE seen[u]]

Bind(k, leaf) == Rebind(k, leaf) /\ UNCHANGED torn

\* A thread other than a writer that has validated its way to the inode s and reads
\* its prefix next.
AboutToRead(u, s) ==
    /\ op[u] \notin {"insert", "remove"}
    /\ Ready(u, "at_node") /\ at[u]["node"] = s

WriteSection(t, label) ==
    /\ Ready(t, label)
    /\ todo' = [todo EXCEPT ![t] = Unlocks(held[t])]
    /\ held' = [held EXCEPT ![t] = <<>>]
    /\ Goto(t, "return")
    /\ UNCHANGED <<word, opVars, rcsVars, result>>

\* *node_in_parent = n, given the new contents nd of other nodes.
SetInParent(t, nd, n) ==
    LET p == at[t]["parent"]
        slot == CHOOSE b \in DOMAIN nd[p].kids : nd[p].kids[b] = at[t]["node"]
    IN IF p = Nil
       THEN root' = n /\ nodes' = nd
       ELSE nodes' = [nd EXCEPT ![p].kids[slot] = n] /\ UNCHANGED root

\* nodes with a leaf for the key of t as fresh(1).
WithLeaf(t) == [nodes EXCEPT ![fresh(1)] = Leaf(key[t])]

insert_root(t) ==
    /\ fresh(1) \in Node
    /\ WriteSection(t, "insert_root")
    /\ nodes' = WithLeaf(t)
    /\ root' = fresh(1)
    /\ Bind(key[t], fresh(1))

\* A new I4 over the existing leaf and the new one.
split_leaf(t) ==
    LET n == at[t]["node"]
        k1 == nodes[n].key
        prefix == common_prefix(k1, key[t], depth[t])
        d == depth[t] + Len(prefix) + 1
        kids == add(add(<<>>, k1[d], n), key[t][d], fresh(1))
    IN /\ fresh(2) \in Node
       /\ WriteSection(t, "split_leaf")
       /\ SetInParent(t, [WithLeaf(t) EXCEPT ![fresh(2)] = Inode(1, prefix, kids)], fresh(2))
       /\ Bind(key[t], fresh(1))

\* A new I4 over the node, whose prefix is cut, and the new leaf.
split_prefix(t) ==
    LET n == at[t]["node"]
        p == nodes[n].prefix
        len == shared(t)
        kids == add(add(<<>>, p[len + 1], n), key[t][depth[t] + len + 1], fresh(1))
    IN /\ fresh(2) \in Node
       /\ WriteSection(t, "split_prefix")
       /\ SetInParent(t, [WithLeaf(t) EXCEPT ![fresh(2)] = Inode(1, SubSeq(p, 1, len), kids),
                                             ![n].prefix = cut(p, len + 1)], fresh(2))
       /\ Bind(key[t], fresh(1))

add_to_nonfull(t) ==
    /\ fresh(1) \in Node
    /\ WriteSection(t, "add_to_nonfull")
    /\ nodes' = [WithLeaf(t) EXCEPT ![at[t]["node"]].kids = add(@, NextByte(t), fresh(1))]
    /\ Bind(key[t], fresh(1))
    /\ UNCHANGED root

\* The larger node takes the place of the full one, with the new leaf.
grow(t) ==
    LET n == NodeOf(t, "node")
        larger == Inode(n.class + 1, n.prefix, add(n.kids, NextByte(t), fresh(1)))
    IN /\ fresh(2) \in Node
       /\ WriteSection(t, "grow")
       /\ SetInParent(t, [WithLeaf(t) EXCEPT ![fresh(2)] = larger], fresh(2))
       /\ Bind(key[t], fresh(1))

remove_root(t) ==
    /\ WriteSection(t, "remove_root")
    /\ root' = Nil
    /\ Bind(key[t], Nil)
    /\ UNCHANGED nodes

remove_child(t) ==
    /\ WriteSection(t, "remove_child")
    /\ nodes' = [nodes EXCEPT ![at[t]["node"]].kids = drop(@, NextByte(t))]
    /\ Bind(key[t], Nil)
    /\ UNCHANGED root

\* The child that stays in a two-child I4.
survivor(t) ==
    LET kids == NodeOf(t, "node").kids
    IN kids[CHOOSE b \in DOMAIN kids : b # NextByte(t)]

\* It takes the place of its parent; if an inode, its prefix gets longer, and the
\* write section holds no guard on it.
leave_last_child(t) ==
    LET n == NodeOf(t, "node")
        byte == CHOOSE b \in DOMAIN n.kids : b # NextByte(t)
        s == survivor(t)
    IN /\ WriteSection(t, "leave_last_child")
       /\ SetInParent(t, IF nodes[s].kind = "leaf" THEN nodes
                         ELSE [nodes EXCEPT ![s].prefix = prepend(@, n.prefix, byte)], s)
       /\ Rebind(key[t], Nil)
       /\ torn' = torn \cup (IF nodes[s].kind = "leaf" THEN {}
                            ELSE {u \in Thread : AboutToRead(u, s)})

shrink(t) ==
    LET n == NodeOf(t, "node")
        smaller == Inode(n.class - 1, n.prefix, drop(n.kids, NextByte(t)))
    IN /\ fresh(1) \in Node
       /\ WriteSection(t, "shrink")
       /\ SetInParent(t, [nodes EXCEPT ![fresh(1)] = smaller], fresh(1))
       /\ Bind(key[t], Nil)

-------------------------------------------------------------------------------
Operation(t) ==
    \/ \E o \in {"get", "insert", "remove"}, k \in Key : begin(t, o, k)
    \/ return(t)

Locking(t) ==
    \/ try_read_lock_root(t)
    \/ \E r \in {"node", "child"} : try_read_lock(t, r) \/ try_read_lock_obsolete(t, r)
    \/ check(t)
    \/ try_upgrade_to_write_lock(t)
    \/ version_mismatch(t)
    \/ unlock_and_obsolete(t)
    \/ write_unlock(t)

Reading(t) ==
    \/ load_root(t)
    \/ empty_tree(t)
    \/ empty_tree_insert(t)
    \/ get_leaf(t)
    \/ insert_leaf(t)
    \/ remove_root_leaf(t)
    \/ match_prefix(t)
    \/ get_prefix_differs(t)
    \/ insert_prefix_differs(t)
    \/ remove_prefix_differs(t)
    \/ get_child(t)
    \/ add_or_choose_subtree(t)
    \/ remove_find_child(t)
    \/ remove_or_choose_subtree(t)
    \/ bad_alloc(t)

Writing(t) ==
    \/ insert_root(t)
    \/ split_leaf(t)
    \/ split_prefix(t)
    \/ add_to_nonfull(t)
    \/ grow(t)
    \/ remove_root(t)
    \/ remove_child(t)
    \/ leave_last_child(t)
    \/ shrink(t)

Next ==
    \/ begin_load
    \/ \E t \in Thread : Operation(t) \/ Locking(t) \/ Reading(t) \/ Writing(t)

Spec == Init /\ [][Next]_vars

-------------------------------------------------------------------------------
(***************************************************************************)
(* Properties.                                                             *)
(***************************************************************************)
Commits == {"insert_root", "split_leaf", "split_prefix", "add_to_nonfull", "grow",
            "remove_root", "remove_child", "leave_last_child", "shrink"}
\* Every operation returns what was true at some instant while it ran: a get the
\* leaf bound to its key, or none; an insert that fails a leaf that was there; a
\* remove that fails no leaf.
Linearizable == \A t \in Thread : Ready(t, "return") => result[t] \in seen[t]

\* So does every operation under which leave_last_child lengthened no prefix in the
\* attempt that it returns from.
LinearizableUnlessTorn ==
    \A t \in Thread : Ready(t, "return") /\ t \notin torn => result[t] \in seen[t]

\* A write section takes effect on the state it assumed: an insert binds a key
\* that is unbound at that instant, a remove unbinds the very leaf it found. Until
\* then the locks of its guards stay write-locked.
CommitsOnCurrent ==
    \A t \in Thread :
        /\ pc[t] \in Commits /\ todo[t] = <<>> => result[t] = map[key[t]]
        /\ \A i \in DOMAIN held[t] : is_write_locked(word[held[t][i]])

\* No write section is open.
Unlocked == \A l \in Lock : ~is_write_locked(word[l])

\* One turn of a lookup without concurrency: from a node, with the bytes of the key
\* above it, to the child.  It stays where there is none.
LookupTurn(k, here) ==
    LET n == here[1]
        p == nodes[n].prefix
        e == here[2] + Len(p) + 1
    IN IF /\ n # Nil /\ nodes[n].kind = "inode"
          /\ get_shared_length(p, k, here[2]) = Len(p)
          /\ ByteAt(k, e) \in DOMAIN nodes[n].kids
       THEN <<nodes[n].kids[ByteAt(k, e)], e>>
       ELSE here

\* The leaf that it finds.
Lookup(k) ==
    LET turn[i \in 0 .. KeyLen] == IF i = 0 THEN <<root, 0>> ELSE LookupTurn(k, turn[i - 1])
        n == turn[KeyLen][1]
    IN IF n # Nil /\ nodes[n] = Leaf(k) THEN n ELSE Nil

\* Whenever no write section is open, the tree finds exactly the bound keys, each
\* at its own leaf.
TreeMatchesMap == Unlocked => \A k \in Key : Lookup(k) = map[k]

Children(S) == UNION {{nodes[n].kids[b] : b \in DOMAIN nodes[n].kids} :
                      n \in {m \in S : nodes[m].kind = "inode"}}
Reachable ==
    LET down[i \in 0 .. KeyLen] ==
            IF i = 0 THEN {root} \ {Nil} ELSE down[i - 1] \cup Children(down[i - 1])
    IN down[KeyLen]

\* Whenever no write section is open, the nodes that are not obsolete are the ones
\* in the tree: none in the tree is handed to QSBR, none out of it is forgotten.
RetiredExactly ==
    Unlocked => {n \in Node : nodes[n] # Unused /\ ~is_obsolete(word[n])} = Reachable

\* Whenever no write section is open, every inode of the tree has a number of
\* children its class allows: no operation leaves a node to grow or shrink.
SizesKept ==
    Unlocked => \A n \in Reachable : nodes[n].kind = "inode" =>
        Cardinality(DOMAIN nodes[n].kids) \in min_size(nodes[n].class) .. Cap[nodes[n].class]
===============================================================================
