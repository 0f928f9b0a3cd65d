----------------------------- MODULE OlcArtShape -----------------------------
(***************************************************************************)
(* The inductive invariant of OlcArt.                                      *)
(*                                                                         *)
(* An inode stands for a label, the bytes that all keys below it begin     *)
(* with: the bytes on the path to it and its own prefix.  Splitting a      *)
(* prefix, or merging an inode with its parent, moves where the prefix     *)
(* begins and keeps the label, so a node has one label for its life, in    *)
(* the tree and out of it.  The label of n is the first end[n] bytes of    *)
(* rep[n]; that of a leaf is its key.  tree is the set of nodes in the     *)
(* tree, and start[n] the bytes on the path to n.                          *)
(***************************************************************************)
EXTENDS OlcArt

Labels == Commits \cup {"idle", "root_lock", "load_root", "lock_node", "at_node",
                        "find_child", "lock_child", "at_child", "return"}
RemovesChild == {"remove_child", "leave_last_child", "shrink"}
Inserts == {"insert_root", "split_leaf", "split_prefix", "add_to_nonfull", "grow"}
HasNode == (Commits \ {"insert_root"})
           \cup {"lock_node", "at_node", "find_child", "lock_child", "at_child"}
HasInode == RemovesChild \cup {"find_child", "lock_child", "at_child", "split_prefix",
                               "add_to_nonfull", "grow"}
HasChildNode == RemovesChild \cup {"lock_child", "at_child"}

IsUsed(n) == n \in Node /\ nodes[n] # Unused
IsLeaf(n) == IsUsed(n) /\ nodes[n].kind = "leaf"
IsInode(n) == IsUsed(n) /\ nodes[n].kind = "inode"

(***************************************************************************)
(* Locks.                                                                  *)
(***************************************************************************)
\* The roles whose RCS is upgraded before the commit, and whose nodes are obsolete.
Guards(label, r) ==
    \/ r = "parent" /\ label \in Commits \ {"add_to_nonfull", "remove_child"}
    \/ r = "node" /\ label \in Commits \ {"insert_root"}
    \/ r = "child" /\ label \in RemovesChild
Retires(label, r) ==
    \/ r = "node" /\ label \in {"grow", "remove_root", "leave_last_child", "shrink"}
    \/ r = "child" /\ label \in RemovesChild

ToDo(t, d, l) == \E i \in DOMAIN todo[t] : todo[t][i].do = d /\ todo[t][i].on = l
Holds(t, l) == \E i \in DOMAIN held[t] : held[t][i] = l
Owns(t, l) == Holds(t, l) \/ ToDo(t, "unlock", l)
Retired(t, l) ==
    \E r \in Role : /\ Retires(pc[t], r) /\ l = at[t][r]
                    /\ ~ToDo(t, "obsolete", l)
\* What t may change, or take out of the tree.
Mine(t, l) == Owns(t, l) \/ Retired(t, l)

\* v is a version that the lock l had.
Past(l, v) == v % 4 = 0 /\ (v <= word[l] \/ is_obsolete(word[l]))

Entry == [do : {"check", "upgrade", "obsolete", "unlock"}, on : Lock, ver : Nat]

LockTypes ==
    /\ word \in [Lock -> Nat]
    /\ \A l \in Lock : word[l] % 4 \in {0, 2} \/ is_obsolete(word[l])
    /\ ~is_obsolete(word[Nil])
    /\ pc \in [Thread -> Labels]
    /\ op \in [Thread -> {"none", "get", "insert", "remove"}]
    /\ at \in [Thread -> [Role -> Lock]]
    /\ ver \in [Thread -> [Role -> Nat]]
    /\ todo \in [Thread -> Seq(Entry)]
    /\ held \in [Thread -> Seq(Lock)]
    /\ DOMAIN key = Thread /\ DOMAIN depth = Thread
    /\ DOMAIN result = Thread /\ DOMAIN seen = Thread

Versions(t) ==
    /\ \A r \in Role : Past(at[t][r], ver[t][r])
    /\ \A i \in DOMAIN todo[t] :
          todo[t][i].do \in {"check", "upgrade"} => Past(todo[t][i].on, todo[t][i].ver)
    /\ pc[t] \in {"idle", "root_lock", "load_root", "lock_node"} => ver[t]["node"] = 0
    /\ pc[t] \notin Commits \cup {"at_child", "return"} => ver[t]["child"] = 0
    /\ pc[t] \in {"idle", "root_lock", "load_root"} => at[t] = Nowhere

Lists(t) ==
    /\ \A i, j \in DOMAIN todo[t] :
          i # j => todo[t][i].do # todo[t][j].do \/ todo[t][i].on # todo[t][j].on
    /\ \A i, j \in DOMAIN held[t] : i # j => held[t][i] # held[t][j]
    /\ \A i, j \in DOMAIN todo[t] :
          i < j /\ todo[t][i].do = "obsolete" => todo[t][j].do = "obsolete"
    /\ held[t] # <<>> => pc[t] \in Commits
    /\ \A i \in DOMAIN todo[t] :
          /\ todo[t][i].do \in {"upgrade", "obsolete"} => pc[t] \in Commits
          /\ todo[t][i].do = "unlock" => pc[t] \in {"root_lock", "return"}
    /\ pc[t] \in {"idle", "load_root", "find_child", "at_child"} => todo[t] = <<>>
    /\ op[t] = "get" /\ pc[t] = "at_node" /\ todo[t] # <<>>
       => /\ Len(todo[t]) = 1
          /\ todo[t][1] = [do |-> "check", on |-> at[t]["parent"], ver |-> ver[t]["parent"]]

\* Before a commit.
Guarding(t) ==
    pc[t] \in Commits =>
    /\ \A r \in Role : Guards(pc[t], r) =>
          \/ ToDo(t, "upgrade", at[t][r])
          \/ Holds(t, at[t][r])
          \/ Retired(t, at[t][r])
    /\ \A l \in Lock : Holds(t, l) => /\ \E r \in Role : Guards(pc[t], r) /\ l = at[t][r]
                                      /\ ~ToDo(t, "upgrade", l)
                                      /\ ~Retired(t, l)
    /\ \A l \in Lock : ToDo(t, "upgrade", l) => \E r \in Role : Guards(pc[t], r) /\ l = at[t][r]
    /\ \A l \in Lock : ToDo(t, "obsolete", l) =>
          /\ ToDo(t, "upgrade", l) \/ Holds(t, l)
          /\ \E r \in Role : Retires(pc[t], r) /\ l = at[t][r]
    /\ \A l \in Lock : Retired(t, l) => is_obsolete(word[l])
    /\ \A i \in DOMAIN todo[t] : \A l \in Lock :
          todo[t][i].do # "obsolete" => ~Retired(t, l)
    /\ at[t]["parent"] # at[t]["node"] \/ pc[t] = "insert_root"
    /\ pc[t] \in RemovesChild => /\ at[t]["child"] # at[t]["node"]
                                 /\ at[t]["child"] # at[t]["parent"]

Ownership ==
    /\ \A t \in Thread, l \in Lock : Owns(t, l) => word[l] % 4 = 2
    /\ \A t, u \in Thread, l \in Lock : t # u => ~(Mine(t, l) /\ Mine(u, l))

LockInv ==
    /\ LockTypes
    /\ \A t \in Thread : Versions(t) /\ Lists(t) /\ Guarding(t)
    /\ Ownership

(***************************************************************************)
(* The tree.                                                               *)
(***************************************************************************)
SameTo(a, b, i) == \A j \in 1 .. i : a[j] = b[j]

Bytes == [1 .. KeyLen -> Byte]
\* Functions from some key bytes to nodes.
Kids == UNION {[S -> Node] : S \in SUBSET Byte}
AnyNode == {Unused} \cup [kind : {"leaf"}, key : Key]
           \cup [kind : {"inode"}, class : 1 .. Len(Cap), prefix : Seq(Byte), kids : Kids]

\* The label of m begins with the first i bytes of the label of n.
Extends(rep, end, m, n, i) == i <= end[m] /\ SameTo(rep[m], rep[n], i)

kidsOf == [n \in Node |-> IF nodes[n].kind = "inode" THEN nodes[n].kids ELSE <<>>]

TreeTypes(tree, rep, end, start) ==
    /\ root \in Lock
    /\ nodes \in [Node -> AnyNode]
    /\ map \in [Key -> Lock]
    /\ \A n \in Node : nodes[n] # Unused <=> n <= used
    /\ tree \subseteq {n \in Node : nodes[n] # Unused}
    /\ rep \in [Node -> Bytes]
    /\ end \in [Node -> 0 .. KeyLen]
    /\ start \in [Node -> 0 .. KeyLen]

\* c may be the child of n at byte b.
GoodKid(rep, end, n, b, c) ==
    /\ IsUsed(c)
    /\ end[n] < end[c]
    /\ SameTo(rep[c], rep[n], end[n])
    /\ rep[c][end[n] + 1] = b

\* Labels, of all nodes.
LabelsFit(rep, end) ==
    /\ \A n \in Node : IsLeaf(n) => rep[n] = nodes[n].key /\ end[n] = KeyLen
    /\ \A n \in Node : IsInode(n) => end[n] < KeyLen
    /\ \A n \in Node : IsInode(n) =>
          \A b \in DOMAIN nodes[n].kids : GoodKid(rep, end, n, b, nodes[n].kids[b])

SizeFits(n) ==
    Cardinality(DOMAIN nodes[n].kids) \in min_size(nodes[n].class) .. Cap[nodes[n].class]
SizesFit == \A n \in Node : IsInode(n) => SizeFits(n)

\* What lies on the path to n lies below it; what lies below it lies below a child.
\* bytes[n] are the key bytes of the children of n.
Laminar(tree, rep, end, start, bytes) ==
    /\ \A m, n \in tree :
          Extends(rep, end, m, n, start[n]) => Extends(rep, end, m, n, end[n])
    /\ \A m, n \in tree :
          m # n /\ Extends(rep, end, m, n, end[n]) =>
              end[n] < end[m] /\ rep[m][end[n] + 1] \in bytes[n]

\* kids[n] is the function from key bytes to the children of n, empty for a leaf.
\* The root is r, every node in the tree is reached by one path, and the path is the
\* beginning of its label.
Paths(r, kids, tree, rep, end, start) ==
    /\ r = Nil => tree = {}
    /\ r # Nil => r \in tree /\ start[r] = 0
    /\ \A n \in tree : start[n] <= end[n]
    /\ \A n \in tree : \A b \in DOMAIN kids[n] :
          /\ kids[n][b] \in tree
          /\ start[kids[n][b]] = end[n] + 1
          /\ SameTo(rep[kids[n][b]], rep[n], end[n])
          /\ rep[kids[n][b]][end[n] + 1] = b
    /\ \A n \in tree : n # r =>
          \E p \in tree : \E b \in DOMAIN kids[p] : kids[p][b] = n
    /\ Laminar(tree, rep, end, start, [n \in tree |-> DOMAIN kids[n]])

\* The prefix of an inode is the rest of its label.
PrefixesFit(tree, rep, end, start) ==
    \A n \in tree : IsInode(n) =>
        /\ Len(nodes[n].prefix) = end[n] - start[n]
        /\ \A i \in 1 .. Len(nodes[n].prefix) : nodes[n].prefix[i] = rep[n][start[n] + i]

MapFits(tree) ==
    /\ \A n \in tree : IsLeaf(n) => map[nodes[n].key] = n
    /\ \A k \in Key : map[k] # Nil =>
          map[k] \in tree /\ IsLeaf(map[k]) /\ nodes[map[k]].key = k

RetiredFits(tree) ==
    /\ \A n \in Node : IsUsed(n) /\ n \notin tree => is_obsolete(word[n])
    /\ \A n \in tree : is_obsolete(word[n]) => \E t \in Thread : Retired(t, n)
    /\ \A n \in Node : ~IsUsed(n) => word[n] = 0

TreeFits(tree, rep, end, start) ==
    /\ TreeTypes(tree, rep, end, start)
    /\ LabelsFit(rep, end)
    /\ SizesFit
    /\ Paths(root, kidsOf, tree, rep, end, start)
    /\ PrefixesFit(tree, rep, end, start)
    /\ MapFits(tree)

(***************************************************************************)
(* What a thread knows.                                                    *)
(***************************************************************************)
\* The rest of the list will succeed as things are.
Valid(t) == \A i \in DOMAIN todo[t] :
    todo[t][i].do \in {"check", "upgrade"} => word[todo[t][i].on] = todo[t][i].ver
Current(t, r) == word[at[t][r]] = ver[t][r]

\* n is where p, or the root pointer, points to for the key k.
Linked(tree, rep, end, k, p, n) ==
    IF p = Nil THEN root = n
    ELSE /\ p \in tree /\ IsInode(p)
         /\ SameTo(k, rep[p], end[p])
         /\ k[end[p] + 1] \in DOMAIN nodes[p].kids
         /\ nodes[p].kids[k[end[p] + 1]] = n

ThreadTypes(t, rep, end) ==
    LET p == at[t]["parent"]
        n == at[t]["node"]
        c == at[t]["child"]
    IN /\ depth[t] \in Nat
       /\ result[t] \in Lock
       /\ \A r \in Role : at[t][r] # Nil => IsUsed(at[t][r])
       /\ \A i \in DOMAIN todo[t] : todo[t][i].on # Nil => IsUsed(todo[t][i].on)
       /\ \A i \in DOMAIN held[t] : held[t][i] # Nil => IsUsed(held[t][i])
       /\ pc[t] # "idle" => key[t] \in Key /\ op[t] # "none" /\ map[key[t]] \in seen[t]
       /\ pc[t] \in HasNode => /\ IsUsed(n)
                               /\ p # Nil => IsInode(p) /\ end[p] < end[n]
       /\ pc[t] \in HasInode => IsInode(n)
       /\ pc[t] \in HasChildNode => /\ IsUsed(c) /\ end[n] < end[c]
       /\ pc[t] \in RemovesChild => IsLeaf(c) /\ nodes[c].key = key[t] /\ result[t] = c
       /\ pc[t] \in {"split_leaf", "remove_root"} => IsLeaf(n)
       /\ pc[t] = "insert_root" => p = Nil
       /\ pc[t] = "remove_root" => p = Nil /\ nodes[n].key = key[t] /\ result[t] = n
       /\ pc[t] = "split_leaf" => nodes[n].key # key[t]
       /\ op[t] = "remove" /\ pc[t] = "lock_node" => p = Nil
       /\ op[t] = "remove" /\ pc[t] = "at_node" => p = Nil \/ IsInode(n)
       /\ pc[t] \in Inserts => op[t] = "insert" /\ result[t] = Nil
       /\ pc[t] \in {"lock_child", "at_child"} => op[t] = "remove"
       /\ pc[t] \in {"idle", "root_lock", "load_root"} => depth[t] = 0
       /\ pc[t] \in RemovesChild \cup {"remove_root"} => op[t] = "remove"
       /\ t \in torn => op[t] = "get" /\ pc[t] # "idle"
       \* A remove that has found another key in a root that is a leaf.
       /\ /\ op[t] = "remove" /\ pc[t] \in {"lock_node", "at_node"}
          /\ IsLeaf(n) /\ nodes[n].key # key[t]
          => Nil \in seen[t]

\* The thread is at the node its key leads to.  (The path to a leaf may become
\* shorter after a get has reached it, which does not use its depth there.)
OnPath(t, tree, rep, start) ==
    LET n == at[t]["node"]
    IN /\ n \in tree
       /\ SameTo(key[t], rep[n], start[n])
       /\ IsInode(n) \/ op[t] # "get" => depth[t] = start[n]
\* It has matched the inode's prefix too.
PastPrefix(t, tree, rep, end) ==
    LET n == at[t]["node"]
    IN n \in tree /\ depth[t] = end[n] /\ SameTo(key[t], rep[n], end[n])

\* The child it has read is that of the key's next byte.
ToChild(t, end) ==
    LET n == at[t]["node"]
        b == key[t][end[n] + 1]
    IN b \in DOMAIN nodes[n].kids /\ nodes[n].kids[b] = at[t]["child"]

OnLink(t, tree, rep, end) ==
    Linked(tree, rep, end, key[t], at[t]["parent"], at[t]["node"])

\* A get that has checked the parent does not look at it again.
ParentOK(t) == Current(t, "parent") \/ (op[t] = "get" /\ todo[t] = <<>>)

Believes(t, tree, rep, end, start) ==
    LET n == at[t]["node"]
    IN /\ pc[t] = "lock_node" /\ Current(t, "parent") =>
              OnLink(t, tree, rep, end) /\ OnPath(t, tree, rep, start)
       /\ pc[t] = "at_node" /\ ParentOK(t) /\ Current(t, "node") =>
              /\ OnPath(t, tree, rep, start)
              /\ Current(t, "parent") => OnLink(t, tree, rep, end)
       /\ pc[t] = "find_child" /\ ParentOK(t) /\ Current(t, "node") =>
              /\ PastPrefix(t, tree, rep, end)
              /\ Current(t, "parent") => OnLink(t, tree, rep, end)
       /\ pc[t] \in {"lock_child", "at_child"} /\ Current(t, "parent") /\ Current(t, "node") =>
              /\ PastPrefix(t, tree, rep, end)
              /\ OnLink(t, tree, rep, end)
              /\ ToChild(t, end)
       /\ pc[t] = "insert_root" => root = Nil
       /\ pc[t] \in {"split_leaf", "split_prefix"} =>
              OnLink(t, tree, rep, end) /\ OnPath(t, tree, rep, start)
       /\ pc[t] = "split_prefix" => ~SameTo(key[t], rep[n], end[n])
       /\ pc[t] \in {"add_to_nonfull", "grow"} =>
              PastPrefix(t, tree, rep, end) /\ key[t][end[n] + 1] \notin DOMAIN nodes[n].kids
       /\ pc[t] = "add_to_nonfull" => ~is_full(nodes[n])
       /\ pc[t] = "grow" => OnLink(t, tree, rep, end) /\ is_full(nodes[n])
       /\ pc[t] = "remove_root" => root = n
       /\ pc[t] \in RemovesChild => PastPrefix(t, tree, rep, end) /\ ToChild(t, end)
       /\ pc[t] = "remove_child" => ~is_min_size(nodes[n])
       /\ pc[t] \in {"leave_last_child", "shrink"} =>
              OnLink(t, tree, rep, end) /\ is_min_size(nodes[n])
       /\ pc[t] = "leave_last_child" => nodes[n].class = 1
       /\ pc[t] = "shrink" => nodes[n].class # 1
       /\ pc[t] = "return" => result[t] \in seen[t]

\* What a thread believes is so, if the rest of its list succeeds.
Knows(t, tree, rep, end, start) ==
    Valid(t) /\ t \notin torn => Believes(t, tree, rep, end, start)

Inv(tree, rep, end, start) ==
    /\ LockInv
    /\ TreeFits(tree, rep, end, start)
    /\ RetiredFits(tree)
    /\ \A t \in Thread : ThreadTypes(t, rep, end) /\ Knows(t, tree, rep, end, start)

\* The keys to load are keys, and some labelling of the nodes fits.
Consistent == load \in Seq(Key) /\ \E tree, rep, end, start : Inv(tree, rep, end, start)

(***************************************************************************)
(* What one who only reads, without a lock, sees of a step that takes one  *)
(* labelling to another.                                                   *)
(***************************************************************************)
\* Versions do not come back, nodes keep their labels and leaves their keys; while a
\* lock is free what it guards stays, except that the path to a node may become shorter
\* when leave_last_child merges it with its parent.
Observed(tree, rep, end, start, tree2, rep2, end2, start2) ==
    /\ \A l \in Lock, v \in Nat : Past(l, v) => Past(l, v)' /\ (word'[l] = v => word[l] = v)
    /\ \A l \in Node : IsUsed(l) =>
          /\ IsUsed(l)' /\ rep2[l] = rep[l] /\ end2[l] = end[l]
          /\ nodes'[l].kind = nodes[l].kind
          /\ IsLeaf(l) => nodes'[l] = nodes[l]
          /\ IsInode(l) /\ word[l] % 4 = 0 => nodes'[l].kids = nodes[l].kids
    /\ word[Nil] % 4 = 0 => root' = root
    /\ \A l \in tree : word[l] % 4 = 0 =>
          /\ l \in tree2 /\ start2[l] <= start[l]
          /\ start2[l] # start[l] =>
                /\ \E p \in tree : /\ word[p] % 4 # 0 /\ IsInode(p)
                                   /\ \E b \in DOMAIN nodes[p].kids : nodes[p].kids[b] = l
                /\ \E t \in Thread : /\ Ready(t, "leave_last_child") /\ pc'[t] = "return"
                                     /\ l = survivor(t)
===============================================================================
