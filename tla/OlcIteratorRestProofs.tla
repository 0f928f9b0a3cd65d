------------------------ MODULE OlcIteratorRestProofs ------------------------
(***************************************************************************)
(* The threads beside the scanner: for them OlcIterator is OlcArt.  What   *)
(* OlcArtProofs proves of OlcArt, with the threads other than Scanner as   *)
(* its threads, holds here too, and the scanner sees of their steps what   *)
(* OlcArtShape's Observed says.                                            *)
(***************************************************************************)
EXTENDS OlcIteratorShape, TLAPS, FiniteSetTheorems

Rest == INSTANCE OlcArtProofs WITH
    Thread <- Others,
    left <- [t \in Others |-> left[t]], op <- [t \in Others |-> op[t]],
    key <- [t \in Others |-> key[t]], pc <- [t \in Others |-> pc[t]],
    depth <- [t \in Others |-> depth[t]], at <- [t \in Others |-> at[t]],
    ver <- [t \in Others |-> ver[t]], todo <- [t \in Others |-> todo[t]],
    held <- [t \in Others |-> held[t]], result <- [t \in Others |-> result[t]],
    seen <- [t \in Others |-> seen[t]], torn <- torn \ {Scanner}

(***************************************************************************)
(* The same definitions on both sides.                                     *)
(***************************************************************************)
\* Nodes and locks are the same.
LEMMA SameNodes ==
    /\ Rest!Nil = Nil /\ Rest!Node = Node /\ Rest!Lock = Lock /\ Rest!Unused = Unused
    /\ Rest!Nowhere = Nowhere /\ Rest!Role = Role
  BY DEF Rest!Nil, Nil, Rest!Node, Node, Rest!Lock, Lock, Rest!Unused, Unused,
         Rest!Nowhere, Nowhere, Rest!Role, Role

\* So are finite sets.
LEMMA SameSets ==
    /\ \A S : Rest!IsFiniteSet(S) <=> IsFiniteSet(S)
    /\ \A S : Rest!Cardinality(S) = Cardinality(S)
<1>1. \A S : Rest!IsFiniteSet(S) <=> IsFiniteSet(S)
  BY DEF IsFiniteSet, Rest!IsFiniteSet
<1>2. \A S : Rest!Cardinality(S) = Cardinality(S)
  BY DEF Cardinality, Rest!Cardinality
<1> QED
  BY <1>1, <1>2

\* There are threads other than the scanner, the loader among them.
LEMMA OthersExist == IsFiniteSet(Others) /\ Loader \in Others /\ Others \subseteq Thread
  BY ThreadAssumption, ScannerAssumption, FS_Subset DEF Others

\* The assumptions of OlcArt hold for them.
LEMMA RestAssumptions ==
    /\ Rest!KeyAssumption /\ Rest!CapAssumption /\ Rest!PrefixAssumption
    /\ Rest!ThreadAssumption /\ Rest!LoadAssumption /\ Rest!BoundAssumption
    /\ Rest!LengthAssumption
  BY SameSets, OthersExist, KeyAssumption, CapAssumption, PrefixAssumption, LoadAssumption,
     BoundAssumption, LengthAssumption

\* Operators on keys, nodes and lock words.
LEMMA SameOps ==
    /\ \A k, i : Rest!ByteAt(k, i) = ByteAt(k, i)
    /\ \A p, k, d : Rest!get_shared_length(p, k, d) = get_shared_length(p, k, d)
    /\ \A p, n : Rest!cut(p, n) = cut(p, n)
    /\ \A f, b, n : Rest!add(f, b, n) = add(f, b, n)
    /\ \A f, b : Rest!drop(f, b) = drop(f, b)
    /\ \A p, q, r : Rest!prepend(p, q, r) = prepend(p, q, r)
    /\ \A c, p, f : Rest!Inode(c, p, f) = Inode(c, p, f)
    /\ \A k : Rest!Leaf(k) = Leaf(k)
    /\ \A n, k : Rest!matches(n, k) <=> matches(n, k)
    /\ \A ls : Rest!Unlocks(ls) = Unlocks(ls)
    /\ \A w : Rest!is_free(w) <=> is_free(w)
    /\ \A w : Rest!is_obsolete(w) <=> is_obsolete(w)
    /\ Rest!obsolete_lock_word = obsolete_lock_word
    /\ Rest!shrink_steps = shrink_steps
  BY DEF ByteAt, Rest!ByteAt, get_shared_length, Rest!get_shared_length, cut, Rest!cut,
         add, Rest!add, drop, Rest!drop, prepend, Rest!prepend, Inode, Rest!Inode,
         Leaf, Rest!Leaf, matches, Rest!matches, Unlocks, Rest!Unlocks, is_free, Rest!is_free,
         is_obsolete, Rest!is_obsolete, obsolete_lock_word, Rest!obsolete_lock_word,
         shrink_steps, Rest!shrink_steps

\* Sizes of nodes and prefixes.
LEMMA SameSizes ==
    /\ \A n : Rest!is_full(n) <=> is_full(n)
    /\ \A c : Rest!min_size(c) = min_size(c)
    /\ \A n : Rest!is_min_size(n) <=> is_min_size(n)
    /\ \A k, j, d : Rest!common_prefix(k, j, d) = common_prefix(k, j, d)
    /\ Rest!used = used
    /\ \A i : Rest!fresh(i) = fresh(i)
  BY SameOps, SameSets, SameNodes
     DEF is_full, Rest!is_full, is_min_size, Rest!is_min_size, min_size, Rest!min_size,
         common_prefix, Rest!common_prefix, used, Rest!used, fresh, Rest!fresh

(***************************************************************************)
(* What the others' steps mean to the scanner.                             *)
(***************************************************************************)
\* A node that has left the tree is not free.
View(tree, rep, end, start) ==
    /\ TreeFits(tree, rep, end, start)
    /\ word \in [Lock -> Nat]
    /\ \A n \in Node : IsUsed(n) /\ n \notin tree => word[n] % 4 # 0

\* Kinds of nodes.
LEMMA SameKinds ==
    /\ \A n : Rest!IsUsed(n) <=> IsUsed(n)
    /\ \A n : Rest!IsLeaf(n) <=> IsLeaf(n)
    /\ \A n : Rest!IsInode(n) <=> IsInode(n)
    /\ \A n : Rest!IsUsed(n)' <=> IsUsed(n)'
    /\ \A n : Rest!IsLeaf(n)' <=> IsLeaf(n)'
    /\ \A n : Rest!IsInode(n)' <=> IsInode(n)'
    /\ Rest!kidsOf = kidsOf
    /\ Rest!kidsOf' = kidsOf'
    /\ Rest!used' = used'
  BY SameNodes, SameSets
     DEF IsUsed, Rest!IsUsed, IsLeaf, Rest!IsLeaf, IsInode, Rest!IsInode, kidsOf, Rest!kidsOf,
         used, Rest!used

\* Definitions about labels, of no variable.
LEMMA SameLabels ==
    /\ \A a, b, i : Rest!SameTo(a, b, i) <=> SameTo(a, b, i)
    /\ \A tree, rep, end, start, bytes :
          Rest!Laminar(tree, rep, end, start, bytes) <=> Laminar(tree, rep, end, start, bytes)
    /\ \A r, kids, tree, rep, end, start :
          Rest!Paths(r, kids, tree, rep, end, start) <=> Paths(r, kids, tree, rep, end, start)
    /\ Rest!AnyNode = AnyNode /\ Rest!Bytes = Bytes
<1>1. \A a, b, i : Rest!SameTo(a, b, i) <=> SameTo(a, b, i)
  BY DEF SameTo, Rest!SameTo
<1>2. \A rep, end, m, n, i : Rest!Extends(rep, end, m, n, i) <=> Extends(rep, end, m, n, i)
  BY <1>1 DEF Extends, Rest!Extends
<1>3. \A tree, rep, end, start, bytes :
         Rest!Laminar(tree, rep, end, start, bytes) <=> Laminar(tree, rep, end, start, bytes)
  BY <1>2 DEF Laminar, Rest!Laminar
<1>4. \A r, kids, tree, rep, end, start :
         Rest!Paths(r, kids, tree, rep, end, start) <=> Paths(r, kids, tree, rep, end, start)
  BY <1>1, <1>3, SameNodes DEF Paths, Rest!Paths
<1>5. Rest!AnyNode = AnyNode /\ Rest!Bytes = Bytes
  BY SameNodes DEF AnyNode, Rest!AnyNode, Kids, Rest!Kids, Bytes, Rest!Bytes
<1> QED
  BY <1>1, <1>3, <1>4, <1>5

\* The tree that the others keep is the one that the scanner reads.
LEMMA SameFits ==
    ASSUME NEW tree, NEW rep, NEW end, NEW start
    PROVE  /\ Rest!TreeFits(tree, rep, end, start) => TreeFits(tree, rep, end, start)
           /\ Rest!TreeFits(tree, rep, end, start)' => TreeFits(tree, rep, end, start)'
<1>1. ASSUME Rest!TreeFits(tree, rep, end, start) PROVE TreeFits(tree, rep, end, start)
  <2>1. TreeTypes(tree, rep, end, start)
    BY <1>1, SameNodes, SameSizes, SameLabels DEF Rest!TreeFits, Rest!TreeTypes, TreeTypes
  <2>2. LabelsFit(rep, end)
    BY <1>1, SameNodes, SameKinds, SameLabels
       DEF Rest!TreeFits, Rest!LabelsFit, LabelsFit, Rest!GoodKid, GoodKid
  <2>3. SizesFit
    BY <1>1, SameNodes, SameKinds, SameSizes, SameSets
       DEF Rest!TreeFits, Rest!SizesFit, SizesFit, Rest!SizeFits, SizeFits
  <2>4. Paths(root, kidsOf, tree, rep, end, start)
    BY <1>1, SameKinds, SameLabels DEF Rest!TreeFits
  <2>5. PrefixesFit(tree, rep, end, start)
    BY <1>1, SameKinds DEF Rest!TreeFits, Rest!PrefixesFit, PrefixesFit
  <2>6. MapFits(tree)
    BY <1>1, SameNodes, SameKinds DEF Rest!TreeFits, Rest!MapFits, MapFits
  <2> QED
    BY <2>1, <2>2, <2>3, <2>4, <2>5, <2>6 DEF TreeFits
<1>2. ASSUME Rest!TreeFits(tree, rep, end, start)' PROVE TreeFits(tree, rep, end, start)'
  <2>1. TreeTypes(tree, rep, end, start)'
    BY <1>2, SameNodes, SameKinds, SameLabels DEF Rest!TreeFits, Rest!TreeTypes, TreeTypes
  <2>2. LabelsFit(rep, end)'
    BY <1>2, SameNodes, SameKinds, SameLabels
       DEF Rest!TreeFits, Rest!LabelsFit, LabelsFit, Rest!GoodKid, GoodKid
  <2>3. SizesFit'
    BY <1>2, SameNodes, SameKinds, SameSizes, SameSets
       DEF Rest!TreeFits, Rest!SizesFit, SizesFit, Rest!SizeFits, SizeFits
  <2>4. Paths(root, kidsOf, tree, rep, end, start)'
    BY <1>2, SameKinds, SameLabels DEF Rest!TreeFits
  <2>5. PrefixesFit(tree, rep, end, start)'
    BY <1>2, SameKinds DEF Rest!TreeFits, Rest!PrefixesFit, PrefixesFit
  <2>6. MapFits(tree)'
    BY <1>2, SameNodes, SameKinds DEF Rest!TreeFits, Rest!MapFits, MapFits
  <2> QED
    BY <2>1, <2>2, <2>3, <2>4, <2>5, <2>6 DEF TreeFits
<1> QED
  BY <1>1, <1>2

\* The invariant of the others, as the scanner sees it.
LEMMA RestView ==
    ASSUME NEW tree, NEW rep, NEW end, NEW start
    PROVE  /\ Rest!Inv(tree, rep, end, start) => View(tree, rep, end, start)
           /\ Rest!Inv(tree, rep, end, start)' => View(tree, rep, end, start)'
<1>0. \A w : w = 1 => w % 4 # 0
  OBVIOUS
<1>1. ASSUME Rest!Inv(tree, rep, end, start) PROVE View(tree, rep, end, start)
  <2>1. word \in [Lock -> Nat]
    BY <1>1, SameNodes DEF Rest!Inv, Rest!LockInv, Rest!LockTypes
  <2>2. \A n \in Node : IsUsed(n) /\ n \notin tree => is_obsolete(word[n])
    BY <1>1, SameNodes, SameKinds, SameOps DEF Rest!Inv, Rest!RetiredFits
  <2> QED
    BY <1>0, <1>1, <2>1, <2>2, SameFits DEF View, Rest!Inv, is_obsolete, obsolete_lock_word
<1>2. ASSUME Rest!Inv(tree, rep, end, start)' PROVE View(tree, rep, end, start)'
  <2>1. word' \in [Lock -> Nat]
    BY <1>2, SameNodes DEF Rest!Inv, Rest!LockInv, Rest!LockTypes
  <2>2. \A n \in Node : IsUsed(n)' /\ n \notin tree => is_obsolete(word'[n])
    BY <1>2, SameNodes, SameKinds, SameOps DEF Rest!Inv, Rest!RetiredFits
  <2> QED
    BY <1>0, <1>2, <2>1, <2>2, SameFits DEF View, Rest!Inv, is_obsolete, obsolete_lock_word
<1> QED
  BY <1>1, <1>2

\* The invariant of the others at the beginning.
LEMMA RestBegins ==
    ASSUME Rest!Init
    PROVE  load \in Seq(Key) /\ \E tree, rep, end, start : Rest!Inv(tree, rep, end, start)
  BY Rest!InitConsistent, RestAssumptions DEF Rest!Consistent

(***************************************************************************)
(* A step of another thread is a step of OlcArt.                           *)
(***************************************************************************)
IsOnThreads(f) == f = [t \in Thread |-> f[t]]
\* What each thread has is a function on the threads.
OnThreads ==
    /\ IsOnThreads(left) /\ IsOnThreads(op) /\ IsOnThreads(key) /\ IsOnThreads(pc)
    /\ IsOnThreads(depth) /\ IsOnThreads(at) /\ IsOnThreads(ver) /\ IsOnThreads(todo)
    /\ IsOnThreads(held) /\ IsOnThreads(result) /\ IsOnThreads(seen)

\* What a thread reads.
LEMMA SameReads ==
    ASSUME NEW t \in Others
    PROVE  /\ \A l : Rest!Ready(t, l) <=> Ready(t, l)
           /\ \A r : Rest!NodeOf(t, r) = NodeOf(t, r)
           /\ Rest!shared(t) = shared(t)
           /\ Rest!NextByte(t) = NextByte(t)
           /\ Rest!HasChild(t) <=> HasChild(t)
           /\ Rest!find_child(t) = find_child(t)
           /\ Rest!AtInode(t) <=> AtInode(t)
           /\ \A o : Rest!AtLeaf(t, o) <=> AtLeaf(t, o)
           /\ Rest!PrefixDiffers(t) <=> PrefixDiffers(t)
<1>1. \A l : Rest!Ready(t, l) <=> Ready(t, l)
  BY DEF Ready, Rest!Ready
<1>2. \A r : Rest!NodeOf(t, r) = NodeOf(t, r)
  BY DEF NodeOf, Rest!NodeOf
<1>3. Rest!shared(t) = shared(t)
  BY <1>2, SameOps DEF shared, Rest!shared
<1>4. Rest!NextByte(t) = NextByte(t)
  BY SameOps DEF NextByte, Rest!NextByte
<1>5. (Rest!HasChild(t) <=> HasChild(t)) /\ Rest!find_child(t) = find_child(t)
  BY <1>2, <1>4 DEF HasChild, Rest!HasChild, find_child, Rest!find_child
<1>6. (Rest!AtInode(t) <=> AtInode(t)) /\ \A o : Rest!AtLeaf(t, o) <=> AtLeaf(t, o)
  BY <1>1, <1>2 DEF AtInode, Rest!AtInode, AtLeaf, Rest!AtLeaf
<1>7. Rest!PrefixDiffers(t) <=> PrefixDiffers(t)
  <2>1. NodeOf(t, "node") = Rest!NodeOf(t, "node")
    BY <1>2
  <2> QED
    BY <1>3, <1>6, <2>1 DEF PrefixDiffers, Rest!PrefixDiffers
<1> QED
  BY <1>1, <1>2, <1>3, <1>4, <1>5, <1>6, <1>7

\* Their steps, likewise.
LEMMA RestObserved ==
    ASSUME NEW tree, NEW rep, NEW end, NEW start, NEW tree2, NEW rep2, NEW end2, NEW start2,
           Rest!Observed(tree, rep, end, start, tree2, rep2, end2, start2)
    PROVE  Observed(tree, rep, end, start, tree2, rep2, end2, start2)
<1>1. \A l, v : (Rest!Past(l, v) <=> Past(l, v)) /\ (Rest!Past(l, v)' <=> Past(l, v)')
  BY DEF Past, Rest!Past, is_obsolete, Rest!is_obsolete, obsolete_lock_word,
         Rest!obsolete_lock_word
<1>2. \A l : \A t \in Others :
         Rest!Ready(t, "leave_last_child") /\ [u \in Others |-> pc'[u]][t] = "return"
            /\ l = Rest!survivor(t)
         => Ready(t, "leave_last_child") /\ pc'[t] = "return" /\ l = survivor(t)
  BY SameReads DEF survivor, Rest!survivor
<1> QED
  BY <1>1, <1>2, SameNodes, SameKinds, OthersExist DEF Observed, Rest!Observed

\* A step of the others keeps it.
LEMMA RestGoesOn ==
    ASSUME NEW tree, NEW rep, NEW end, NEW start, Rest!Inv(tree, rep, end, start),
           load \in Seq(Key), [Rest!Next]_(Rest!vars)
    PROVE  /\ load' \in Seq(Key)
           /\ \E tree2, rep2, end2, start2 :
                 /\ Rest!Inv(tree2, rep2, end2, start2)'
                 /\ Observed(tree, rep, end, start, tree2, rep2, end2, start2)
<1>1. /\ load' \in Seq(Key)
      /\ \E tree2, rep2, end2, start2 :
            /\ Rest!Inv(tree2, rep2, end2, start2)'
            /\ Rest!Observed(tree, rep, end, start, tree2, rep2, end2, start2)
  BY Rest!NextObserved, RestAssumptions
<1> QED
  BY <1>1, RestObserved

\* The parts that steps are made of.
LEMMA SameGoto ==
    ASSUME OnThreads, NEW t \in Others, NEW label, Goto(t, label)
    PROVE  Rest!Goto(t, label)
  BY DEF OnThreads, IsOnThreads, Others, Goto, Rest!Goto

\* Lists of lock accesses.
LEMMA SamePlan ==
    ASSUME OnThreads, NEW t \in Others, NEW steps, Plan(t, steps)
    PROVE  Rest!Plan(t, steps)
  BY DEF OnThreads, IsOnThreads, Others, Plan, Rest!Plan

\* Ends of operations.
LEMMA SameReturn ==
    ASSUME OnThreads, NEW t \in Others, NEW r, NEW steps, Return(t, r, steps)
    PROVE  Rest!Return(t, r, steps)
  BY SameGoto, SamePlan DEF OnThreads, IsOnThreads, Others, Return, Rest!Return

\* Beginnings of write sections.
LEMMA SameCommit ==
    ASSUME OnThreads, NEW t \in Others, NEW label, NEW r, NEW steps, Commit(t, label, r, steps)
    PROVE  Rest!Commit(t, label, r, steps)
  BY SameGoto, SamePlan DEF OnThreads, IsOnThreads, Others, Commit, Rest!Commit

\* Turns of the descent.
LEMMA SameDescend ==
    ASSUME OnThreads, NEW t \in Others, NEW c, NEW v, Descend(t, c, v)
    PROVE  Rest!Descend(t, c, v)
  BY SameNodes DEF OnThreads, IsOnThreads, Others, Descend, Rest!Descend

\* Beginnings of operations.
LEMMA SameStart ==
    ASSUME OnThreads, NEW t \in Others, NEW o, NEW k, Start(t, o, k)
    PROVE  Rest!Start(t, o, k)
  BY SameGoto, SameNodes
     DEF OnThreads, IsOnThreads, Others, Start, Rest!Start, treeVars, Rest!treeVars,
         rcsVars, Rest!rcsVars

\* Leaving an operation.
LEMMA SameLeave ==
    ASSUME OnThreads, NEW t \in Others, Leave(t)
    PROVE  Rest!Leave(t)
  BY SameGoto, SameNodes
     DEF OnThreads, IsOnThreads, Others, Leave, Rest!Leave, treeVars, Rest!treeVars

\* Starting over.
LEMMA SameRestart ==
    ASSUME OnThreads, NEW t \in Others, Restart(t)
    PROVE  Rest!Restart(t)
  BY SameGoto, SameOps, SameNodes
     DEF OnThreads, IsOnThreads, Others, Restart, Rest!Restart, treeVars, Rest!treeVars,
         opVars, Rest!opVars

\* Write sections, apart from what they write.
LEMMA SameWriteSection ==
    ASSUME OnThreads, NEW t \in Others, NEW label, WriteSection(t, label)
    PROVE  Rest!WriteSection(t, label)
  BY SameGoto, SameOps, SameReads
     DEF OnThreads, IsOnThreads, Others, WriteSection, Rest!WriteSection,
         rcsVars, Rest!rcsVars, opVars, Rest!opVars

\* What they record.
LEMMA SameBind ==
    ASSUME OnThreads, NEW k, NEW leaf
    PROVE  /\ Rebind(k, leaf) => Rest!Rebind(k, leaf)
           /\ Bind(k, leaf) => Rest!Bind(k, leaf)
  BY DEF OnThreads, IsOnThreads, Others, Rebind, Rest!Rebind, Bind, Rest!Bind

\* The pointer to a node.
LEMMA SameSetInParent ==
    ASSUME NEW t \in Others, NEW nd, NEW n, SetInParent(t, nd, n)
    PROVE  Rest!SetInParent(t, nd, n)
  BY SameNodes DEF SetInParent, Rest!SetInParent

\* Operations begin and end.
LEMMA SameOperation ==
    ASSUME OnThreads, NEW t \in Others
    PROVE  /\ \A o, k : begin(t, o, k) => Rest!begin(t, o, k)
           /\ return(t) => Rest!return(t)
<1>1. ASSUME NEW o, NEW k, begin(t, o, k) PROVE Rest!begin(t, o, k)
  <2>1. left' = [left EXCEPT ![t] = left[t] - 1]
    BY <1>1 DEF begin
  <2>2. [u \in Others |-> left'[u]]
           = [[u \in Others |-> left[u]] EXCEPT ![t] = [u \in Others |-> left[u]][t] - 1]
    BY <2>1 DEF OnThreads, IsOnThreads, Others
  <2> QED
    BY <1>1, <2>2, SameStart, OthersExist DEF begin, Rest!begin
<1>2. return(t) => Rest!return(t)
  BY SameLeave, SameReads DEF return, Rest!return
<1> QED
  BY <1>1, <1>2

\* The loader begins.
LEMMA SameLoad ==
    ASSUME OnThreads, begin_load
    PROVE  Rest!begin_load
<1>1. PICK k : k = Head(load) /\ Start(Loader, "insert", k)
  BY DEF begin_load, Start
<1>2. Rest!Start(Loader, "insert", k)
  BY <1>1, SameStart, OthersExist
<1>3. [t \in Others |-> pc[t]][Loader] = pc[Loader]
  BY OthersExist
<1> QED
  BY <1>1, <1>2, <1>3 DEF begin_load, Rest!begin_load, Rest!Start

\* Accesses to lock words.
LEMMA SameLocking ==
    ASSUME OnThreads, NEW t \in Others, Locking(t)
    PROVE  Rest!Locking(t)
<1> USE DEF treeVars, historyVars, opVars, rcsVars, Rest!treeVars, Rest!historyVars,
            Rest!opVars, Rest!rcsVars
<1>1. ASSUME try_read_lock_root(t) PROVE Rest!try_read_lock_root(t)
  BY <1>1, SameReads, SameGoto, SameNodes, SameOps
     DEF OnThreads, IsOnThreads, Others, try_read_lock_root, Rest!try_read_lock_root
<1>2. ASSUME NEW r \in {"node", "child"}, try_read_lock(t, r) PROVE Rest!try_read_lock(t, r)
  BY <1>2, SameReads, SameGoto, SamePlan, SameNodes, SameOps
     DEF OnThreads, IsOnThreads, Others, try_read_lock, Rest!try_read_lock
<1>3. ASSUME NEW r \in {"node", "child"}, try_read_lock_obsolete(t, r)
      PROVE  Rest!try_read_lock_obsolete(t, r)
  BY <1>3, SameReads, SameRestart, SameOps DEF try_read_lock_obsolete, Rest!try_read_lock_obsolete
<1>4. /\ \A d : Rest!Must(t, d) <=> Must(t, d)
      /\ Rest!SameVersion(t) <=> SameVersion(t)
      /\ \A w : SetWord(t, w) => Rest!SetWord(t, w)
  BY DEF Must, Rest!Must, SameVersion, Rest!SameVersion, SetWord, Rest!SetWord
<1>5. Done(t) => Rest!Done(t)
  BY DEF OnThreads, IsOnThreads, Others, Done, Rest!Done
<1>6. ASSUME check(t) PROVE Rest!check(t)
  BY <1>4, <1>5, <1>6 DEF check, Rest!check
<1>7. ASSUME try_upgrade_to_write_lock(t) PROVE Rest!try_upgrade_to_write_lock(t)
  BY <1>4, <1>5, <1>7
     DEF OnThreads, IsOnThreads, Others, try_upgrade_to_write_lock, Rest!try_upgrade_to_write_lock
<1>8. ASSUME version_mismatch(t) PROVE Rest!version_mismatch(t)
  BY <1>4, <1>8, SameRestart DEF version_mismatch, Rest!version_mismatch
<1>9. ASSUME unlock_and_obsolete(t) PROVE Rest!unlock_and_obsolete(t)
  <2> DEFINE q == held[t]
             i == CHOOSE j \in DOMAIN q : q[j] = Head(todo[t]).on
             q2 == SubSeq(q, 1, i - 1) \o SubSeq(q, i + 1, Len(q))
  <2>1. /\ Must(t, "obsolete") /\ SetWord(t, obsolete_lock_word) /\ Done(t)
        /\ held' = [held EXCEPT ![t] = q2]
        /\ UNCHANGED <<root, nodes, map, seen, torn, load, left, op, key, pc, depth, at, ver>>
        /\ UNCHANGED result
    BY <1>9 DEF unlock_and_obsolete
  <2>2. [u \in Others |-> held[u]][t] = held[t] /\ [u \in Others |-> todo[u]][t] = todo[t]
    OBVIOUS
  <2> HIDE DEF q2
  <2>3. [u \in Others |-> held'[u]] = [[u \in Others |-> held[u]] EXCEPT ![t] = q2]
    BY <2>1 DEF OnThreads, IsOnThreads, Others
  <2> QED
    BY <1>4, <1>5, <2>1, <2>2, <2>3, SameOps DEF Rest!unlock_and_obsolete, q2
<1>10. ASSUME write_unlock(t) PROVE Rest!write_unlock(t)
  BY <1>4, <1>5, <1>10 DEF write_unlock, Rest!write_unlock
<1> QED
  BY <1>1, <1>2, <1>3, <1>6, <1>7, <1>8, <1>9, <1>10 DEF Locking, Rest!Locking

\* Steps that read the tree.
LEMMA SameReading ==
    ASSUME OnThreads, NEW t \in Others, Reading(t)
    PROVE  Rest!Reading(t)
<1> USE DEF treeVars, historyVars, opVars, rcsVars, Rest!treeVars, Rest!historyVars,
            Rest!opVars, Rest!rcsVars
<1>0. [u \in Others |-> op[u]][t] = op[t] /\ [u \in Others |-> key[u]][t] = key[t]
      /\ [u \in Others |-> at[u]][t] = at[t] /\ [u \in Others |-> ver[u]][t] = ver[t]
  OBVIOUS
<1>1. ASSUME load_root(t) PROVE Rest!load_root(t)
  BY <1>1, SameReads, SameGoto, SamePlan, SameNodes
     DEF OnThreads, IsOnThreads, Others, load_root, Rest!load_root
<1>2. ASSUME empty_tree(t) PROVE Rest!empty_tree(t)
  BY <1>0, <1>2, SameReads, SameReturn, SameNodes DEF empty_tree, Rest!empty_tree
<1>3. ASSUME empty_tree_insert(t) PROVE Rest!empty_tree_insert(t)
  BY <1>0, <1>3, SameReads, SameCommit, SameNodes DEF empty_tree_insert, Rest!empty_tree_insert
<1>4. ASSUME get_leaf(t) PROVE Rest!get_leaf(t)
  BY <1>0, <1>4, SameReads, SameReturn, SameNodes, SameOps DEF get_leaf, Rest!get_leaf
<1>5. ASSUME insert_leaf(t) PROVE Rest!insert_leaf(t)
  BY <1>0, <1>5, SameReads, SameReturn, SameCommit, SameNodes, SameOps
     DEF insert_leaf, Rest!insert_leaf
<1>6. ASSUME remove_root_leaf(t) PROVE Rest!remove_root_leaf(t)
  BY <1>0, <1>6, SameReads, SameReturn, SameCommit, SameNodes, SameOps
     DEF remove_root_leaf, Rest!remove_root_leaf
<1>7. ASSUME match_prefix(t) PROVE Rest!match_prefix(t)
  <2>1. depth' = [depth EXCEPT ![t] = depth[t] + shared(t)]
    BY <1>7 DEF match_prefix
  <2>2. [u \in Others |-> depth'[u]] = [[u \in Others |-> depth[u]] EXCEPT
                                          ![t] = [u \in Others |-> depth[u]][t] + shared(t)]
    BY <2>1 DEF OnThreads, IsOnThreads, Others
  <2>3. Rest!NodeOf(t, "node") = NodeOf(t, "node")
    BY SameReads
  <2> QED
    BY <1>7, <2>2, <2>3, SameReads, SameGoto DEF match_prefix, Rest!match_prefix
<1>8. ASSUME get_prefix_differs(t) PROVE Rest!get_prefix_differs(t)
  BY <1>0, <1>8, SameReads, SameReturn, SameNodes DEF get_prefix_differs, Rest!get_prefix_differs
<1>9. ASSUME insert_prefix_differs(t) PROVE Rest!insert_prefix_differs(t)
  BY <1>0, <1>9, SameReads, SameCommit, SameNodes
     DEF insert_prefix_differs, Rest!insert_prefix_differs
<1>10. ASSUME remove_prefix_differs(t) PROVE Rest!remove_prefix_differs(t)
  BY <1>0, <1>10, SameReads, SameReturn, SameNodes
     DEF remove_prefix_differs, Rest!remove_prefix_differs
<1>11. ASSUME get_child(t) PROVE Rest!get_child(t)
  BY <1>0, <1>11, SameReads, SameGoto, SamePlan, SameReturn, SameDescend, SameNodes
     DEF get_child, Rest!get_child
<1>12. ASSUME add_or_choose_subtree(t) PROVE Rest!add_or_choose_subtree(t)
  BY <1>0, <1>12, SameReads, SameGoto, SamePlan, SameCommit, SameDescend, SameNodes, SameSizes
     DEF add_or_choose_subtree, Rest!add_or_choose_subtree
<1>13. ASSUME remove_find_child(t) PROVE Rest!remove_find_child(t)
  BY <1>0, <1>13, SameReads, SameGoto, SamePlan, SameReturn, SameNodes
     DEF OnThreads, IsOnThreads, Others, remove_find_child, Rest!remove_find_child
<1>14. ASSUME remove_or_choose_subtree(t) PROVE Rest!remove_or_choose_subtree(t)
  <2> DEFINE c == at[t]["child"]
             mt == matches(nodes[c], key[t])
             mn == is_min_size(NodeOf(t, "node"))
             Rmt == Rest!matches(nodes[c], key[t])
             Rmn == Rest!is_min_size(Rest!NodeOf(t, "node"))
  <2>1. PICK cc, cv : cc = c /\ cv = ver[t]["child"]
    OBVIOUS
  <2>2. Rest!Ready(t, "at_child") /\ Rest!Nil = Nil /\ Rest!shrink_steps = shrink_steps
    BY <1>14, SameReads, SameNodes, SameOps DEF remove_or_choose_subtree
  <2>3. (Rmt <=> mt) /\ (Rmn <=> mn) /\ Rest!NodeOf(t, "node") = NodeOf(t, "node")
    BY SameReads, SameOps, SameSizes
  <2>4. CASE nodes[c].kind = "inode"
    <3>1. /\ Plan(t, << <<"check", "parent">> >>) /\ Descend(t, cc, cv)
          /\ Goto(t, "at_node") /\ UNCHANGED result
      BY <1>14, <2>1, <2>4 DEF remove_or_choose_subtree, Descend
    <3>2. /\ Rest!Plan(t, << <<"check", "parent">> >>) /\ Rest!Descend(t, cc, cv)
          /\ Rest!Goto(t, "at_node")
      BY <3>1, SamePlan, SameDescend, SameGoto
    <3> QED
      BY <1>0, <1>14, <2>1, <2>2, <2>4, <3>1, <3>2
         DEF remove_or_choose_subtree, Rest!remove_or_choose_subtree, Rest!Descend
  <2>5. CASE nodes[c].kind # "inode" /\ ~mt
    <3>1. Return(t, Nil, << <<"check", "parent">>, <<"check", "node">>, <<"check", "child">> >>)
      BY <1>14, <2>5 DEF remove_or_choose_subtree
    <3>2. Rest!Return(t, Nil, << <<"check", "parent">>, <<"check", "node">>,
                                 <<"check", "child">> >>)
      BY <3>1, SameReturn
    <3> QED
      BY <1>0, <1>14, <2>2, <2>3, <2>5, <3>2
         DEF remove_or_choose_subtree, Rest!remove_or_choose_subtree
  <2>6. CASE nodes[c].kind # "inode" /\ mt /\ ~mn
    <3> DEFINE st == << <<"check", "parent">>, <<"upgrade", "node">>,
                        <<"upgrade", "child">>, <<"obsolete", "child">> >>
    <3>1. Commit(t, "remove_child", cc, st)
      BY <1>14, <2>1, <2>6 DEF remove_or_choose_subtree, Commit
    <3>2. Rest!Commit(t, "remove_child", cc, st)
      BY <3>1, SameCommit
    <3> QED
      BY <1>0, <1>14, <2>1, <2>2, <2>3, <2>6, <3>2
         DEF remove_or_choose_subtree, Rest!remove_or_choose_subtree, Rest!Commit
  <2>7. CASE nodes[c].kind # "inode" /\ mt /\ mn
    <3>0. PICK lb : lb = IF NodeOf(t, "node").class = 1 THEN "leave_last_child" ELSE "shrink"
      OBVIOUS
    <3>1. Commit(t, lb, cc, shrink_steps)
      BY <1>14, <2>1, <2>7, <3>0 DEF remove_or_choose_subtree, Commit, Goto
    <3>2. Rest!Commit(t, lb, cc, shrink_steps)
      BY <3>1, SameCommit
    <3> QED
      BY <1>0, <1>14, <2>1, <2>2, <2>3, <2>7, <3>0, <3>2
         DEF remove_or_choose_subtree, Rest!remove_or_choose_subtree, Rest!Commit, Rest!Goto
  <2> QED
    BY <2>4, <2>5, <2>6, <2>7
<1>15. ASSUME bad_alloc(t) PROVE Rest!bad_alloc(t)
  <2>1. Allocates(t) => Rest!Allocates(t)
    BY <1>0, SameReads, SameNodes, SameOps, SameSizes DEF Allocates, Rest!Allocates
  <2> QED
    BY <1>15, <2>1, SameLeave DEF bad_alloc, Rest!bad_alloc
<1> QED
  BY <1>1, <1>2, <1>3, <1>4, <1>5, <1>6, <1>7, <1>8, <1>9, <1>10, <1>11, <1>12, <1>13, <1>14,
     <1>15 DEF Reading, Rest!Reading

\* Write sections.
LEMMA SameWriting ==
    ASSUME OnThreads, NEW t \in Others, Writing(t)
    PROVE  Rest!Writing(t)
<1>0. [u \in Others |-> depth[u]][t] = depth[t] /\ [u \in Others |-> key[u]][t] = key[t]
      /\ [u \in Others |-> at[u]][t] = at[t] /\ Rest!WithLeaf(t) = WithLeaf(t)
  BY SameSizes, SameOps DEF WithLeaf, Rest!WithLeaf
<1>1. ASSUME insert_root(t) PROVE Rest!insert_root(t)
  <2>1. Rest!WriteSection(t, "insert_root")
    BY <1>1, SameWriteSection DEF insert_root
  <2>2. PICK k, l : k = key[t] /\ l = fresh(1) /\ Bind(k, l)
    BY <1>1 DEF insert_root, Bind, Rebind
  <2>3. Rest!Bind(k, l)
    BY <2>2, SameBind
  <2>4. Rest!fresh(1) = l /\ [u \in Others |-> key[u]][t] = k
    BY <2>2, SameSizes, SameNodes
  <2>5. Rest!Bind([u \in Others |-> key[u]][t], Rest!fresh(1))
    BY <2>3, <2>4 DEF Rest!Bind, Rest!Rebind
  <2> QED
    BY <1>0, <1>1, <2>1, <2>5, SameSizes, SameNodes
       DEF insert_root, Rest!insert_root, Rest!Bind, Rest!Rebind
<1>2. ASSUME split_leaf(t) PROVE Rest!split_leaf(t)
  <2>1. Rest!WriteSection(t, "split_leaf")
    BY <1>2, SameWriteSection DEF split_leaf
  <2>2. PICK k, l : k = key[t] /\ l = fresh(1) /\ Bind(k, l)
    BY <1>2 DEF split_leaf, Bind, Rebind
  <2>3. Rest!Bind(k, l)
    BY <2>2, SameBind
  <2>4. Rest!fresh(1) = l /\ [t_1 \in Others |-> key[t_1]][t] = k
    BY <2>2, SameSizes, SameNodes
  <2>5. PICK n : n = at[t]["node"]
    OBVIOUS
  <2>6. PICK k1 : k1 = nodes[n].key
    OBVIOUS
  <2>7. PICK prefix : prefix = common_prefix(k1, k, depth[t])
    OBVIOUS
  <2>8. PICK d : d = depth[t] + Len(prefix) + 1
    OBVIOUS
  <2>9. PICK kids : kids = add(add(<<>>, k1[d], n), k[d], l)
    OBVIOUS
  <2>10. PICK inode : inode = fresh(2)
    OBVIOUS
  <2>11. PICK nd : nd = [WithLeaf(t) EXCEPT ![inode] = Inode(1, prefix, kids)]
    OBVIOUS
  <2>12. SetInParent(t, nd, inode)
    <3>1. LET m == at[t]["node"]
              j1 == nodes[m].key
              p == common_prefix(j1, key[t], depth[t])
              e == depth[t] + Len(p) + 1
              f == add(add(<<>>, j1[e], m), key[t][e], fresh(1))
          IN SetInParent(t, [WithLeaf(t) EXCEPT ![fresh(2)] = Inode(1, p, f)], fresh(2))
      BY <1>2, Zenon DEF split_leaf
    <3> QED
      BY <2>2, <2>5, <2>6, <2>7, <2>8, <2>9, <2>10, <2>11, <3>1, Zenon
  <2>13. Rest!SetInParent(t, nd, inode) /\ inode \in Rest!Node
    BY <1>2, <2>10, <2>12, SameSetInParent, SameNodes DEF split_leaf
  <2>14. /\ n = [u \in Others |-> at[u]][t]["node"] /\ inode = Rest!fresh(2)
         /\ [u \in Others |-> depth[u]][t] = depth[t]
    BY <2>5, <2>10, SameSizes
  <2>15. prefix = Rest!common_prefix(k1, k, [u \in Others |-> depth[u]][t])
    BY <2>7, <2>14, SameSizes
  <2>16. d = [u \in Others |-> depth[u]][t] + Len(prefix) + 1
    BY <2>8, <2>14
  <2>17. kids = Rest!add(Rest!add(<<>>, k1[d], n), k[d], l)
    BY <2>9, SameOps
  <2>18. nd = [Rest!WithLeaf(t) EXCEPT ![inode] = Rest!Inode(1, prefix, kids)]
    BY <1>0, <2>11, SameOps
  <2> QED
    BY <2>1, <2>3, <2>4, <2>6, <2>13, <2>14, <2>15, <2>16, <2>17, <2>18, Rest!SplitsLeaf,
       RestAssumptions
<1>3. ASSUME split_prefix(t) PROVE Rest!split_prefix(t)
  <2>1. Rest!WriteSection(t, "split_prefix")
    BY <1>3, SameWriteSection DEF split_prefix
  <2>2. PICK k, l : k = key[t] /\ l = fresh(1) /\ Bind(k, l)
    BY <1>3 DEF split_prefix, Bind, Rebind
  <2>3. Rest!Bind(k, l)
    BY <2>2, SameBind
  <2>4. Rest!fresh(1) = l /\ [u \in Others |-> key[u]][t] = k
    BY <2>2, SameSizes, SameNodes
  <2>5. Rest!Bind([u \in Others |-> key[u]][t], Rest!fresh(1))
    BY <2>3, <2>4 DEF Rest!Bind, Rest!Rebind
  <2>6. PICK nd, m : /\ m = fresh(2) /\ nd = [WithLeaf(t) EXCEPT ![fresh(2)] = Inode(1, SubSeq(nodes[at[t]["node"]].prefix, 1, shared(t)), add(add(<<>>, nodes[at[t]["node"]].prefix[shared(t) + 1], at[t]["node"]), key[t][depth[t] + shared(t) + 1], fresh(1))), ![at[t]["node"]].prefix = cut(nodes[at[t]["node"]].prefix, shared(t) + 1)]
                     /\ SetInParent(t, nd, m)
    BY <1>3 DEF split_prefix, SetInParent
  <2>7. Rest!SetInParent(t, nd, m)
    BY <2>6, SameSetInParent
  <2>8. m = Rest!fresh(2) /\ nd = [Rest!WithLeaf(t) EXCEPT ![Rest!fresh(2)] = Rest!Inode(1, SubSeq(nodes[[u \in Others |-> at[u]][t]["node"]].prefix, 1, Rest!shared(t)), Rest!add(Rest!add(<<>>, nodes[[u \in Others |-> at[u]][t]["node"]].prefix[Rest!shared(t) + 1], [u \in Others |-> at[u]][t]["node"]), [u \in Others |-> key[u]][t][[u \in Others |-> depth[u]][t] + Rest!shared(t) + 1], Rest!fresh(1))), ![[u \in Others |-> at[u]][t]["node"]].prefix = Rest!cut(nodes[[u \in Others |-> at[u]][t]["node"]].prefix, Rest!shared(t) + 1)]
    BY <1>0, <2>6, SameSizes, SameOps, SameReads
  <2> QED
    BY <1>3, <2>1, <2>5, <2>7, <2>8, SameSizes, SameNodes, ZenonT(30)
       DEF split_prefix, Rest!split_prefix, Rest!Bind, Rest!Rebind, Rest!SetInParent
<1>4. ASSUME add_to_nonfull(t) PROVE Rest!add_to_nonfull(t)
  <2>1. Rest!WriteSection(t, "add_to_nonfull")
    BY <1>4, SameWriteSection DEF add_to_nonfull
  <2>2. PICK k, l : k = key[t] /\ l = fresh(1) /\ Bind(k, l)
    BY <1>4 DEF add_to_nonfull, Bind, Rebind
  <2>3. Rest!Bind(k, l)
    BY <2>2, SameBind
  <2>4. Rest!fresh(1) = l /\ [u \in Others |-> key[u]][t] = k
    BY <2>2, SameSizes, SameNodes
  <2>5. Rest!Bind([u \in Others |-> key[u]][t], Rest!fresh(1))
    BY <2>3, <2>4 DEF Rest!Bind, Rest!Rebind
  <2> QED
    BY <1>0, <1>4, <2>1, <2>5, SameSizes, SameNodes, SameOps, SameReads
       DEF add_to_nonfull, Rest!add_to_nonfull, Rest!Bind, Rest!Rebind
<1>5. ASSUME grow(t) PROVE Rest!grow(t)
  <2>1. Rest!WriteSection(t, "grow")
    BY <1>5, SameWriteSection DEF grow
  <2>2. PICK k, l : k = key[t] /\ l = fresh(1) /\ Bind(k, l)
    BY <1>5 DEF grow, Bind, Rebind
  <2>3. Rest!Bind(k, l)
    BY <2>2, SameBind
  <2>4. Rest!fresh(1) = l /\ [u \in Others |-> key[u]][t] = k
    BY <2>2, SameSizes, SameNodes
  <2>5. Rest!Bind([u \in Others |-> key[u]][t], Rest!fresh(1))
    BY <2>3, <2>4 DEF Rest!Bind, Rest!Rebind
  <2>6. PICK nd, m : /\ m = fresh(2) /\ nd = [WithLeaf(t) EXCEPT ![fresh(2)] = Inode(NodeOf(t, "node").class + 1, NodeOf(t, "node").prefix, add(NodeOf(t, "node").kids, NextByte(t), fresh(1)))]
                     /\ SetInParent(t, nd, m)
    BY <1>5 DEF grow, SetInParent
  <2>7. Rest!SetInParent(t, nd, m)
    BY <2>6, SameSetInParent
  <2>8. m = Rest!fresh(2) /\ nd = [Rest!WithLeaf(t) EXCEPT ![Rest!fresh(2)] = Rest!Inode(Rest!NodeOf(t, "node").class + 1, Rest!NodeOf(t, "node").prefix, Rest!add(Rest!NodeOf(t, "node").kids, Rest!NextByte(t), Rest!fresh(1)))]
    BY <1>0, <2>6, SameSizes, SameOps, SameReads
  <2> QED
    BY <1>5, <2>1, <2>5, <2>7, <2>8, SameSizes, SameNodes
       DEF grow, Rest!grow, Rest!Bind, Rest!Rebind, Rest!SetInParent
<1>6. ASSUME remove_root(t) PROVE Rest!remove_root(t)
  <2>1. Rest!WriteSection(t, "remove_root")
    BY <1>6, SameWriteSection DEF remove_root
  <2>2. PICK k, l : k = key[t] /\ l = Nil /\ Bind(k, l)
    BY <1>6 DEF remove_root, Bind, Rebind
  <2>3. Rest!Bind(k, l)
    BY <2>2, SameBind
  <2>4. Rest!Nil = l /\ [u \in Others |-> key[u]][t] = k
    BY <2>2, SameSizes, SameNodes
  <2>5. Rest!Bind([u \in Others |-> key[u]][t], Rest!Nil)
    BY <2>3, <2>4 DEF Rest!Bind, Rest!Rebind
  <2> QED
    BY <1>0, <1>6, <2>1, <2>5, SameNodes
       DEF remove_root, Rest!remove_root, Rest!Bind, Rest!Rebind
<1>7. ASSUME remove_child(t) PROVE Rest!remove_child(t)
  <2>1. Rest!WriteSection(t, "remove_child")
    BY <1>7, SameWriteSection DEF remove_child
  <2>2. PICK k, l : k = key[t] /\ l = Nil /\ Bind(k, l)
    BY <1>7 DEF remove_child, Bind, Rebind
  <2>3. Rest!Bind(k, l)
    BY <2>2, SameBind
  <2>4. Rest!Nil = l /\ [u \in Others |-> key[u]][t] = k
    BY <2>2, SameSizes, SameNodes
  <2>5. Rest!Bind([u \in Others |-> key[u]][t], Rest!Nil)
    BY <2>3, <2>4 DEF Rest!Bind, Rest!Rebind
  <2> QED
    BY <1>0, <1>7, <2>1, <2>5, SameOps, SameReads
       DEF remove_child, Rest!remove_child, Rest!Bind, Rest!Rebind
<1>8. ASSUME leave_last_child(t) PROVE Rest!leave_last_child(t)
  <2>1. Rest!survivor(t) = survivor(t)
    BY SameReads DEF survivor, Rest!survivor
  <2>2. \A u \in Others : \A s : Rest!AboutToRead(u, s) <=> AboutToRead(u, s)
    BY SameReads DEF AboutToRead, Rest!AboutToRead
  <2>3. ASSUME NEW s
        PROVE  {u \in Thread : AboutToRead(u, s)} \ {Scanner}
                  = {u \in Others : Rest!AboutToRead(u, s)}
    BY <2>2 DEF Others
  <2> QED
    BY <1>0, <1>8, <2>1, <2>3, SameWriteSection, SameSetInParent, SameBind, SameSizes, SameNodes,
       SameOps, SameReads DEF leave_last_child, Rest!leave_last_child
<1>9. ASSUME shrink(t) PROVE Rest!shrink(t)
  <2>1. Rest!WriteSection(t, "shrink")
    BY <1>9, SameWriteSection DEF shrink
  <2>2. PICK k, l : k = key[t] /\ l = Nil /\ Bind(k, l)
    BY <1>9 DEF shrink, Bind, Rebind
  <2>3. Rest!Bind(k, l)
    BY <2>2, SameBind
  <2>4. Rest!Nil = l /\ [u \in Others |-> key[u]][t] = k
    BY <2>2, SameSizes, SameNodes
  <2>5. Rest!Bind([u \in Others |-> key[u]][t], Rest!Nil)
    BY <2>3, <2>4 DEF Rest!Bind, Rest!Rebind
  <2>6. PICK nd, m : /\ m = fresh(1) /\ nd = [nodes EXCEPT ![fresh(1)] = Inode(NodeOf(t, "node").class - 1, NodeOf(t, "node").prefix, drop(NodeOf(t, "node").kids, NextByte(t)))]
                     /\ SetInParent(t, nd, m)
    BY <1>9 DEF shrink, SetInParent
  <2>7. Rest!SetInParent(t, nd, m)
    BY <2>6, SameSetInParent
  <2>8. m = Rest!fresh(1) /\ nd = [nodes EXCEPT ![Rest!fresh(1)] = Rest!Inode(Rest!NodeOf(t, "node").class - 1, Rest!NodeOf(t, "node").prefix, Rest!drop(Rest!NodeOf(t, "node").kids, Rest!NextByte(t)))]
    BY <1>0, <2>6, SameSizes, SameOps, SameReads
  <2> QED
    BY <1>9, <2>1, <2>5, <2>7, <2>8, SameSizes, SameNodes
       DEF shrink, Rest!shrink, Rest!Bind, Rest!Rebind, Rest!SetInParent
<1> QED
  BY <1>1, <1>2, <1>3, <1>4, <1>5, <1>6, <1>7, <1>8, <1>9 DEF Writing, Rest!Writing

(***************************************************************************)
(* Steps of the scanner are none of OlcArt.                                *)
(***************************************************************************)
\* A function on the threads stays one when it gets a new value.
LEMMA Updated ==
    ASSUME NEW f, NEW x, NEW e, IsOnThreads(f)
    PROVE  IsOnThreads([f EXCEPT ![x] = e])
  BY DEF IsOnThreads

\* g is f but for the thread t.
ButFor(t, f, g) == IsOnThreads(g) /\ \A u \in Thread : u # t => g[u] = f[u]
\* Nothing changes that is another thread's, but for what is recorded about it.
OnlyOwn(t) ==
    /\ ButFor(t, left, left') /\ ButFor(t, op, op') /\ ButFor(t, key, key')
    /\ ButFor(t, pc, pc') /\ ButFor(t, depth, depth') /\ ButFor(t, at, at')
    /\ ButFor(t, ver, ver') /\ ButFor(t, todo, todo') /\ ButFor(t, held, held')
    /\ ButFor(t, result, result') /\ IsOnThreads(seen')

\* A thread's value changes.
LEMMA UpdatedOwn ==
    ASSUME NEW f, NEW x, NEW e, IsOnThreads(f)
    PROVE  /\ ButFor(x, f, [f EXCEPT ![x] = e]) /\ ButFor(x, f, f)
           /\ IsOnThreads([f EXCEPT ![x] = e])
  BY Updated DEF ButFor, IsOnThreads

\* No operation changes what is another thread's.
LEMMA OperationsKeep ==
    ASSUME OnThreads, NEW t \in Thread,
           (\E o, k : begin(t, o, k)) \/ return(t) \/ Locking(t) \/ Reading(t) \/ Writing(t)
    PROVE  OnlyOwn(t)
<1> USE UpdatedOwn DEF OnThreads, OnlyOwn, treeVars, historyVars, opVars, rcsVars, Goto
<1>0. ASSUME NEW steps, Plan(t, steps) PROVE ButFor(t, todo, todo')
  BY <1>0 DEF Plan
<1>8. ASSUME NEW r, NEW steps, Return(t, r, steps)
      PROVE  ButFor(t, pc, pc') /\ ButFor(t, todo, todo') /\ ButFor(t, result, result')
  BY <1>0, <1>8 DEF Return
<1>9. ASSUME NEW l, NEW r, NEW steps, Commit(t, l, r, steps)
      PROVE  ButFor(t, pc, pc') /\ ButFor(t, todo, todo') /\ ButFor(t, result, result')
  BY <1>0, <1>9 DEF Commit
<1>10. ASSUME NEW c, NEW v, Descend(t, c, v)
       PROVE  ButFor(t, at, at') /\ ButFor(t, ver, ver') /\ ButFor(t, depth, depth')
  BY <1>10 DEF Descend
<1>11. ASSUME NEW l, Goto(t, l) PROVE ButFor(t, pc, pc')
  BY <1>11
<1>12. /\ ButFor(t, left, left) /\ ButFor(t, op, op) /\ ButFor(t, key, key) /\ ButFor(t, pc, pc)
       /\ ButFor(t, depth, depth) /\ ButFor(t, at, at) /\ ButFor(t, ver, ver) /\ ButFor(t, todo, todo)
       /\ ButFor(t, held, held) /\ ButFor(t, result, result)
  OBVIOUS
<1>1. ASSUME NEW o, NEW k, begin(t, o, k) PROVE OnlyOwn(t)
  BY <1>1 DEF begin, Start
<1>2. ASSUME Leave(t) PROVE OnlyOwn(t)
  BY <1>2 DEF Leave
<1>3. ASSUME Restart(t) PROVE OnlyOwn(t)
  BY <1>3 DEF Restart
<1>4. ASSUME Locking(t) PROVE OnlyOwn(t)
  <2>1. ASSUME try_read_lock_root(t) PROVE OnlyOwn(t)
    BY <2>1 DEF try_read_lock_root
  <2>2. ASSUME NEW r, try_read_lock(t, r) PROVE OnlyOwn(t)
    BY <1>0, <2>2 DEF try_read_lock
  <2>3. ASSUME check(t) PROVE OnlyOwn(t)
    BY <2>3 DEF check, Done
  <2>4. ASSUME try_upgrade_to_write_lock(t) PROVE OnlyOwn(t)
    BY <2>4 DEF try_upgrade_to_write_lock, Done
  <2>5. ASSUME unlock_and_obsolete(t) PROVE OnlyOwn(t)
    <3> DEFINE i == CHOOSE i \in DOMAIN held[t] : held[t][i] = Head(todo[t]).on
    <3>1. \E e : held' = [held EXCEPT ![t] = e]
      <4>1. held' = [held EXCEPT ![t] = SubSeq(held[t], 1, i - 1)
                                          \o SubSeq(held[t], i + 1, Len(held[t]))]
        BY <2>5 DEF unlock_and_obsolete
      <4> HIDE DEF i
      <4> QED
        BY <4>1
    <3>2. Done(t) /\ UNCHANGED <<historyVars, opVars, pc, rcsVars, result>>
      BY <2>5 DEF unlock_and_obsolete
    <3>3. ButFor(t, held, held')
      <4>1. PICK e : held' = [held EXCEPT ![t] = e]
        BY <3>1
      <4> QED
        BY <4>1
    <3>4. ButFor(t, todo, todo')
      BY <3>2 DEF Done
    <3> QED
      BY <3>2, <3>3, <3>4
  <2>6. ASSUME write_unlock(t) PROVE OnlyOwn(t)
    BY <2>6 DEF write_unlock, Done
  <2> QED
    BY <1>3, <1>4, <2>1, <2>2, <2>3, <2>4, <2>5, <2>6
       DEF Locking, try_read_lock_obsolete, version_mismatch
<1>5. ASSUME Reading(t) PROVE OnlyOwn(t)
  <2>1. ASSUME load_root(t) PROVE OnlyOwn(t)
    BY <1>0, <2>1 DEF load_root
  <2>2. ASSUME match_prefix(t) PROVE OnlyOwn(t)
    BY <1>0, <2>2 DEF match_prefix
  <2> HIDE UpdatedOwn DEF Goto
  <2>3. ASSUME get_child(t) PROVE OnlyOwn(t)
    BY <1>0, <1>8, <1>9, <1>10, <1>11, <1>12, <2>3 DEF get_child
  <2>4. ASSUME add_or_choose_subtree(t) PROVE OnlyOwn(t)
    BY <1>0, <1>8, <1>9, <1>10, <1>11, <1>12, <2>4 DEF add_or_choose_subtree
  <2>5. ASSUME remove_find_child(t) PROVE OnlyOwn(t)
    <3>1. ButFor(t, at, at')
      <4>1. CASE HasChild(t)
        <5>1. PICK e : at' = [at EXCEPT ![t] = e]
          BY <2>5, <4>1 DEF remove_find_child
        <5>2. IsOnThreads(at)
          OBVIOUS
        <5> QED
          BY <5>1, <5>2, UpdatedOwn
      <4>2. CASE ~HasChild(t)
        BY <1>12, <2>5, <4>2 DEF remove_find_child
      <4> QED
        BY <4>1, <4>2
    <3> QED
      BY <1>0, <1>8, <1>11, <1>12, <2>5, <3>1 DEF remove_find_child
  <2>6. ASSUME remove_or_choose_subtree(t) PROVE OnlyOwn(t)
    BY <1>0, <1>8, <1>9, <1>10, <1>11, <1>12, <2>6 DEF remove_or_choose_subtree
  <2>7. ASSUME \/ empty_tree(t) \/ empty_tree_insert(t) \/ get_leaf(t) \/ insert_leaf(t)
               \/ remove_root_leaf(t)
        PROVE  OnlyOwn(t)
    BY <1>0, <1>8, <1>9, <1>10, <1>11, <1>12, <2>7
       DEF empty_tree, empty_tree_insert, get_leaf, insert_leaf, remove_root_leaf
  <2>8. ASSUME get_prefix_differs(t) \/ insert_prefix_differs(t) \/ remove_prefix_differs(t)
        PROVE  OnlyOwn(t)
    BY <1>0, <1>8, <1>9, <1>10, <1>11, <1>12, <2>8
       DEF get_prefix_differs, insert_prefix_differs, remove_prefix_differs
  <2> QED
    BY <1>2, <1>5, <2>1, <2>2, <2>3, <2>4, <2>5, <2>6, <2>7, <2>8 DEF Reading, bad_alloc
<1>6. ASSUME NEW label, WriteSection(t, label), NEW k, NEW l, Rebind(k, l) PROVE OnlyOwn(t)
  <2>1. IsOnThreads(seen')
    BY <1>6 DEF Rebind, IsOnThreads
  <2> QED
    BY <1>6, <2>1 DEF WriteSection
<1>7. ASSUME Writing(t) PROVE OnlyOwn(t)
  <2> HIDE UpdatedOwn
  <2>1. \E label, k, l : WriteSection(t, label) /\ Rebind(k, l)
    BY <1>7
     DEF Writing, insert_root, split_leaf, split_prefix, add_to_nonfull, grow, remove_root,
         remove_child, leave_last_child, shrink, Bind
  <2> QED
    BY <1>6, <2>1
<1> QED
  BY <1>1, <1>2, <1>4, <1>5, <1>7 DEF return

\* It keeps OnThreads.
LEMMA KeepsOnThreads ==
    ASSUME NEW t, OnlyOwn(t)
    PROVE  OnThreads'
  BY DEF OnThreads, OnlyOwn, ButFor

\* g is f but for the scanner.
ButScanner(f, g) == IsOnThreads(g) /\ \A t \in Others : g[t] = f[t]
\* No step of the scanner changes what is not its own.
ScannerOnly ==
    /\ UNCHANGED <<root, nodes, word, map, load>> /\ torn' \ {Scanner} = torn \ {Scanner}
    /\ ButScanner(left, left') /\ ButScanner(op, op') /\ ButScanner(key, key')
    /\ ButScanner(pc, pc') /\ ButScanner(depth, depth') /\ ButScanner(at, at')
    /\ ButScanner(ver, ver') /\ ButScanner(todo, todo') /\ ButScanner(held, held')
    /\ ButScanner(result, result') /\ ButScanner(seen, seen')

\* The scanner's own value changes.
LEMMA UpdatedScanner ==
    ASSUME NEW f, NEW e, IsOnThreads(f)
    PROVE  ButScanner(f, [f EXCEPT ![Scanner] = e]) /\ ButScanner(f, f)
  BY Updated DEF ButScanner, Others, IsOnThreads

\* Its accesses to lock words, of which it changes none.
LEMMA ScannerLocks ==
    ASSUME OnThreads, Locking(Scanner), todo[Scanner] \in Seq(Checks)
    PROVE  ScannerOnly
<1> USE UpdatedScanner
    DEF OnThreads, treeVars, historyVars, opVars, rcsVars, Goto, ScannerOnly
<1>1. ASSUME Restart(Scanner) PROVE ScannerOnly
  BY <1>1 DEF Restart
<1>2. ASSUME try_read_lock_root(Scanner) PROVE ScannerOnly
  BY <1>2 DEF try_read_lock_root
<1>3. ASSUME NEW r, try_read_lock(Scanner, r) PROVE ScannerOnly
  <2>1. ButScanner(todo, todo')
    BY <1>3, ZenonT(30) DEF try_read_lock, Plan
  <2> QED
    BY <1>3, <2>1 DEF try_read_lock
<1>4. ASSUME check(Scanner) PROVE ScannerOnly
  BY <1>4 DEF check, Done
<1>5. todo[Scanner] # <<>> => Head(todo[Scanner]).do = "check"
  <2>1. todo[Scanner] # <<>> => Head(todo[Scanner]) \in Checks
    OBVIOUS
  <2> QED
    BY <2>1 DEF Checks
<1> QED
  BY <1>1, <1>2, <1>3, <1>4, <1>5
     DEF Locking, try_read_lock_obsolete, version_mismatch, try_upgrade_to_write_lock,
         unlock_and_obsolete, write_unlock, Must

\* Its own steps.
LEMMA ScannerScans ==
    ASSUME OnThreads, Scanning
    PROVE  ScannerOnly
<1> USE UpdatedScanner
    DEF OnThreads, treeVars, opVars, rcsVars, Goto, ScannerOnly, Unread, Untouched, PlanChecks
<1>1. ASSUME NEW s, NEW o, NEW k, Begin(s, o, k) PROVE ScannerOnly
  BY <1>1 DEF Begin, Call
<1>2. ASSUME visit PROVE ScannerOnly
  BY <1>2 DEF visit, Call
<1>3. ASSUME finish PROVE ScannerOnly
  BY <1>3 DEF finish
<1>4. ASSUME it_load_root PROVE ScannerOnly
  BY <1>4 DEF it_load_root
<1>5. ASSUME traverse_leaf PROVE ScannerOnly
  BY <1>5 DEF traverse_leaf
<1>6. ASSUME traverse_inode PROVE ScannerOnly
  BY <1>6 DEF traverse_inode, DescendTo
<1>7. ASSUME seek_leaf PROVE ScannerOnly
  BY <1>7 DEF seek_leaf, Tear
<1>8. ASSUME seek_prefix_differs PROVE ScannerOnly
  BY <1>8 DEF seek_prefix_differs, Tear
<1>9. ASSUME seek_prefix_matches PROVE ScannerOnly
  BY <1>9 DEF seek_prefix_matches, Tear
<1>10. ASSUME seek_child PROVE ScannerOnly
  BY <1>10 DEF seek_child, DescendTo
<1>11. ASSUME seek_sibling PROVE ScannerOnly
  BY <1>11 DEF seek_sibling, DescendTo
<1>12. ASSUME seek_dead_end PROVE ScannerOnly
  BY <1>12 DEF seek_dead_end
<1>13. ASSUME backtrack PROVE ScannerOnly
  <2>1. ButScanner(at, at') /\ ButScanner(ver, ver') /\ ButScanner(pc, pc')
    <3>1. CASE siblings(nodes[top.node], top.byte, fwd) # {}
      <4>1. DescendTo(top.node, top.ver, child_of(top))
        BY <1>13, <3>1 DEF backtrack
      <4>2. PICK x, y, z : /\ at' = [at EXCEPT ![Scanner] = x] /\ ver' = [ver EXCEPT ![Scanner] = y]
                            /\ pc' = [pc EXCEPT ![Scanner] = z]
        BY <4>1 DEF DescendTo
      <4>3. IsOnThreads(at) /\ IsOnThreads(ver) /\ IsOnThreads(pc)
        OBVIOUS
      <4> QED
        BY <4>2, <4>3
    <3>2. CASE siblings(nodes[top.node], top.byte, fwd) = {}
      BY <1>13, <3>2 DEF backtrack
    <3> QED
      BY <3>1, <3>2
  <2> QED
    BY <1>13, <2>1 DEF backtrack
<1>14. ASSUME step_pop PROVE ScannerOnly
  BY <1>14 DEF step_pop
<1>15. ASSUME step_sibling PROVE ScannerOnly
  BY <1>15 DEF step_sibling, DescendTo
<1>16. ASSUME at_end PROVE ScannerOnly
  BY <1>16 DEF at_end
<1> HIDE UpdatedScanner DEF ScannerOnly
<1> QED
  BY <1>1, <1>2, <1>3, <1>4, <1>5, <1>6, <1>7, <1>8, <1>9, <1>10, <1>11, <1>12, <1>13, <1>14,
     <1>15, <1>16 DEF Scanning, scan_all, scan_from, scan_range

\* To the other threads nothing has happened then.
LEMMA ScannerStutters ==
    ASSUME OnThreads, ScannerOnly
    PROVE  OnThreads' /\ UNCHANGED Rest!vars
<1>1. ASSUME NEW f, NEW g, ButScanner(f, g)
      PROVE  IsOnThreads(g) /\ [t \in Others |-> g[t]] = [t \in Others |-> f[t]]
  BY <1>1 DEF ButScanner
<1>2. OnThreads'
  BY <1>1 DEF OnThreads, ScannerOnly
<1>3. UNCHANGED <<[t \in Others |-> left[t]], [t \in Others |-> op[t]], [t \in Others |-> key[t]],
                  [t \in Others |-> pc[t]], [t \in Others |-> depth[t]], [t \in Others |-> at[t]]>>
  BY <1>1 DEF ScannerOnly
<1>4. UNCHANGED <<[t \in Others |-> ver[t]], [t \in Others |-> todo[t]],
                  [t \in Others |-> held[t]], [t \in Others |-> result[t]],
                  [t \in Others |-> seen[t]], root, nodes, word, map, load, torn \ {Scanner}>>
  BY <1>1 DEF ScannerOnly
<1> QED
  BY <1>2, <1>3, <1>4
     DEF Rest!vars, Rest!treeVars, Rest!historyVars, Rest!opVars, Rest!rcsVars

(***************************************************************************)
(* All steps.                                                              *)
(***************************************************************************)
\* At the beginning.
LEMMA RestInit ==
    ASSUME ItInit
    PROVE  OnThreads /\ Rest!Init
<1>1. OnThreads
  BY DEF ItInit, Init, OnThreads, IsOnThreads
<1> QED
  BY <1>1, SameNodes, OthersExist DEF ItInit, Init, Rest!Init

\* Every step is one of OlcArt's or none.
LEMMA RestNext ==
    ASSUME OnThreads, [ItNext]_allVars, todo[Scanner] \in Seq(Checks)
    PROVE  OnThreads' /\ [Rest!Next]_(Rest!vars)
<1>1. CASE begin_load
  <2>1. PICK k : Start(Loader, "insert", k) /\ UNCHANGED left
    BY <1>1 DEF begin_load, Start
  <2>2. OnThreads'
    BY <2>1, Updated
       DEF OnThreads, Start, Goto, rcsVars
  <2> QED
    BY <1>1, <2>2, SameLoad DEF Rest!Next
<1>2. ASSUME NEW t \in Others, OtherThread(t) PROVE OnThreads' /\ Rest!Next
  <2>1. \/ \E o \in {"insert", "remove"}, k \in Key : begin(t, o, k)
        \/ return(t) \/ Locking(t) \/ Reading(t) \/ Writing(t)
    BY <1>2 DEF OtherThread
  <2>2. OnThreads'
    BY <2>1, OperationsKeep, KeepsOnThreads DEF Others
  <2>3. \/ \E o \in {"insert", "remove"}, k \in Key : Rest!begin(t, o, k)
        \/ Rest!return(t) \/ Rest!Locking(t) \/ Rest!Reading(t) \/ Rest!Writing(t)
    BY <2>1, SameOperation, SameLocking, SameReading, SameWriting
  <2> QED
    BY <2>2, <2>3 DEF Rest!Next, Rest!Operation
<1>3. CASE Locking(Scanner) \/ Scanning
  BY <1>3, ScannerLocks, ScannerScans, ScannerStutters
<1>4. CASE UNCHANGED allVars
  <2>1. UNCHANGED <<root, nodes, word, map, load, left, op, key, pc, depth, at, ver, todo, held>>
        /\ UNCHANGED <<result, seen, torn>>
    BY <1>4 DEF allVars, vars, treeVars, historyVars, opVars, rcsVars
  <2>2. OnThreads'
    BY <2>1 DEF OnThreads
  <2> QED
    BY <2>1, <2>2 DEF Rest!vars, Rest!treeVars, Rest!historyVars, Rest!opVars, Rest!rcsVars
<1> QED
  BY <1>1, <1>2, <1>3, <1>4 DEF ItNext, Others

(***************************************************************************)
(* What a step that is not the scanner's leaves to it.                     *)
(***************************************************************************)
Elsewhere ==
    /\ UNCHANGED <<scan, stack, walk, after, lost>>
    /\ op'[Scanner] = op[Scanner] /\ key'[Scanner] = key[Scanner] /\ pc'[Scanner] = pc[Scanner]
    /\ depth'[Scanner] = depth[Scanner] /\ at'[Scanner] = at[Scanner]
    /\ ver'[Scanner] = ver[Scanner] /\ todo'[Scanner] = todo[Scanner]
    /\ held'[Scanner] = held[Scanner]
    /\ scan.on => ever' = ever \cup bound' /\ steady' = steady \cap bound'
    /\ Scanner \in torn => Scanner \in torn'
    /\ Scanner \in torn' => Scanner \in torn \/ pc[Scanner] = "at_node"
    /\ \A u \in Thread :
          /\ Ready(u, "leave_last_child") /\ pc'[u] = "return"
          /\ nodes[survivor(u)].kind # "leaf" /\ AboutToRead(Scanner, survivor(u))
          => Scanner \in torn'

\* What others record of the scanner's reads.
LEMMA OthersTear ==
    ASSUME OnThreads, NEW t \in Others,
           (\E o, k : begin(t, o, k)) \/ return(t) \/ Locking(t) \/ Reading(t) \/ Writing(t)
    PROVE  /\ Scanner \in torn => Scanner \in torn'
           /\ Scanner \in torn' => Scanner \in torn \/ pc[Scanner] = "at_node"
           /\ \A u \in Thread :
                 /\ Ready(u, "leave_last_child") /\ pc'[u] = "return"
                 /\ nodes[survivor(u)].kind # "leaf" /\ AboutToRead(Scanner, survivor(u))
                 => Scanner \in torn'
<1>1. t # Scanner /\ t \in Thread /\ Scanner \in Thread
  BY ScannerAssumption DEF Others
<1>2. CASE leave_last_child(t)
  <2>1. torn' = torn \cup (IF nodes[survivor(t)].kind = "leaf" THEN {}
                           ELSE {u \in Thread : AboutToRead(u, survivor(t))})
    BY <1>2 DEF leave_last_child
  <2>2. ASSUME NEW u \in Thread, Ready(u, "leave_last_child"), pc'[u] = "return" PROVE u = t
    <3>1. pc' = [pc EXCEPT ![t] = "return"]
      BY <1>2 DEF leave_last_child, WriteSection, Goto
    <3> QED
      BY <2>2, <3>1 DEF Ready, OnThreads, IsOnThreads
  <2> QED
    BY <1>1, <2>1, <2>2 DEF AboutToRead, Ready
<1>3. CASE ~leave_last_child(t)
  <2>1. torn' = torn \/ torn' = torn \ {t}
    BY <1>3 DEF begin, Start, return, Leave, Locking, try_read_lock_root, try_read_lock,
       try_read_lock_obsolete, check, try_upgrade_to_write_lock, version_mismatch, Restart,
       unlock_and_obsolete, write_unlock, Reading, load_root, empty_tree, empty_tree_insert,
       get_leaf, insert_leaf, remove_root_leaf, match_prefix, get_prefix_differs,
       insert_prefix_differs, remove_prefix_differs, get_child, add_or_choose_subtree,
       remove_find_child, remove_or_choose_subtree, bad_alloc, Writing, insert_root, split_leaf,
       split_prefix, add_to_nonfull, grow, remove_root, remove_child, shrink, Bind, historyVars
  <2>2. ASSUME Ready(t, "leave_last_child") PROVE pc'[t] # "return"
    <3>1. ~Reading(t) /\ ~return(t) /\ ~Writing(t)
      BY <1>3, <2>2 DEF Ready, Reading, load_root, empty_tree, empty_tree_insert, get_leaf,
         insert_leaf, remove_root_leaf, match_prefix, get_prefix_differs, insert_prefix_differs,
         remove_prefix_differs, get_child, add_or_choose_subtree, remove_find_child,
         remove_or_choose_subtree, bad_alloc, Allocates, AtLeaf, AtInode, PrefixDiffers, return,
         Writing, insert_root, split_leaf, split_prefix, add_to_nonfull, grow, remove_root,
         remove_child, shrink, WriteSection
    <3>2. ~(\E o, k : begin(t, o, k)) /\ ~Locking(t)
      BY <2>2 DEF Ready, begin, Locking, try_read_lock_root, try_read_lock,
         try_read_lock_obsolete, check, try_upgrade_to_write_lock, version_mismatch,
         unlock_and_obsolete, write_unlock, Must
    <3> QED
      BY <3>1, <3>2
  <2>3. ASSUME NEW u \in Thread, u # t PROVE pc'[u] = pc[u]
    BY <1>1, <2>3, OperationsKeep DEF OnlyOwn, ButFor
  <2> QED
    BY <1>1, <2>1, <2>2, <2>3 DEF Ready
<1> QED
  BY <1>2, <1>3

\* The steps of the others, the beginning of a load, and none.
LEMMA ElsewhereIs ==
    ASSUME OnThreads, scan.on => bound \subseteq ever /\ steady \subseteq bound,
           \/ begin_load /\ UNCHANGED scanVars
           \/ \E t \in Others : OtherThread(t)
           \/ UNCHANGED allVars
    PROVE  Elsewhere
<1>0. Scanner \in Thread
  BY ScannerAssumption
<1>1. ASSUME map' = map, UNCHANGED scanVars
      PROVE  /\ UNCHANGED <<scan, stack, walk, after, lost>>
             /\ scan.on => ever' = ever \cup bound' /\ steady' = steady \cap bound'
  BY <1>1 DEF scanVars, callVars, bound
<1>2. CASE begin_load /\ UNCHANGED scanVars
  <2>1. map' = map /\ torn' = torn /\ pc' = [pc EXCEPT ![Loader] = "root_lock"]
        /\ UNCHANGED <<depth, at, ver, todo, held>>
    BY <1>2 DEF begin_load, Start, Goto, rcsVars
  <2>2. pc'[Scanner] = pc[Scanner] /\ op'[Scanner] = op[Scanner] /\ key'[Scanner] = key[Scanner]
    BY <1>2, ScannerAssumption DEF begin_load, Start, Goto, OnThreads, IsOnThreads
  <2>3. ASSUME NEW u \in Thread, Ready(u, "leave_last_child") PROVE pc'[u] # "return"
    BY <2>1, <2>3 DEF Ready, OnThreads, IsOnThreads
  <2> QED
    BY <1>1, <1>2, <2>1, <2>2, <2>3 DEF Elsewhere
<1>3. ASSUME NEW t \in Others, OtherThread(t) PROVE Elsewhere
  <2>1. (\E o, k : begin(t, o, k)) \/ return(t) \/ Locking(t) \/ Reading(t) \/ Writing(t)
    BY <1>3 DEF OtherThread
  <2>2. t \in Thread /\ t # Scanner
    BY DEF Others
  <2>3. /\ op'[Scanner] = op[Scanner] /\ key'[Scanner] = key[Scanner]
        /\ pc'[Scanner] = pc[Scanner] /\ depth'[Scanner] = depth[Scanner]
        /\ at'[Scanner] = at[Scanner] /\ ver'[Scanner] = ver[Scanner]
        /\ todo'[Scanner] = todo[Scanner] /\ held'[Scanner] = held[Scanner]
    BY <1>0, <2>1, <2>2, OperationsKeep DEF OnlyOwn, ButFor
  <2>4. /\ UNCHANGED <<scan, stack, walk, after, lost>>
        /\ scan.on => ever' = ever \cup bound' /\ steady' = steady \cap bound'
    BY <1>3 DEF OtherThread
  <2> QED
    BY <2>1, <2>3, <2>4, OthersTear DEF Elsewhere
<1>4. CASE UNCHANGED allVars
  <2>1. UNCHANGED <<map, torn, op, key, pc, depth, at, ver, todo, held>> /\ UNCHANGED scanVars
    BY <1>4 DEF allVars, vars, historyVars, opVars, rcsVars
  <2> QED
    BY <1>1, <2>1 DEF Elsewhere, Ready
<1> QED
  BY <1>2, <1>3, <1>4
===============================================================================
