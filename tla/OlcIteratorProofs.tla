-------------------------- MODULE OlcIteratorProofs --------------------------
(***************************************************************************)
(* What the iterator of olc_db promises, proved of OlcIterator by the      *)
(* inductive invariant of OlcIteratorShape.                                *)
(***************************************************************************)
EXTENDS OlcIteratorSeekProofs

(***************************************************************************)
(* Steps from the top of the stack.                                        *)
(***************************************************************************)
\* The scanner goes on from the top of its stack.
LEMMA AtTop ==
    ASSUME NEW tree, NEW rep, NEW end, NEW start, View(tree, rep, end, start),
           StackInv(tree, rep, end, start), stack # <<>>,
           NEW n, n = Last(stack).node, NEW v, v = Last(stack).ver, NEW f, f = Front(stack)
    PROVE  /\ TreeFits(tree, rep, end, start)
           /\ IsUsed(n) /\ n \in Node /\ n \in Lock /\ n # Nil /\ Past(n, v) /\ v \in Nat
           /\ stack \in Seq(StackEntry) /\ StackPath(rep, end, stack) /\ Last(stack) \in StackEntry
           /\ IsInode(n) => Last(stack).byte \in Byte
           /\ f \in Seq(StackEntry) /\ StackPath(rep, end, f) /\ EntriesHold(end, start, f)
           /\ f # <<>> => /\ IsInode(Last(f).node)
                          /\ GoodKid(rep, end, Last(f).node, Last(f).byte, n)
           /\ f # <<>> /\ CurrentEntry(Last(f)) => nodes[Last(f).node].kids[Last(f).byte] = n
           /\ word[n] = v => /\ n \in tree /\ start[n] <= Above(end, f, Len(f) + 1)
                             /\ IsInode(n) => Last(stack).byte \in DOMAIN nodes[n].kids
<1>1. ScanTypes /\ StackFits(rep, end) /\ EntriesHold(end, start, stack)
  BY DEF StackInv
<1>2. TreeFits(tree, rep, end, start)
  BY DEF View
<1>3. stack \in Seq(StackEntry) /\ StackPath(rep, end, stack)
  BY <1>1 DEF StackFits, StackPath
<1>4. /\ Last(stack) \in StackEntry /\ Len(stack) \in DOMAIN stack
      /\ Last(stack) = stack[Len(stack)] /\ f \in Seq(StackEntry)
  BY <1>3, Ends
<1>5. IsUsed(n) /\ Past(n, v) /\ (IsInode(n) => Last(stack).byte \in Byte)
  BY <1>3, <1>4 DEF StackPath
<1>6. n \in Node /\ n \in Lock /\ n # Nil /\ v \in Nat
  BY <1>2, <1>4, <1>5, NodeFacts DEF StackEntry
<1>7. /\ StackPath(rep, end, f)
      /\ f # <<>> => /\ IsInode(Last(f).node)
                     /\ GoodKid(rep, end, Last(f).node, Last(f).byte, n)
  BY <1>3, PopFits
<1>8. /\ EntriesHold(end, start, f)
      /\ f # <<>> /\ CurrentEntry(Last(f)) => nodes[Last(f).node].kids[Last(f).byte] = n
      /\ CurrentEntry(Last(stack)) => start[n] <= Above(end, f, Len(f) + 1)
  BY <1>1, <1>3, PopHolds
<1>9. ASSUME word[n] = v
      PROVE  /\ n \in tree /\ start[n] <= Above(end, f, Len(f) + 1)
             /\ IsInode(n) => Last(stack).byte \in DOMAIN nodes[n].kids
  <2>1. CurrentEntry(Last(stack))
    BY <1>9 DEF CurrentEntry
  <2>2. n \in tree
    BY <1>5, <1>9, CurrentInTree
  <2> QED
    BY <1>1, <1>4, <1>8, <2>1, <2>2 DEF EntriesHold
<1> QED
  BY <1>2, <1>3, <1>4, <1>5, <1>6, <1>7, <1>8, <1>9

\* A seek goes back from a dead end, and is lost.
LEMMA BacktrackKeeps ==
    ASSUME NEW tree, NEW rep, NEW end, NEW start, View(tree, rep, end, start), OnThreads,
           StackInv(tree, rep, end, start), CallInv(rep, end, start), backtrack
    PROVE  StackInv(tree, rep, end, start)' /\ CallInv(rep, end, start)'
<1>1. /\ ScanTypes /\ StackFits(rep, end) /\ DescentFits(rep, end)
      /\ EntriesHold(end, start, stack) /\ DescentHolds(end, start)
  BY DEF StackInv
<1>2. PICK n, v, b, c, f, cs :
         /\ n = Last(stack).node /\ v = Last(stack).ver /\ b = Last(stack).byte
         /\ c = child_of(Last(stack)) /\ f = Front(stack) /\ cs = <<CheckOf(n, v)>>
  OBVIOUS
<1>3. /\ pc[Scanner] = "backtrack" /\ todo[Scanner] = <<>> /\ stack # <<>>
      /\ todo' = [todo EXCEPT ![Scanner] = cs]
      /\ \/ walk' = Traversal(fwd) /\ DescendTo(n, v, c) /\ stack' = stack
         \/ stack' = f /\ UNCHANGED <<walk, at, ver, pc>>
      /\ UNCHANGED <<opVars, depth, torn, scan, after, callVars, lost>>
      /\ UNCHANGED <<root, nodes, word, map>> /\ held' = held
  BY <1>2 DEF backtrack, Here, Ready, pop, top, valid, PlanChecks, Untouched, Unread, treeVars
<1>4. /\ TreeFits(tree, rep, end, start)
      /\ IsUsed(n) /\ n \in Node /\ n \in Lock /\ n # Nil /\ Past(n, v) /\ v \in Nat
      /\ stack \in Seq(StackEntry) /\ StackPath(rep, end, stack)
      /\ f \in Seq(StackEntry) /\ StackPath(rep, end, f) /\ EntriesHold(end, start, f)
      /\ f # <<>> => IsInode(Last(f).node)
      /\ word[n] = v /\ IsInode(n) => b \in DOMAIN nodes[n].kids
  BY <1>2, <1>3, AtTop
<1>5. IsInode(n) /\ lost
  BY <1>1, <1>2, <1>3 DEF StackFits, valid, top, CallInv
<1>6. /\ c # Nil => GoodKid(rep, end, n, b, c)
      /\ word[n] = v => c # Nil /\ nodes[n].kids[b] = c
      /\ c \in Lock
  <2>1. c = IF b \in DOMAIN nodes[n].kids THEN nodes[n].kids[b] ELSE Nil
    BY <1>2 DEF child_of
  <2>2. ASSUME b \in DOMAIN nodes[n].kids PROVE GoodKid(rep, end, n, b, c) /\ c \in Lock /\ c # Nil
    <3>1. GoodKid(rep, end, n, b, c)
      BY <1>4, <1>5, <2>1, <2>2, NodeFacts
    <3>2. IsUsed(c)
      BY <3>1 DEF GoodKid
    <3> QED
      BY <1>4, <3>1, <3>2, NodeFacts
  <2>3. Nil \in Lock
    BY BoundAssumption DEF Lock, Nil
  <2> QED
    BY <1>4, <1>5, <2>1, <2>2, <2>3
<1>7. /\ todo'[Scanner] = cs /\ PastChecks(cs) /\ cs # <<>> /\ Head(cs) = CheckOf(n, v)
  BY <1>2, <1>3, <1>4, CheckIs, ChecksFew, ScannerAssumption DEF OnThreads, IsOnThreads
<1>8. ~Hopeful'
  BY <1>3, <1>5 DEF Hopeful
<1>9. CASE walk' = Traversal(fwd) /\ DescendTo(n, v, c) /\ stack' = stack
  <2>1. /\ pc'[Scanner] = "lock_node" /\ at'[Scanner] \in [Role -> Lock]
        /\ ver'[Scanner] \in [Role -> Nat]
    BY <1>4, <1>6, <1>9, Descended
  <2>2. walk' \in {"left_most", "right_most"}
    BY <1>9 DEF Traversal
  <2>3. ScanTypes'
    BY <1>1, <1>3, <1>7, <2>1, <2>2, Still
       DEF ScanTypes, ScanLabels, opVars, callVars, Descending, fwd
  <2>4. StackFits(rep, end)' /\ EntriesHold(end, start, stack)'
    BY <1>1, <1>3, <1>4, <1>9, <2>1, Still DEF StackFits
  <2>5. DescentFits(rep, end)' /\ DescentHolds(end, start)'
    <3>1. /\ UNCHANGED <<root, nodes, word, map>> /\ v \in Nat /\ c \in Lock /\ IsInode(n)
          /\ Past(n, v) /\ n \in Lock /\ DescendTo(n, v, c) /\ stack' = stack /\ stack # <<>>
          /\ Last(stack).node = n /\ Last(stack).byte = b /\ Last(stack).ver = v
          /\ todo'[Scanner] = cs /\ cs # <<>> /\ Head(cs) = CheckOf(n, v)
          /\ c # Nil => GoodKid(rep, end, n, b, c)
          /\ word[n] = v => c # Nil /\ nodes[n].kids[b] = c
      BY <1>2, <1>3, <1>4, <1>5, <1>6, <1>7, <1>9
    <3> QED
      BY <3>1, DescendFits
  <2> QED
    BY <1>8, <2>1, <2>3, <2>4, <2>5 DEF StackInv, CallInv
<1>10. CASE stack' = f /\ UNCHANGED <<walk, at, ver, pc>>
  <2>1. pc'[Scanner] = "backtrack" /\ ~Descending'
    BY <1>3, <1>10 DEF Descending
  <2>2. ScanTypes'
    BY <1>1, <1>3, <1>7, <1>10, <2>1, Still
       DEF ScanTypes, ScanLabels, opVars, callVars, Descending, fwd
  <2>3. StackFits(rep, end)' /\ EntriesHold(end, start, stack)'
    BY <1>3, <1>4, <1>10, <2>1, Still DEF StackFits, valid, top
  <2> QED
    BY <1>3, <1>5, <1>8, <2>1, <2>2, <2>3
       DEF StackInv, CallInv, DescentFits, DescentHolds
<1> QED
  BY <1>3, <1>9, <1>10

\* A bound key that lies beyond a node of the tree, or beyond all its children, lies
\* beyond the entry that leads to the node.
LEMMA OnwardPopped ==
    ASSUME NEW tree, NEW rep, NEW end, NEW start, TreeFits(tree, rep, end, start),
           NEW f \in Seq(StackEntry), NEW e, NEW n \in tree, n = e.node,
           f # <<>> => /\ IsInode(Last(f).node)
                       /\ GoodKid(rep, end, Last(f).node, Last(f).byte, n),
           start[n] <= Above(end, f, Len(f) + 1),
           IsInode(n) => siblings(nodes[n], e.byte, fwd) = {},
           NEW k \in Key, map[k] # Nil, Onward(rep, end, k, e)
    PROVE  f # <<>> /\ Onward(rep, end, k, Last(f))
<1>1. /\ IsUsed(n) /\ rep[n] \in Bytes /\ end[n] \in 0 .. KeyLen /\ start[n] \in 0 .. KeyLen
      /\ start[n] <= end[n] /\ k \in Bytes /\ start[n] \in Nat /\ end[n] \in Nat
  BY TreeFacts, NodeFacts, KeyBytes, KeyAssumption
<1>2. AheadOf(k, rep[n], end[n])
  <2>1. ASSUME IsInode(n), SameTo(k, rep[n], end[n]), Further(k[end[n] + 1], e.byte) PROVE FALSE
    <3>1. SameTo(k, rep[n], start[n])
      BY <1>1, <2>1, AheadLonger
    <3>2. k[end[n] + 1] \in DOMAIN nodes[n].kids
      BY <2>1, <3>1, BoundLeads
    <3>3. k[end[n] + 1] \in siblings(nodes[n], e.byte, fwd)
      BY <2>1, <3>2 DEF siblings, Further
    <3> QED
      BY <2>1, <3>3
  <2> QED
    BY <2>1 DEF Onward
<1>3. AheadOf(k, rep[n], start[n])
  <2>1. ASSUME SameTo(k, rep[n], start[n]) PROVE FALSE
    <3>1. SameTo(k, rep[n], end[n])
      BY <2>1, BoundLeads
    <3> QED
      BY <1>1, <1>2, <3>1, AheadStrict
  <2> QED
    BY <1>1, <1>2, <2>1, AheadLonger
<1>4. f # <<>>
  <2>1. ASSUME f = <<>> PROVE FALSE
    <3>1. start[n] <= 0
      BY <2>1, AboveIs
    <3>2. start[n] = 0
      BY <1>1, <3>1
    <3> QED
      BY <1>3, <3>2 DEF AheadOf
  <2> QED
    BY <2>1
<1>5. PICK d, p, b : d = Last(f) /\ p = d.node /\ b = d.byte
  OBVIOUS
<1>6. IsInode(p) /\ GoodKid(rep, end, p, b, n) /\ start[n] <= end[p] + 1
  BY <1>4, <1>5, AboveIs
<1>7. end[p] \in Nat /\ end[p] + 1 \in Nat
  <2>1. IsUsed(p)
    BY <1>6 DEF IsInode
  <2>2. end[p] \in 0 .. KeyLen
    BY <2>1, NodeFacts
  <2> QED
    BY <2>2, KeyAssumption
<1>8. AheadOf(k, rep[n], end[p] + 1)
  BY <1>1, <1>3, <1>6, <1>7, AheadLonger
<1>9. Onward(rep, end, k, d)
  BY <1>5, <1>6, <1>7, <1>8, EdgeIs
<1> QED
  BY <1>4, <1>5, <1>9

\* Stepping on from a leaf, or from an inode that has no further child.
LEMMA StepPopKeeps ==
    ASSUME NEW tree, NEW rep, NEW end, NEW start, View(tree, rep, end, start), OnThreads,
           StackInv(tree, rep, end, start), CallInv(rep, end, start), step_pop
    PROVE  StackInv(tree, rep, end, start)' /\ CallInv(rep, end, start)'
<1>1. /\ ScanTypes /\ StackFits(rep, end) /\ DescentFits(rep, end)
      /\ EntriesHold(end, start, stack) /\ DescentHolds(end, start)
  BY DEF StackInv
<1>2. PICK e, n, v, b, f, cs :
         /\ e = Last(stack) /\ n = e.node /\ v = e.ver /\ b = e.byte
         /\ f = Front(stack) /\ cs = <<CheckOf(n, v)>>
  OBVIOUS
<1>3. /\ pc[Scanner] = "step" /\ todo[Scanner] = <<>> /\ stack # <<>>
      /\ nodes[n].kind # "leaf" => siblings(nodes[n], b, fwd) = {}
      /\ todo' = [todo EXCEPT ![Scanner] = cs] /\ stack' = f
      /\ UNCHANGED <<opVars, pc, rcsVars, torn, scan, walk, after, callVars, lost>>
      /\ UNCHANGED <<root, nodes, word, map>> /\ held' = held
  BY <1>2 DEF step_pop, Here, Ready, pop, top, valid, OnLeaf, PlanChecks, Untouched, Unread, treeVars
<1>4. /\ TreeFits(tree, rep, end, start)
      /\ IsUsed(n) /\ n \in Node /\ n \in Lock /\ n # Nil /\ Past(n, v) /\ v \in Nat
      /\ stack \in Seq(StackEntry)
      /\ f \in Seq(StackEntry) /\ StackPath(rep, end, f) /\ EntriesHold(end, start, f)
      /\ f # <<>> => /\ IsInode(Last(f).node)
                     /\ GoodKid(rep, end, Last(f).node, Last(f).byte, n)
      /\ word[n] = v => n \in tree /\ start[n] <= Above(end, f, Len(f) + 1)
  BY <1>2, <1>3, AtTop
<1>5. IsInode(n) => siblings(nodes[n], b, fwd) = {}
  BY <1>3, <1>4, NodeFacts
<1>7. /\ todo'[Scanner] = cs /\ PastChecks(cs) /\ (AllCurrent(cs) <=> word[n] = v)
  BY <1>2, <1>3, <1>4, CheckIs, ChecksFew, ScannerAssumption DEF OnThreads, IsOnThreads
<1>8. pc'[Scanner] = "step" /\ ~Descending' /\ ~Descending
  BY <1>3 DEF Descending
<1>11. ScanTypes'
  BY <1>1, <1>3, <1>7, <1>8, Still
     DEF ScanTypes, ScanLabels, opVars, rcsVars, callVars, Descending, fwd
<1>12. StackFits(rep, end)' /\ EntriesHold(end, start, stack)'
  BY <1>3, <1>4, <1>8, Still DEF StackFits
<1>13. CallInv(rep, end, start)'
  <2> SUFFICES ASSUME Hopeful' PROVE CallKnows(rep, end, start)'
    BY <1>8 DEF CallInv
  <2>1. word[n] = v /\ n \in tree /\ ~lost
    BY <1>3, <1>4, <1>7, Still DEF Hopeful
  <2>2. Steps(rep, end)
    <3>1. Hopeful
      BY <1>3, <1>8, <2>1, ChecksFew DEF Hopeful
    <3> QED
      BY <1>3, <3>1 DEF CallInv, CallKnows
  <2>3. op'[Scanner] = op[Scanner] /\ key'[Scanner] = key[Scanner] /\ steady' = steady
    BY <1>3 DEF opVars, callVars
  <2>4. \A i \in DOMAIN f : StepsOn(rep, end, f[i])
    BY <1>2, <1>3, <1>4, <2>2, StepsPop DEF Steps
  <2>5. ASSUME NEW k \in steady, Passed(k) PROVE f # <<>> /\ Onward(rep, end, k, Last(f))
    <3>1. k \in Key /\ map[k] # Nil
      BY <1>1, <1>3 DEF ScanTypes, bound
    <3>2. Onward(rep, end, k, e)
      BY <1>2, <2>2, <2>5 DEF Steps, top
    <3>3. /\ n \in tree /\ n = e.node /\ start[n] <= Above(end, f, Len(f) + 1)
          /\ IsInode(n) => siblings(nodes[n], e.byte, fwd) = {}
      BY <1>2, <1>4, <1>5, <2>1
    <3>4. /\ TreeFits(tree, rep, end, start) /\ f \in Seq(StackEntry)
          /\ f # <<>> => /\ IsInode(Last(f).node)
                         /\ GoodKid(rep, end, Last(f).node, Last(f).byte, n)
      BY <1>4
    <3> QED
      BY <3>1, <3>2, <3>3, <3>4, OnwardPopped
  <2>6. Steps(rep, end)'
    BY <1>3, <2>3, <2>4, <2>5, OrderStill DEF Steps, valid, top
  <2> QED
    BY <1>8, <2>6 DEF CallKnows
<1> QED
  BY <1>8, <1>11, <1>12, <1>13 DEF StackInv, DescentFits, DescentHolds

\* Nothing is left on the stack.
LEMMA AtEndKeeps ==
    ASSUME NEW tree, NEW rep, NEW end, NEW start, View(tree, rep, end, start), OnThreads,
           StackInv(tree, rep, end, start), CallInv(rep, end, start), at_end
    PROVE  StackInv(tree, rep, end, start)' /\ CallInv(rep, end, start)'
<1>1. /\ ScanTypes /\ StackFits(rep, end) /\ DescentFits(rep, end)
      /\ EntriesHold(end, start, stack) /\ DescentHolds(end, start)
  BY DEF StackInv
<1>3. /\ pc[Scanner] \in {"step", "backtrack"} /\ todo[Scanner] = <<>> /\ stack = <<>>
      /\ pc' = [pc EXCEPT ![Scanner] = "positioned"]
      /\ UNCHANGED <<opVars, rcsVars, todo, torn, scan, stack, walk, after, callVars, lost>>
      /\ UNCHANGED <<root, nodes, word, map>> /\ held' = held
  BY DEF at_end, Here, Ready, valid, Goto, Untouched, Unread, treeVars
<1>7. pc'[Scanner] = "positioned" /\ todo'[Scanner] = <<>>
  BY <1>3, ScannerAssumption DEF OnThreads, IsOnThreads
<1>8. ~Descending' /\ ~Descending
  BY <1>3, <1>7 DEF Descending
<1>11. ScanTypes'
  BY <1>1, <1>3, <1>7, <1>8, Still
     DEF ScanTypes, ScanLabels, opVars, rcsVars, callVars, Descending, fwd
<1>12. StackFits(rep, end)' /\ EntriesHold(end, start, stack)'
  BY <1>1, <1>3, <1>7, Still DEF StackFits, valid
<1>13. CallInv(rep, end, start)'
  <2> SUFFICES ASSUME Hopeful' PROVE CallKnows(rep, end, start)'
    BY <1>7 DEF CallInv
  <2>1. Hopeful
    BY <1>3, <1>7, <1>8, Still DEF Hopeful
  <2>2. \A k \in steady : ~Passed(k)
    BY <1>3, <2>1 DEF CallInv, CallKnows, Steps, valid
  <2>3. op'[Scanner] = op[Scanner] /\ key'[Scanner] = key[Scanner] /\ steady' = steady
    BY <1>3 DEF opVars, callVars
  <2>4. Lands'
    BY <1>3, <2>2, <2>3, OrderStill DEF Lands, valid
  <2> QED
    BY <1>7, <1>8, <2>4 DEF CallKnows
<1> QED
  BY <1>8, <1>11, <1>12, <1>13 DEF StackInv, DescentFits, DescentHolds

\* Stepping on from an inode to its next child.
LEMMA StepSiblingKeeps ==
    ASSUME NEW tree, NEW rep, NEW end, NEW start, View(tree, rep, end, start), OnThreads,
           StackInv(tree, rep, end, start), CallInv(rep, end, start), step_sibling
    PROVE  StackInv(tree, rep, end, start)' /\ CallInv(rep, end, start)'
<1>1. /\ ScanTypes /\ StackFits(rep, end) /\ DescentFits(rep, end)
      /\ EntriesHold(end, start, stack) /\ DescentHolds(end, start)
  BY DEF StackInv
<1>2. PICK t, n, v, x, S, b, c, e, f, s2, cs :
         /\ t = Last(stack) /\ n = t.node /\ v = t.ver /\ x = t.byte
         /\ S = siblings(nodes[n], x, fwd) /\ b = nearest(S, fwd) /\ c = nodes[n].kids[b]
         /\ e = [node |-> n, byte |-> b, ver |-> v] /\ f = Front(stack)
         /\ s2 = Append(f, e) /\ cs = <<CheckOf(n, v)>>
  OBVIOUS
<1>3. /\ pc[Scanner] = "step" /\ todo[Scanner] = <<>> /\ stack # <<>>
      /\ nodes[n].kind # "leaf" /\ S # {}
      /\ stack' = s2 /\ DescendTo(n, v, c) /\ todo' = [todo EXCEPT ![Scanner] = cs]
      /\ walk' = Traversal(fwd) /\ after' = Positioned
      /\ UNCHANGED <<opVars, depth, torn, scan, callVars, lost>>
      /\ UNCHANGED <<root, nodes, word, map>> /\ held' = held
  BY <1>2 DEF step_sibling, Here, Ready, push, pop, top, valid, OnLeaf, PlanChecks, Untouched,
              Unread, treeVars
<1>4. /\ TreeFits(tree, rep, end, start)
      /\ IsUsed(n) /\ n \in Node /\ n \in Lock /\ n # Nil /\ Past(n, v) /\ v \in Nat
      /\ stack \in Seq(StackEntry)
      /\ IsInode(n) => x \in Byte
      /\ f \in Seq(StackEntry) /\ StackPath(rep, end, f) /\ EntriesHold(end, start, f)
      /\ f # <<>> => /\ IsInode(Last(f).node)
                     /\ GoodKid(rep, end, Last(f).node, Last(f).byte, n)
      /\ f # <<>> /\ CurrentEntry(Last(f)) => nodes[Last(f).node].kids[Last(f).byte] = n
      /\ word[n] = v => n \in tree /\ start[n] <= Above(end, f, Len(f) + 1)
  BY <1>2, <1>3, AtTop
<1>5. IsInode(n) /\ fwd \in BOOLEAN /\ walk' \in {"left_most", "right_most"}
  <2>1. IsInode(n) /\ fwd \in BOOLEAN
    BY <1>1, <1>3, <1>4, NodeFacts DEF ScanTypes
  <2> QED
    BY <1>3, <2>1 DEF Traversal
<1>6. /\ b \in Byte /\ b \in S /\ b \in DOMAIN nodes[n].kids /\ GoodKid(rep, end, n, b, c)
      /\ IsUsed(c) /\ c \in Lock /\ c # Nil
      /\ \A y \in S : IF fwd THEN b <= y ELSE y <= b
  <2>1. S \subseteq DOMAIN nodes[n].kids
    BY <1>2 DEF siblings
  <2>2. S \in SUBSET Byte
    BY <1>4, <1>5, <2>1, NodeFacts
  <2>3. b \in S /\ \A y \in S : IF fwd THEN b <= y ELSE y <= b
    BY <1>2, <1>3, <1>5, <2>2, NearestIs
  <2>4. b \in Byte /\ b \in DOMAIN nodes[n].kids /\ GoodKid(rep, end, n, b, c)
    BY <1>2, <1>4, <1>5, <2>1, <2>3, NodeFacts
  <2>5. IsUsed(c)
    BY <2>4 DEF GoodKid
  <2> QED
    BY <1>4, <2>3, <2>4, <2>5, NodeFacts
<1>7. /\ todo'[Scanner] = cs /\ PastChecks(cs) /\ cs # <<>> /\ Head(cs) = CheckOf(n, v)
      /\ AllCurrent(cs) <=> word[n] = v
  BY <1>2, <1>3, <1>4, CheckIs, ChecksFew, ScannerAssumption DEF OnThreads, IsOnThreads
<1>8. /\ pc'[Scanner] = "lock_node" /\ at'[Scanner] \in [Role -> Lock]
      /\ ver'[Scanner] \in [Role -> Nat] /\ at'[Scanner]["node"] = c
  BY <1>3, <1>4, <1>6, Descended
<1>9. e \in StackEntry /\ e.node = n /\ e.byte = b /\ e.ver = v
  BY <1>2, <1>4, <1>6, InodeEntry
<1>10. s2 # <<>> /\ Last(s2) = e /\ s2 \in Seq(StackEntry)
  BY <1>2, <1>4, <1>9, Pushed
<1>11. ScanTypes'
  <2>1. PastChecks(<<>>)
    BY ChecksFew
  <2> QED
    BY <1>1, <1>3, <1>5, <1>7, <1>8, <2>1, Still
       DEF ScanTypes, ScanLabels, opVars, callVars, Descending, fwd, Positioned
<1>12. StackFits(rep, end)'
  <2>1. StackPath(rep, end, s2)
    BY <1>2, <1>4, <1>6, <1>9, PushFits
  <2> QED
    BY <1>3, <1>8, <2>1, Still DEF StackFits
<1>13. EntriesHold(end, start, stack)'
  <2>1. EntriesHold(end, start, s2)
    <3>1. CurrentEntry(e) => start[n] <= Above(end, f, Len(f) + 1)
      BY <1>4, <1>9 DEF CurrentEntry
    <3> QED
      BY <1>2, <1>4, <1>6, <1>9, <3>1, PushHolds
  <2> QED
    BY <1>3, <2>1, Still
<1>14. DescentFits(rep, end)' /\ DescentHolds(end, start)'
  <2>1. /\ UNCHANGED <<root, nodes, word, map>> /\ v \in Nat /\ c \in Lock /\ IsInode(n)
        /\ Past(n, v) /\ n \in Lock /\ DescendTo(n, v, c) /\ stack' = s2 /\ s2 # <<>>
        /\ Last(s2).node = n /\ Last(s2).byte = b /\ Last(s2).ver = v
        /\ todo'[Scanner] = cs /\ cs # <<>> /\ Head(cs) = CheckOf(n, v)
        /\ GoodKid(rep, end, n, b, c) /\ c # Nil /\ nodes[n].kids[b] = c
    BY <1>2, <1>3, <1>4, <1>5, <1>6, <1>7, <1>9, <1>10
  <2> QED
    BY <2>1, DescendFits
<1>15. CallInv(rep, end, start)'
  <2> SUFFICES ASSUME Hopeful' PROVE CallKnows(rep, end, start)'
    BY <1>8 DEF CallInv
  <2>1. word[n] = v /\ n \in tree /\ ~lost
    BY <1>3, <1>4, <1>7, Still DEF Hopeful
  <2>2. PICK a, l : a = key[Scanner] /\ l = end[n]
    OBVIOUS
  <2>3. Steps(rep, end)
    <3>1. Hopeful
      BY <1>3, <2>1, ChecksFew DEF Hopeful, Descending
    <3> QED
      BY <1>3, <3>1 DEF CallInv, CallKnows
  <2>4. SameTo(a, rep[n], l) /\ a[l + 1] = x
    <3>1. StepsOn(rep, end, t)
      BY <1>2, <1>3, <1>4, <2>3, StepsPop DEF Steps
    <3>2. ~IsLeaf(n) /\ CurrentEntry(t) /\ siblings(nodes[n], x, fwd) # {}
      BY <1>2, <1>3, <2>1 DEF IsLeaf, CurrentEntry
    <3>3. Through(rep, end, a, t)
      BY <1>2, <2>2, <3>1, <3>2 DEF StepsOn
    <3> QED
      BY <1>2, <1>5, <2>2, <3>3 DEF Through
  <2>5. /\ op[Scanner] \in {"seek", "next"} /\ a \in Key /\ start[n] \in Nat /\ start[n] <= l
        /\ KeyLen \in Nat /\ l \in Nat /\ l + 1 \in Nat /\ l + 1 <= KeyLen /\ l + 1 \in 1 .. KeyLen
    <3>1. op[Scanner] \in {"seek", "next"} /\ a \in Key
      BY <1>1, <1>3, <2>2 DEF ScanTypes
    <3>2. l \in 0 .. KeyLen - 1 /\ start[n] \in 0 .. KeyLen /\ start[n] <= l
      BY <1>4, <1>5, <2>1, <2>2, NodeFacts, TreeFacts
    <3> QED
      BY <3>1, <3>2, KeyAssumption
  <2>6. /\ op'[Scanner] = op[Scanner] /\ key'[Scanner] = key[Scanner] /\ steady' = steady
        /\ top' = e /\ valid'
    BY <1>3, <1>10 DEF opVars, callVars, top, valid
  <2>7. ASSUME NEW k \in Key, SameTo(k, rep[c], end[c]) PROVE Passed(k)
    <3>1. SameTo(k, rep[n], l) /\ k[l + 1] = b
      BY <1>4, <1>5, <1>6, <2>2, <2>7, KidKeys
    <3>2. Further(k[l + 1], a[l + 1])
      BY <1>2, <1>6, <2>4, <3>1 DEF siblings, Further
    <3>3. SameTo(k, a, (l + 1) - 1)
      BY <2>4, <2>5, <3>1 DEF SameTo
    <3>4. AheadOf(k, a, l + 1)
      <4>1. l + 1 \in 1 .. l + 1
        BY <2>5
      <4> QED
        BY <3>2, <3>3, <4>1 DEF AheadOf
    <3>5. AheadOf(k, a, KeyLen)
      BY <2>5, <3>4, AheadLonger
    <3> QED
      BY <1>5, <2>2, <2>5, <3>5, PassedFacts
  <2>8. ASSUME NEW k \in steady, Passed(k)
        PROVE  Through(rep, end, k, e) \/ Onward(rep, end, k, e)
    <3>1. k \in Key /\ map[k] # Nil /\ k \in Bytes
      BY <1>1, <1>3, KeyBytes DEF ScanTypes, bound
    <3>2. \/ AheadOf(k, rep[n], l)
          \/ SameTo(k, rep[n], l) /\ Further(k[l + 1], x)
      BY <1>2, <2>2, <2>3, <2>8 DEF Steps, top, Onward
    <3>3. ASSUME SameTo(k, rep[n], l), Further(k[l + 1], x)
          PROVE  k[l + 1] = b \/ Further(k[l + 1], b)
      <4>1. SameTo(k, rep[n], start[n])
        BY <2>5, <3>3, AheadLonger
      <4>2. k[l + 1] \in DOMAIN nodes[n].kids
        BY <1>4, <1>5, <2>1, <2>2, <3>1, <4>1, BoundLeads
      <4>3. k[l + 1] \in S
        BY <1>2, <3>3, <4>2 DEF siblings, Further
      <4>4. k[l + 1] \in Nat /\ b \in Nat
        BY <1>6, <2>5, <3>1, ByteOrder, KeyAssumption
      <4> QED
        BY <1>6, <4>3, <4>4 DEF Further
    <3> QED
      BY <1>5, <1>9, <2>2, <3>2, <3>3 DEF Through, Onward
  <2>9. Finds(rep, end)'
    BY <1>3, <1>8, <2>6, <2>7, <2>8, OrderStill
       DEF Finds, ThisNode, Traversal, Positioned
  <2> QED
    BY <1>5, <1>8, <2>9 DEF CallKnows
<1> QED
  BY <1>11, <1>12, <1>13, <1>14, <1>15 DEF StackInv

\* The empty stack.
LEMMA EmptyStack ==
    ASSUME NEW rep, NEW end, NEW start
    PROVE  StackPath(rep, end, <<>>) /\ EntriesHold(end, start, <<>>)
<1>1. <<>> \in Seq(StackEntry) /\ DOMAIN <<>> = {} /\ Len(<<>>) = 0
  OBVIOUS
<1>2. 1 .. 0 - 1 = {}
  OBVIOUS
<1> QED
  BY <1>1, <1>2 DEF StackPath, EntriesHold

\* Nowhere is a function from roles.
LEMMA NowhereIs ==
    /\ Nowhere \in [Role -> Lock] /\ Nowhere \in [Role -> Nat] /\ Nowhere["parent"] = Nil
    /\ Nil \in Lock /\ Nil \in Nat
  BY BoundAssumption DEF Nowhere, Role, Lock, Nil

\* The root is read.
LEMMA LoadRootKeeps ==
    ASSUME NEW tree, NEW rep, NEW end, NEW start, View(tree, rep, end, start), OnThreads,
           StackInv(tree, rep, end, start), CallInv(rep, end, start), it_load_root
    PROVE  StackInv(tree, rep, end, start)' /\ CallInv(rep, end, start)'
<1>1. /\ ScanTypes /\ StackFits(rep, end) /\ DescentFits(rep, end)
      /\ EntriesHold(end, start, stack) /\ DescentHolds(end, start)
  BY DEF StackInv
<1>2. PICK w, cs : w = ver[Scanner]["parent"] /\ cs = <<CheckOf(Nil, w)>>
  OBVIOUS
<1>3. /\ pc[Scanner] = "load_root" /\ todo[Scanner] = <<>> /\ stack' = <<>> /\ after' = Positioned
      /\ walk' = (IF op[Scanner] = "first" THEN Traversal(fwd) ELSE "seek") /\ lost' = FALSE
      /\ todo' = [todo EXCEPT ![Scanner] = <<CheckOf(at[Scanner]["parent"], w)>>]
      /\ at' = [at EXCEPT ![Scanner]["node"] = root]
      /\ pc' = [pc EXCEPT ![Scanner] = IF root = Nil THEN "positioned" ELSE "lock_node"]
      /\ UNCHANGED <<opVars, depth, ver, torn, scan, callVars>>
      /\ UNCHANGED <<root, nodes, word, map>> /\ held' = held
  BY <1>2 DEF it_load_root, Here, Ready, PlanChecks, Check, Goto, Untouched, Unread, treeVars
<1>4. TreeFits(tree, rep, end, start) /\ fwd \in BOOLEAN
  BY <1>1 DEF View, ScanTypes
<1>5. /\ at[Scanner]["parent"] = Nil /\ at[Scanner] \in [Role -> Lock] /\ depth[Scanner] = 0
      /\ w \in Nat /\ Past(Nil, w) /\ Scanner \notin torn
      /\ root \in Lock /\ (root # Nil => IsUsed(root)) /\ (root = Nil => tree = {})
  <2>1. /\ at[Scanner] = Nowhere /\ depth[Scanner] = 0 /\ w \in Nat /\ Past(Nil, w)
        /\ Scanner \notin torn
    BY <1>1, <1>2, <1>3 DEF ScanTypes, Role
  <2>2. root \in Lock /\ (root # Nil => IsUsed(root)) /\ (root = Nil => tree = {})
    BY <1>4, TreeFacts DEF TreeFits, TreeTypes
  <2> QED
    BY <2>1, <2>2, NowhereIs
<1>6. /\ pc'[Scanner] = (IF root = Nil THEN "positioned" ELSE "lock_node")
      /\ todo'[Scanner] = cs /\ at'[Scanner] = [at[Scanner] EXCEPT !["node"] = root]
  BY <1>2, <1>3, <1>5, ScannerAssumption DEF OnThreads, IsOnThreads
<1>7. /\ at'[Scanner] \in [Role -> Lock] /\ at'[Scanner]["node"] = root
      /\ at'[Scanner]["parent"] = Nil
  BY <1>5, <1>6 DEF Role
<1>8. /\ PastChecks(cs) /\ cs # <<>> /\ PastChecks(<<>>)
      /\ walk' \in {"seek", "left_most", "right_most"}
      /\ walk' = "seek" => op[Scanner] # "first"
      /\ after'.checks = <<>> /\ after'.goto = "positioned"
  <2>1. CheckOf(Nil, w) \in Checks /\ CheckOf(Nil, w).on = Nil /\ CheckOf(Nil, w).ver = w
    BY <1>5, CheckIs, NowhereIs
  <2> QED
    BY <1>2, <1>3, <1>5, <2>1, ChecksFew DEF Traversal, Positioned
<1>11. ScanTypes'
  <2>1. pc'[Scanner] \in {"positioned", "lock_node"}
    BY <1>6
  <2>2. /\ UNCHANGED <<op, key, ever, steady>> /\ depth' = depth /\ ver' = ver /\ torn' = torn
        /\ scan' = scan /\ lost' = FALSE /\ after' = Positioned /\ held' = held
    BY <1>3 DEF opVars, callVars
  <2>3. PastChecks(todo[Scanner])' /\ PastChecks(after.checks)'
    BY <1>3, <1>6, <1>8, Still
  <2>4. bound' = bound /\ fwd' = fwd
    BY <1>3, Still DEF fwd
  <2> QED
    BY <1>1, <1>3, <1>5, <1>7, <1>8, <2>1, <2>2, <2>3, <2>4 DEF ScanTypes, ScanLabels, Descending
<1>12. StackFits(rep, end)' /\ EntriesHold(end, start, stack)'
  BY <1>3, <1>6, EmptyStack, Still DEF StackFits, valid
<1>13. DescentFits(rep, end)'
  BY <1>2, <1>3, <1>5, <1>6, <1>7, Still DEF DescentFits, ThisNode, valid, Descending
<1>14. DescentHolds(end, start)'
  BY <1>3, <1>6, <1>7 DEF DescentHolds, ThisNode, valid, Descending
<1>15. CallInv(rep, end, start)'
  <2> SUFFICES ASSUME Hopeful' PROVE CallKnows(rep, end, start)'
    BY <1>6 DEF CallInv
  <2>1. op'[Scanner] = op[Scanner] /\ key'[Scanner] = key[Scanner] /\ steady' = steady
    BY <1>3 DEF opVars, callVars
  <2>2. CASE root = Nil
    <3>1. steady = {}
      <4>1. \A k \in steady : k \in Key /\ map[k] # Nil
        BY <1>1, <1>3 DEF ScanTypes, bound
      <4>2. \A k \in Key : map[k] # Nil => map[k] \in tree
        BY <1>4, TreeFacts DEF MapFits
      <4> QED
        BY <1>5, <2>2, <4>1, <4>2
    <3> QED
      BY <1>3, <1>6, <2>1, <2>2, <3>1 DEF CallKnows, Lands, valid, Descending
  <2>3. CASE root # Nil /\ op[Scanner] = "first"
    <3>1. \A k \in Key : Passed(k)
      BY <2>3, FirstPassed
    <3>2. Finds(rep, end)'
      BY <1>3, <2>1, <2>3, <3>1, OrderStill DEF Finds, valid, Positioned, Traversal
    <3>3. walk' # "seek"
      BY <1>3, <2>3 DEF Traversal
    <3> QED
      BY <1>6, <2>3, <3>2, <3>3 DEF CallKnows
  <2>4. CASE root # Nil /\ op[Scanner] # "first"
    <3>1. depth'[Scanner] = Above(end, <<>>, Len(<<>>) + 1)
      <4>1. Len(<<>>) + 1 = 1
        OBVIOUS
      <4> QED
        BY <1>3, <1>5, <4>1 DEF Above
    <3>2. Seeks(rep, end, start)'
      BY <1>3, <1>6, <2>4, <3>1 DEF Seeks, valid, Above
    <3> QED
      BY <1>3, <1>6, <2>4, <3>2 DEF CallKnows
  <2> QED
    BY <2>2, <2>3, <2>4
<1> QED
  BY <1>11, <1>12, <1>13, <1>14, <1>15 DEF StackInv

\* A scan begins.
LEMMA BeginKeeps ==
    ASSUME NEW tree, NEW rep, NEW end, NEW start, OnThreads,
           StackInv(tree, rep, end, start), NEW s, NEW o, NEW k, Begin(s, o, k),
           s.on, s.fwd \in BOOLEAN, o \in {"first", "seek"}, o = "seek" => k \in Key
    PROVE  StackInv(tree, rep, end, start)' /\ CallInv(rep, end, start)'
<1>1. /\ ScanTypes /\ StackFits(rep, end) /\ EntriesHold(end, start, stack)
  BY DEF StackInv
<1>2. /\ pc[Scanner] = "idle" /\ todo[Scanner] = <<>>
      /\ op' = [op EXCEPT ![Scanner] = o] /\ key' = [key EXCEPT ![Scanner] = k]
      /\ pc' = [pc EXCEPT ![Scanner] = "root_lock"]
      /\ ever' = bound /\ steady' = bound /\ after' = Positioned /\ scan' = s
      /\ UNCHANGED <<depth, at, ver, todo, torn, stack, walk, lost>>
      /\ UNCHANGED <<root, nodes, word, map>> /\ held' = held
  BY DEF Begin, Call, Goto, Here, Ready, Untouched, Unread, treeVars, rcsVars
<1>3. op'[Scanner] = o /\ key'[Scanner] = k /\ pc'[Scanner] = "root_lock"
  BY <1>2, ScannerAssumption DEF OnThreads, IsOnThreads
<1>4. /\ PastChecks(todo[Scanner])' /\ PastChecks(after.checks)' /\ after'.goto = "positioned"
  BY <1>2, ChecksFew, Still DEF Positioned
<1>5. bound' = bound /\ fwd' = s.fwd
  BY <1>2, Still DEF fwd
<1>6. ~Descending'
  BY <1>3 DEF Descending
<1>7. ScanTypes'
  BY <1>1, <1>2, <1>3, <1>4, <1>5, <1>6 DEF ScanTypes, ScanLabels
<1>8. StackFits(rep, end)' /\ EntriesHold(end, start, stack)'
  BY <1>1, <1>2, <1>3, Still DEF StackFits
<1>9. CallInv(rep, end, start)'
  BY <1>3, <1>6 DEF CallInv, CallKnows
<1> QED
  BY <1>6, <1>7, <1>8, <1>9 DEF StackInv, DescentFits, DescentHolds

\* The same of the scans.
LEMMA ScansBegin ==
    ASSUME NEW tree, NEW rep, NEW end, NEW start, OnThreads, StackInv(tree, rep, end, start),
           \/ \E f \in BOOLEAN : scan_all(f) \/ \E k \in Key : scan_from(k, f)
           \/ \E from, to \in Key : scan_range(from, to)
    PROVE  StackInv(tree, rep, end, start)' /\ CallInv(rep, end, start)'
<1>1. \A from, to, f : Scan(from, to, f).on /\ Scan(from, to, f).fwd = f
  BY DEF Scan
<1>2. ASSUME NEW f \in BOOLEAN, scan_all(f)
      PROVE  StackInv(tree, rep, end, start)' /\ CallInv(rep, end, start)'
  BY <1>1, <1>2, BeginKeeps DEF scan_all
<1>3. ASSUME NEW f \in BOOLEAN, NEW k \in Key, scan_from(k, f)
      PROVE  StackInv(tree, rep, end, start)' /\ CallInv(rep, end, start)'
  BY <1>1, <1>3, BeginKeeps DEF scan_from
<1>4. ASSUME NEW from \in Key, NEW to \in Key, scan_range(from, to)
      PROVE  StackInv(tree, rep, end, start)' /\ CallInv(rep, end, start)'
  <2>1. precedes(from, to) \in BOOLEAN
    BY DEF precedes
  <2>2. Begin(Scan(from, to, precedes(from, to)), "seek", from)
    BY <1>4 DEF scan_range
  <2> QED
    BY <1>1, <2>1, <2>2, BeginKeeps
<1> QED
  BY <1>2, <1>3, <1>4

\* A leaf is visited, and next or prior begins.
LEMMA VisitKeeps ==
    ASSUME NEW tree, NEW rep, NEW end, NEW start, View(tree, rep, end, start), OnThreads,
           StackInv(tree, rep, end, start), CallInv(rep, end, start), visit
    PROVE  StackInv(tree, rep, end, start)' /\ CallInv(rep, end, start)'
<1>1. /\ ScanTypes /\ StackFits(rep, end) /\ EntriesHold(end, start, stack)
  BY DEF StackInv
<1>2. PICK e, n, k : e = Last(stack) /\ n = e.node /\ k = nodes[n].key
  OBVIOUS
<1>3. /\ pc[Scanner] = "positioned" /\ todo[Scanner] = <<>> /\ stack # <<>>
      /\ op' = [op EXCEPT ![Scanner] = "next"] /\ key' = [key EXCEPT ![Scanner] = k]
      /\ pc' = [pc EXCEPT ![Scanner] = "step"]
      /\ ever' = bound /\ steady' = bound /\ after' = Positioned
      /\ UNCHANGED <<depth, at, ver, todo, torn, scan, stack, walk, lost>>
      /\ UNCHANGED <<root, nodes, word, map>> /\ held' = held
  BY <1>2 DEF visit, Call, Goto, Here, Ready, Untouched, Unread, treeVars, rcsVars, valid,
              current_key, top
<1>4. op'[Scanner] = "next" /\ key'[Scanner] = k /\ pc'[Scanner] = "step"
  BY <1>3, ScannerAssumption DEF OnThreads, IsOnThreads
<1>5. /\ TreeFits(tree, rep, end, start) /\ StackPath(rep, end, stack)
      /\ IsLeaf(n) /\ k \in Key /\ rep[n] = k /\ end[n] = KeyLen /\ ~IsInode(n)
  <2>1. TreeFits(tree, rep, end, start) /\ StackPath(rep, end, stack) /\ IsUsed(n) /\ IsLeaf(n)
    BY <1>1, <1>2, <1>3 DEF View, StackFits, valid, top, IsLeaf
  <2> QED
    BY <1>2, <2>1, NodeFacts
<1>6. PastChecks(todo[Scanner])' /\ PastChecks(after.checks)' /\ after'.goto = "positioned"
  BY <1>3, ChecksFew, Still DEF Positioned
<1>7. bound' = bound /\ fwd' = fwd
  BY <1>3, Still DEF fwd
<1>8. ~Descending'
  BY <1>4 DEF Descending
<1>9. ScanTypes'
  BY <1>1, <1>3, <1>4, <1>5, <1>6, <1>7, <1>8 DEF ScanTypes, ScanLabels
<1>10. StackFits(rep, end)' /\ EntriesHold(end, start, stack)'
  BY <1>1, <1>3, <1>4, <1>5, Still DEF StackFits
<1>11. \A i \in DOMAIN stack : StepsOn(rep, end, stack[i])'
  <2>1. Through(rep, end, k, e)
    BY <1>2, <1>5 DEF Through, SameTo
  <2>2. \A i \in DOMAIN stack : Through(rep, end, k, stack[i])
    BY <1>2, <1>3, <1>5, <2>1, ThroughAll
  <2>3. \A i \in DOMAIN stack : Through(rep, end, k, stack[i])'
    BY <1>3, <2>2, OrderStill
  <2> QED
    BY <1>3, <1>4, <2>3 DEF StepsOn
<1>12. ASSUME NEW j \in bound, Passed(j)' PROVE Onward(rep, end, j, e)'
  <2>1. j \in Key /\ j \in Bytes /\ k \in Bytes /\ fwd \in BOOLEAN
    BY <1>1, <1>5, KeyBytes DEF bound, ScanTypes
  <2>2. Before(k, j, fwd)
    BY <1>4, <1>7, <1>12 DEF Passed
  <2>3. AheadOf(j, k, KeyLen)
    BY <2>1, <2>2, BeforeIs
  <2>4. Onward(rep, end, j, e)
    BY <1>2, <1>5, <2>3 DEF Onward
  <2> QED
    BY <1>3, <2>4, OrderStill
<1>13. Steps(rep, end)'
  BY <1>2, <1>3, <1>11, <1>12 DEF Steps, valid, top
<1>14. CallInv(rep, end, start)'
  BY <1>4, <1>8, <1>13 DEF CallInv, CallKnows
<1> QED
  BY <1>8, <1>9, <1>10, <1>14 DEF StackInv, DescentFits, DescentHolds

\* A scan ends.
LEMMA FinishKeeps ==
    ASSUME NEW tree, NEW rep, NEW end, NEW start, OnThreads,
           StackInv(tree, rep, end, start), finish
    PROVE  StackInv(tree, rep, end, start)' /\ CallInv(rep, end, start)'
<1>1. ScanTypes
  BY DEF StackInv
<1>2. /\ pc[Scanner] = "positioned" /\ todo[Scanner] = <<>>
      /\ op' = [op EXCEPT ![Scanner] = "none"] /\ key' = [key EXCEPT ![Scanner] = NoKey]
      /\ pc' = [pc EXCEPT ![Scanner] = "idle"] /\ depth' = [depth EXCEPT ![Scanner] = 0]
      /\ at' = [at EXCEPT ![Scanner] = Nowhere] /\ ver' = [ver EXCEPT ![Scanner] = Nowhere]
      /\ torn' = torn \ {Scanner} /\ scan' = NoScan /\ stack' = <<>> /\ walk' = "seek"
      /\ after' = Positioned /\ lost' = FALSE /\ todo' = todo
      /\ UNCHANGED <<root, nodes, word, map>> /\ held' = held
  BY DEF finish, Goto, Here, Ready, Unread, treeVars
<1>3. /\ op'[Scanner] = "none" /\ pc'[Scanner] = "idle" /\ depth'[Scanner] = 0
      /\ at'[Scanner] = Nowhere /\ ver'[Scanner] = Nowhere
  BY <1>2, ScannerAssumption DEF OnThreads, IsOnThreads
<1>4. PastChecks(todo[Scanner])' /\ PastChecks(after.checks)' /\ after'.goto = "positioned"
  BY <1>2, ChecksFew, Still DEF Positioned
<1>5. fwd' = TRUE /\ ~scan'.on
  BY <1>2 DEF fwd, NoScan
<1>6. ~Descending'
  BY <1>3 DEF Descending
<1>7. ScanTypes'
  <2>1. held'[Scanner] = <<>> /\ Scanner \notin torn' /\ todo'[Scanner] = <<>>
    BY <1>1, <1>2 DEF ScanTypes
  <2>2. at'[Scanner] \in [Role -> Lock] /\ ver'[Scanner] \in [Role -> Nat] /\ depth'[Scanner] \in Nat
    BY <1>3, NowhereIs
  <2>3. after'.goto \in {"positioned", "step"} /\ walk' \in {"seek", "left_most", "right_most"}
        /\ fwd' \in BOOLEAN /\ lost' \in BOOLEAN
    BY <1>2, <1>4, <1>5
  <2> QED
    BY <1>3, <1>4, <1>5, <1>6, <2>1, <2>2, <2>3 DEF ScanTypes, ScanLabels
<1>8. StackFits(rep, end)' /\ EntriesHold(end, start, stack)'
  BY <1>2, <1>3, EmptyStack, Still DEF StackFits
<1>9. CallInv(rep, end, start)'
  BY <1>3, <1>6 DEF CallInv, CallKnows
<1> QED
  BY <1>6, <1>7, <1>8, <1>9 DEF StackInv, DescentFits, DescentHolds

\* While the version of the parent is current the descent is at its child.
LEMMA ReachedFrom ==
    ASSUME NEW tree, NEW rep, NEW end, NEW start, View(tree, rep, end, start),
           StackInv(tree, rep, end, start), Descending, NEW n, n = ThisNode, n # Nil,
           word[at[Scanner]["parent"]] = ver[Scanner]["parent"]
    PROVE  n \in tree /\ start[n] = Above(end, stack, Len(stack) + 1)
<1>1. /\ ScanTypes /\ StackFits(rep, end) /\ DescentFits(rep, end)
      /\ EntriesHold(end, start, stack) /\ DescentHolds(end, start)
  BY DEF StackInv
<1>2. TreeFits(tree, rep, end, start)
  BY DEF View
<1>3. stack \in Seq(StackEntry)
  BY <1>1 DEF StackFits, StackPath
<1>4. CASE stack = <<>>
  <2>1. root = n
    BY <1>1, <1>4 DEF DescentFits, DescentHolds
  <2>2. n \in tree /\ start[n] = 0
    BY <1>2, <2>1, TreeFacts
  <2> QED
    BY <1>3, <1>4, <2>2, AboveIs
<1>5. CASE stack # <<>>
  <2>1. PICK p, v, b : p = Last(stack).node /\ v = Last(stack).ver /\ b = Last(stack).byte
    OBVIOUS
  <2>2. IsInode(p) /\ word[p] = v
    BY <1>1, <1>5, <2>1 DEF DescentFits, valid, top
  <2>3. p \in tree /\ b \in DOMAIN nodes[p].kids
    BY <1>5, <2>1, <2>2, AtTop
  <2>4. nodes[p].kids[b] = n
    BY <1>1, <1>5, <2>1, <2>2 DEF DescentHolds, valid, top, CurrentEntry
  <2>5. n \in tree /\ start[n] = end[p] + 1
    BY <1>2, <2>2, <2>3, <2>4, TreeFacts
  <2> QED
    BY <1>3, <1>5, <2>1, <2>5, AboveIs
<1> QED
  BY <1>4, <1>5

\* The scanner starts over.
LEMMA RestartKeeps ==
    ASSUME NEW tree, NEW rep, NEW end, NEW start, OnThreads,
           StackInv(tree, rep, end, start), Restart(Scanner), UNCHANGED scanVars,
           pc[Scanner] # "idle"
    PROVE  StackInv(tree, rep, end, start)' /\ CallInv(rep, end, start)'
<1>1. /\ ScanTypes /\ StackFits(rep, end) /\ EntriesHold(end, start, stack)
  BY DEF StackInv
<1>2. /\ todo' = [todo EXCEPT ![Scanner] = Unlocks(held[Scanner])]
      /\ held' = [held EXCEPT ![Scanner] = <<>>] /\ depth' = [depth EXCEPT ![Scanner] = 0]
      /\ at' = [at EXCEPT ![Scanner] = Nowhere] /\ ver' = [ver EXCEPT ![Scanner] = Nowhere]
      /\ torn' = torn \ {Scanner} /\ pc' = [pc EXCEPT ![Scanner] = "root_lock"]
      /\ UNCHANGED <<op, key>> /\ UNCHANGED <<scan, stack, walk, after, ever, steady, lost>>
      /\ UNCHANGED <<root, nodes, word, map>>
  BY DEF Restart, Goto, treeVars, opVars, scanVars, callVars
<1>3. Unlocks(held[Scanner]) = <<>>
  BY <1>1 DEF ScanTypes, Unlocks
<1>4. /\ todo'[Scanner] = <<>> /\ held'[Scanner] = <<>> /\ depth'[Scanner] = 0
      /\ at'[Scanner] = Nowhere /\ ver'[Scanner] = Nowhere /\ pc'[Scanner] = "root_lock"
  BY <1>2, <1>3, ScannerAssumption DEF OnThreads, IsOnThreads
<1>5. PastChecks(todo[Scanner])' /\ PastChecks(after.checks)'
  <2>1. PastChecks(<<>>)' /\ PastChecks(after.checks)
    BY <1>1, ChecksFew, <1>2, Still DEF ScanTypes
  <2> QED
    BY <1>2, <1>4, <2>1, Still
<1>6. ~Descending' /\ bound' = bound /\ fwd' = fwd
  BY <1>2, <1>4, Still DEF Descending, fwd
<1>7. ScanTypes'
  <2>1. at'[Scanner] \in [Role -> Lock] /\ ver'[Scanner] \in [Role -> Nat] /\ depth'[Scanner] \in Nat
    BY <1>4, NowhereIs
  <2>2. Scanner \notin torn'
    BY <1>2
  <2> QED
    BY <1>1, <1>2, <1>4, <1>5, <1>6, <2>1, <2>2 DEF ScanTypes, ScanLabels
<1>8. StackFits(rep, end)' /\ EntriesHold(end, start, stack)'
  BY <1>1, <1>2, <1>4, Still DEF StackFits
<1>9. CallInv(rep, end, start)'
  BY <1>4, <1>6 DEF CallInv, CallKnows
<1> QED
  BY <1>6, <1>7, <1>8, <1>9 DEF StackInv, DescentFits, DescentHolds

\* It takes a version of the root pointer's lock.
LEMMA ReadLockRootKeeps ==
    ASSUME NEW tree, NEW rep, NEW end, NEW start, View(tree, rep, end, start), OnThreads,
           StackInv(tree, rep, end, start), try_read_lock_root(Scanner), UNCHANGED scanVars
    PROVE  StackInv(tree, rep, end, start)' /\ CallInv(rep, end, start)'
<1>1. /\ ScanTypes /\ StackFits(rep, end) /\ EntriesHold(end, start, stack)
  BY DEF StackInv
<1>2. /\ pc[Scanner] = "root_lock" /\ todo[Scanner] = <<>> /\ word[Nil] % 4 = 0
      /\ ver' = [ver EXCEPT ![Scanner]["parent"] = word[Nil]]
      /\ pc' = [pc EXCEPT ![Scanner] = "load_root"]
      /\ UNCHANGED <<op, key, depth, at, todo, held, torn>>
      /\ UNCHANGED <<scan, stack, walk, after, ever, steady, lost>>
      /\ UNCHANGED <<root, nodes, word, map>>
  BY DEF try_read_lock_root, Ready, is_free, Goto, treeVars, historyVars, opVars, scanVars, callVars
<1>3. /\ pc'[Scanner] = "load_root" /\ ver'[Scanner] = [ver[Scanner] EXCEPT !["parent"] = word[Nil]]
      /\ word[Nil] \in Nat /\ ver[Scanner] \in [Role -> Nat]
  BY <1>1, <1>2, ScannerAssumption, NowhereIs DEF OnThreads, IsOnThreads, View, ScanTypes
<1>4. ver'[Scanner] \in [Role -> Nat] /\ ver'[Scanner]["parent"] = word[Nil] /\ Past(Nil, word[Nil])
  BY <1>2, <1>3 DEF Role, Past
<1>5. PastChecks(todo[Scanner])' /\ PastChecks(after.checks)'
  BY <1>1, <1>2, Still DEF ScanTypes
<1>6. ~Descending' /\ bound' = bound /\ fwd' = fwd /\ Past(Nil, ver[Scanner]["parent"])'
  BY <1>2, <1>3, <1>4, Still DEF Descending, fwd
<1>7. ScanTypes'
  BY <1>1, <1>2, <1>3, <1>4, <1>5, <1>6 DEF ScanTypes, ScanLabels
<1>8. StackFits(rep, end)' /\ EntriesHold(end, start, stack)'
  BY <1>1, <1>2, <1>3, Still DEF StackFits
<1>9. CallInv(rep, end, start)'
  BY <1>3, <1>6 DEF CallInv, CallKnows
<1> QED
  BY <1>6, <1>7, <1>8, <1>9 DEF StackInv, DescentFits, DescentHolds

\* It takes a version of the node's lock.
LEMMA ReadLockKeeps ==
    ASSUME NEW tree, NEW rep, NEW end, NEW start, View(tree, rep, end, start), OnThreads,
           StackInv(tree, rep, end, start), CallInv(rep, end, start),
           try_read_lock(Scanner, "node"), UNCHANGED scanVars
    PROVE  StackInv(tree, rep, end, start)' /\ CallInv(rep, end, start)'
<1>1. /\ ScanTypes /\ StackFits(rep, end) /\ DescentFits(rep, end)
      /\ EntriesHold(end, start, stack) /\ DescentHolds(end, start)
  BY DEF StackInv
<1>2. PICK n, v, p, w, cs :
         /\ n = ThisNode /\ v = word[n] /\ p = at[Scanner]["parent"] /\ w = ver[Scanner]["parent"]
         /\ cs = <<CheckOf(p, w)>>
  OBVIOUS
<1>3. /\ pc[Scanner] = "lock_node" /\ todo[Scanner] = <<>> /\ v % 4 = 0
      /\ ver' = [ver EXCEPT ![Scanner]["node"] = v]
      /\ pc' = [pc EXCEPT ![Scanner] = "at_node"]
      /\ UNCHANGED <<op, key, depth, at, held, torn>>
      /\ UNCHANGED <<scan, stack, walk, after, ever, steady, lost>>
      /\ UNCHANGED <<root, nodes, word, map>>
  BY <1>2 DEF try_read_lock, Ready, is_free, Goto, treeVars, historyVars, opVars, scanVars,
              callVars, ThisNode
<1>4. Descending /\ n # Nil /\ IsUsed(n) /\ TreeFits(tree, rep, end, start)
  BY <1>1, <1>2, <1>3 DEF DescentFits, Descending, View
<1>5. n \in Lock /\ v \in Nat /\ Past(n, v) /\ p \in Lock /\ w \in Nat /\ Past(p, w)
  <2>1. n \in Lock
    BY <1>4, NodeFacts
  <2>2. v \in Nat /\ Past(n, v)
    BY <1>2, <1>3, <2>1 DEF View, Past
  <2> QED
    BY <1>1, <1>2, <1>4, <2>1, <2>2, AtParent
<1>6. todo' = [todo EXCEPT ![Scanner] = cs]
  <2>1. op[Scanner] \notin {"insert", "remove"}
    BY <1>1 DEF ScanTypes
  <2>2. Plan(Scanner, << <<"check", "parent">> >>)
    BY <2>1 DEF try_read_lock
  <2>3. [i \in DOMAIN << <<"check", "parent">> >> |->
            [do |-> << <<"check", "parent">> >>[i][1],
             on |-> at[Scanner][<< <<"check", "parent">> >>[i][2]],
             ver |-> ver[Scanner][<< <<"check", "parent">> >>[i][2]]]] = cs
    BY <1>2 DEF CheckOf
  <2> QED
    BY <2>2, <2>3 DEF Plan
<1>7. /\ pc'[Scanner] = "at_node" /\ ver'[Scanner] = [ver[Scanner] EXCEPT !["node"] = v]
      /\ todo'[Scanner] = cs /\ ver[Scanner] \in [Role -> Nat]
  BY <1>1, <1>3, <1>6, ScannerAssumption DEF OnThreads, IsOnThreads, ScanTypes
<1>8. /\ ver'[Scanner] \in [Role -> Nat] /\ ver'[Scanner]["parent"] = w
      /\ ver'[Scanner]["node"] = v /\ at'[Scanner] = at[Scanner]
  BY <1>2, <1>3, <1>5, <1>7 DEF Role
<1>9. PastChecks(cs) /\ (AllCurrent(cs) <=> word[p] = w) /\ cs # <<>>
  <2>1. CheckOf(p, w) \in Checks /\ CheckOf(p, w).on = p /\ CheckOf(p, w).ver = w
    BY <1>5, CheckIs
  <2> QED
    BY <1>2, <1>5, <2>1, ChecksFew
<1>10. /\ ThisNode' = n /\ ThisVer' = v /\ top' = top /\ (valid' <=> valid) /\ Descending'
       /\ Check("parent")' = CheckOf(p, w) /\ bound' = bound /\ fwd' = fwd
  BY <1>2, <1>3, <1>7, <1>8, Still DEF ThisNode, ThisVer, top, valid, Descending, Check, CheckOf, fwd
<1>11. ScanTypes'
  <2>1. PastChecks(todo[Scanner])' /\ PastChecks(after.checks)'
    BY <1>1, <1>3, <1>7, <1>9, Still DEF ScanTypes
  <2> QED
    BY <1>1, <1>2, <1>3, <1>4, <1>7, <1>8, <1>10, <2>1 DEF ScanTypes, ScanLabels
<1>12. StackFits(rep, end)' /\ EntriesHold(end, start, stack)'
  BY <1>1, <1>3, <1>7, Still DEF StackFits
<1>13. DescentFits(rep, end)'
  BY <1>1, <1>2, <1>3, <1>4, <1>5, <1>7, <1>8, <1>10, Still DEF DescentFits
<1>14. word[p] = w => start[n] = Above(end, stack, Len(stack) + 1) /\ start[n] \in Nat
  <2>1. word[p] = w => start[n] = Above(end, stack, Len(stack) + 1)
    BY <1>2, <1>4, ReachedFrom
  <2>2. start[n] \in Nat
    BY <1>4, NodeFacts, KeyAssumption
  <2> QED
    BY <2>1, <2>2
<1>15. DescentHolds(end, start)'
  <2>1. AllCurrent(todo[Scanner])' => word[p] = w
    BY <1>3, <1>7, <1>9, Still
  <2>2. word[p] = w => start[n] <= Above(end, stack, Len(stack) + 1)
    BY <1>14
  <2>3. Above(end, stack, Len(stack) + 1)' = Above(end, stack, Len(stack) + 1)
    BY <1>3 DEF Above
  <2> QED
    BY <1>1, <1>2, <1>3, <1>4, <1>8, <1>10, <2>1, <2>2, <2>3, Still DEF DescentHolds
<1>16. CallInv(rep, end, start)'
  <2> SUFFICES ASSUME Hopeful' PROVE CallKnows(rep, end, start)'
    BY <1>7 DEF CallInv
  <2>1. word[p] = w
    BY <1>3, <1>7, <1>9, Still DEF Hopeful
  <2>2. IF walk = "seek" THEN Seeks(rep, end, start) ELSE Finds(rep, end) \/ FindsLast(rep, end)
    <3>1. Hopeful
      BY <1>3, <1>4, <1>10, ChecksFew, Still DEF Hopeful
    <3> QED
      BY <1>4, <3>1 DEF CallInv, CallKnows
  <2>3. op'[Scanner] = op[Scanner] /\ key'[Scanner] = key[Scanner] /\ steady' = steady
    BY <1>3
  <2>4. ASSUME Seeks(rep, end, start) PROVE Seeks(rep, end, start)'
    <3>1. depth[Scanner] = Above(end, stack, Len(stack) + 1)
      BY <1>3, <2>4 DEF Seeks
    <3>2. Above(end, stack, Len(stack) + 1)' = Above(end, stack, Len(stack) + 1)
      BY <1>3 DEF Above
    <3> QED
      BY <1>3, <1>7, <1>10, <1>14, <2>1, <2>3, <2>4, <3>1, <3>2, OrderStill DEF Seeks
  <2>5. ASSUME Finds(rep, end) PROVE Finds(rep, end)'
    BY <1>2, <1>3, <1>10, <2>3, <2>5, OrderStill DEF Finds, Traversal
  <2>6. ASSUME FindsLast(rep, end) PROVE FindsLast(rep, end)'
    BY <1>2, <1>3, <1>10, <2>3, <2>6, OrderStill DEF FindsLast, Traversal
  <2> QED
    BY <1>3, <1>7, <2>2, <2>4, <2>5, <2>6 DEF CallKnows
<1> QED
  BY <1>11, <1>12, <1>13, <1>15, <1>16 DEF StackInv

\* A check succeeds.
LEMMA CheckKeeps ==
    ASSUME NEW tree, NEW rep, NEW end, NEW start, View(tree, rep, end, start), OnThreads,
           StackInv(tree, rep, end, start), CallInv(rep, end, start), check(Scanner),
           UNCHANGED scanVars
    PROVE  StackInv(tree, rep, end, start)' /\ CallInv(rep, end, start)'
<1>1. /\ ScanTypes /\ StackFits(rep, end) /\ DescentFits(rep, end)
      /\ EntriesHold(end, start, stack) /\ DescentHolds(end, start)
  BY DEF StackInv
<1>2. PICK cs, c2 : cs = todo[Scanner] /\ c2 = Tail(cs)
  OBVIOUS
<1>3. /\ cs # <<>> /\ word[Head(cs).on] = Head(cs).ver /\ SameVersion(Scanner)
      /\ todo' = [todo EXCEPT ![Scanner] = c2]
      /\ UNCHANGED <<op, key, pc, depth, at, ver, held, torn>>
      /\ UNCHANGED <<scan, stack, walk, after, ever, steady, lost>>
      /\ UNCHANGED <<root, nodes, word, map>>
  BY <1>2 DEF check, Must, SameVersion, Done, treeVars, historyVars, opVars, rcsVars, scanVars,
              callVars
<1>4. todo'[Scanner] = c2
  BY <1>3, ScannerAssumption DEF OnThreads, IsOnThreads
<1>5. PastChecks(cs) /\ PastChecks(c2) /\ (AllCurrent(cs) <=> AllCurrent(c2))
  <2>1. PastChecks(cs)
    BY <1>1, <1>2 DEF ScanTypes
  <2> QED
    BY <1>2, <1>3, <2>1, ChecksTail
<1>6. /\ ThisNode' = ThisNode /\ ThisVer' = ThisVer /\ top' = top /\ (valid' <=> valid)
      /\ (Descending' <=> Descending) /\ bound' = bound /\ fwd' = fwd
      /\ \A r : Check(r)' = Check(r)
      /\ Above(end, stack, Len(stack) + 1)' = Above(end, stack, Len(stack) + 1)
      /\ current_key' = current_key
  BY <1>3, Still DEF ThisNode, ThisVer, top, valid, Descending, Check, CheckOf, fwd, Above,
                     current_key
<1>7. /\ pc[Scanner] # "find_child" /\ pc[Scanner] # "idle"
      /\ pc[Scanner] = "at_node" => c2 = <<>>
      /\ Descending => ThisNode # Nil
  <2>1. /\ pc[Scanner] # "find_child" /\ pc[Scanner] # "idle"
        /\ pc[Scanner] = "at_node" => cs = <<Check("parent")>>
    BY <1>1, <1>2, <1>3 DEF ScanTypes
  <2>2. pc[Scanner] = "at_node" => c2 = <<>>
    <3>1. \A x : Tail(<<x>>) = <<>>
      OBVIOUS
    <3> QED
      BY <1>2, <2>1, <3>1
  <2> QED
    BY <1>1, <1>3, <2>1, <2>2 DEF DescentFits
<1>11. ScanTypes'
  <2>1. PastChecks(todo[Scanner])' /\ PastChecks(after.checks)'
    BY <1>1, <1>3, <1>4, <1>5, Still DEF ScanTypes
  <2>2. Past(Nil, ver[Scanner]["parent"])' <=> Past(Nil, ver[Scanner]["parent"])
    BY <1>3, Still
  <2> QED
    BY <1>1, <1>3, <1>4, <1>6, <1>7, <2>1, <2>2 DEF ScanTypes
<1>12. StackFits(rep, end)' /\ EntriesHold(end, start, stack)'
  BY <1>1, <1>3, <1>6, Still DEF StackFits
<1>13. DescentFits(rep, end)'
  BY <1>1, <1>3, <1>6, <1>7, Still DEF DescentFits
<1>14. AllCurrent(todo[Scanner])' <=> AllCurrent(todo[Scanner])
  BY <1>2, <1>3, <1>4, <1>5, Still
<1>15. DescentHolds(end, start)'
  BY <1>1, <1>3, <1>6, <1>14, Still DEF DescentHolds, CurrentNode
<1>16. CallInv(rep, end, start)'
  <2>0. pc[Scanner]' = "backtrack" /\ valid' => lost'
    BY <1>3, <1>6 DEF CallInv
  <2> SUFFICES ASSUME Hopeful' PROVE CallKnows(rep, end, start)'
    BY <2>0 DEF CallInv
  <2>1. CallKnows(rep, end, start)
    <3>1. Hopeful
      BY <1>3, <1>6, <1>14, Still DEF Hopeful
    <3> QED
      BY <3>1 DEF CallInv
  <2>2. /\ Seeks(rep, end, start) => Seeks(rep, end, start)'
        /\ Finds(rep, end) => Finds(rep, end)'
        /\ FindsLast(rep, end) => FindsLast(rep, end)'
        /\ Steps(rep, end) => Steps(rep, end)'
        /\ Lands => Lands'
    <3>1. Seeks(rep, end, start) => Seeks(rep, end, start)'
      BY <1>3, <1>6, OrderStill, Still DEF Seeks, CurrentNode
    <3>2. Finds(rep, end) => Finds(rep, end)'
      BY <1>3, <1>6, OrderStill DEF Finds, Traversal
    <3>3. FindsLast(rep, end) => FindsLast(rep, end)'
      BY <1>3, <1>6, OrderStill DEF FindsLast, Traversal
    <3>4. Steps(rep, end) => Steps(rep, end)'
      BY <1>3, <1>6, OrderStill DEF Steps
    <3>5. Lands => Lands'
      BY <1>3, <1>6, OrderStill DEF Lands
    <3> QED
      BY <3>1, <3>2, <3>3, <3>4, <3>5
  <2>3. \A k \in steady : Passed(k)' <=> Passed(k)
    BY <1>3, OrderStill
  <2> QED
    BY <1>3, <1>6, <2>1, <2>2, <2>3 DEF CallKnows
<1> QED
  BY <1>11, <1>12, <1>13, <1>15, <1>16 DEF StackInv

\* The scanner's steps on lock words.
LEMMA LockingKeeps ==
    ASSUME NEW tree, NEW rep, NEW end, NEW start, View(tree, rep, end, start), OnThreads,
           StackInv(tree, rep, end, start), CallInv(rep, end, start), Locking(Scanner),
           UNCHANGED scanVars
    PROVE  StackInv(tree, rep, end, start)' /\ CallInv(rep, end, start)'
<1>1. ScanTypes
  BY DEF StackInv
<1>2. /\ pc[Scanner] \in ScanLabels /\ todo[Scanner] \in Seq(Checks)
  BY <1>1 DEF ScanTypes, PastChecks
<1>3. todo[Scanner] # <<>> => Head(todo[Scanner]).do = "check"
  <2>1. todo[Scanner] # <<>> => Head(todo[Scanner]) \in Checks
    BY <1>2
  <2> QED
    BY <2>1 DEF Checks
<1>4. ASSUME Restart(Scanner), pc[Scanner] # "idle"
      PROVE  StackInv(tree, rep, end, start)' /\ CallInv(rep, end, start)'
  BY <1>4, RestartKeeps
<1>5. ASSUME version_mismatch(Scanner) PROVE Restart(Scanner) /\ pc[Scanner] # "idle"
  <2>1. Restart(Scanner) /\ todo[Scanner] # <<>>
    BY <1>5 DEF version_mismatch
  <2> QED
    BY <1>1, <2>1 DEF ScanTypes
<1>6. ASSUME NEW r \in {"node", "child"}, try_read_lock_obsolete(Scanner, r)
      PROVE  Restart(Scanner) /\ pc[Scanner] # "idle"
  BY <1>6 DEF try_read_lock_obsolete, Ready
<1>7. ASSUME NEW r \in {"node", "child"}, try_read_lock(Scanner, r) PROVE r = "node"
  BY <1>2, <1>7 DEF try_read_lock, Ready, ScanLabels
<1> QED
  BY <1>3, <1>4, <1>5, <1>6, <1>7, ReadLockRootKeeps, ReadLockKeeps, CheckKeeps
     DEF Locking, try_upgrade_to_write_lock, unlock_and_obsolete, write_unlock, Must

(***************************************************************************)
(* Steps of the others.                                                    *)
(***************************************************************************)
\* What the scanner sees of a node that it has met.
LEMMA SeenNode ==
    ASSUME NEW tree, NEW rep, NEW end, NEW start, View(tree, rep, end, start),
           NEW tree2, NEW rep2, NEW end2, NEW start2,
           Observed(tree, rep, end, start, tree2, rep2, end2, start2), NEW n, IsUsed(n)
    PROVE  /\ IsUsed(n)' /\ rep2[n] = rep[n] /\ end2[n] = end[n]
           /\ (IsLeaf(n)' <=> IsLeaf(n)) /\ (IsInode(n)' <=> IsInode(n))
           /\ IsLeaf(n) => nodes'[n] = nodes[n]
           /\ \A v \in Nat : Past(n, v) =>
                 /\ Past(n, v)'
                 /\ word'[n] = v => /\ word[n] = v /\ n \in tree /\ n \in tree2
                                    /\ start2[n] <= start[n]
                                    /\ IsInode(n) => nodes'[n].kids = nodes[n].kids
<1>1. n \in Node /\ n \in Lock
  BY BoundAssumption DEF IsUsed, Node, Lock
<1>2. /\ IsUsed(n)' /\ rep2[n] = rep[n] /\ end2[n] = end[n] /\ nodes'[n].kind = nodes[n].kind
      /\ IsLeaf(n) => nodes'[n] = nodes[n]
      /\ IsInode(n) /\ word[n] % 4 = 0 => nodes'[n].kids = nodes[n].kids
  BY <1>1 DEF Observed
<1>3. (IsLeaf(n)' <=> IsLeaf(n)) /\ (IsInode(n)' <=> IsInode(n))
  BY <1>2 DEF IsLeaf, IsInode
<1>4. ASSUME NEW v \in Nat, Past(n, v)
      PROVE  /\ Past(n, v)'
             /\ word'[n] = v => /\ word[n] = v /\ n \in tree /\ n \in tree2
                                /\ start2[n] <= start[n]
                                /\ IsInode(n) => nodes'[n].kids = nodes[n].kids
  <2>1. Past(n, v)' /\ (word'[n] = v => word[n] = v)
    BY <1>1, <1>4 DEF Observed
  <2>2. ASSUME word'[n] = v PROVE n \in tree /\ word[n] % 4 = 0
    BY <1>4, <2>1, <2>2, CurrentInTree
  <2>3. ASSUME word'[n] = v PROVE n \in tree2 /\ start2[n] <= start[n]
    BY <2>2, <2>3 DEF Observed
  <2> QED
    BY <1>2, <2>1, <2>2, <2>3
<1> QED
  BY <1>2, <1>3, <1>4

\* A child that it has met stays a good one.
LEMMA SeenKid ==
    ASSUME NEW tree, NEW rep, NEW end, NEW start, View(tree, rep, end, start),
           NEW tree2, NEW rep2, NEW end2, NEW start2,
           Observed(tree, rep, end, start, tree2, rep2, end2, start2),
           NEW n, IsUsed(n), NEW b, NEW c, GoodKid(rep, end, n, b, c)
    PROVE  GoodKid(rep2, end2, n, b, c)'
<1>1. IsUsed(c)
  BY DEF GoodKid
<1> QED
  BY <1>1, SeenNode DEF GoodKid

\* The stack stays a path.
LEMMA SeenPath ==
    ASSUME NEW tree, NEW rep, NEW end, NEW start, View(tree, rep, end, start),
           NEW tree2, NEW rep2, NEW end2, NEW start2,
           Observed(tree, rep, end, start, tree2, rep2, end2, start2),
           NEW s, StackPath(rep, end, s)
    PROVE  StackPath(rep2, end2, s)'
<1>1. s \in Seq(StackEntry)
  BY DEF StackPath
<1>2. ASSUME NEW i \in DOMAIN s
      PROVE  /\ IsUsed(s[i].node)' /\ Past(s[i].node, s[i].ver)'
             /\ IsInode(s[i].node)' => s[i].byte \in Byte
  <2>1. /\ IsUsed(s[i].node) /\ Past(s[i].node, s[i].ver)
        /\ IsInode(s[i].node) => s[i].byte \in Byte
    BY <1>2 DEF StackPath
  <2>2. s[i].ver \in Nat
    BY <1>1, <1>2 DEF StackEntry
  <2> QED
    BY <2>1, <2>2, SeenNode
<1>3. ASSUME NEW i \in 1 .. Len(s) - 1
      PROVE  /\ IsInode(s[i].node)'
             /\ GoodKid(rep2, end2, s[i].node, s[i].byte, s[i + 1].node)'
  <2>1. i \in DOMAIN s
    BY <1>1, <1>3
  <2>2. /\ IsUsed(s[i].node) /\ IsInode(s[i].node)
        /\ GoodKid(rep, end, s[i].node, s[i].byte, s[i + 1].node)
    BY <1>3, <2>1 DEF StackPath
  <2>3. IsInode(s[i].node)'
    BY <2>2, SeenNode
  <2> QED
    BY <2>2, <2>3, SeenKid
<1> QED
  BY <1>1, <1>2, <1>3 DEF StackPath

\* The bytes above its entries stay.
LEMMA SeenAbove ==
    ASSUME NEW tree, NEW rep, NEW end, NEW start, View(tree, rep, end, start),
           NEW tree2, NEW rep2, NEW end2, NEW start2,
           Observed(tree, rep, end, start, tree2, rep2, end2, start2),
           NEW s, StackPath(rep, end, s), NEW i \in 1 .. Len(s) + 1
    PROVE  Above(end2, s, i) = Above(end, s, i)
<1>1. CASE i = 1
  BY <1>1 DEF Above
<1>2. CASE i # 1
  <2>1. s \in Seq(StackEntry)
    BY DEF StackPath
  <2>2. i - 1 \in DOMAIN s
    BY <1>2, <2>1
  <2>3. IsUsed(s[i - 1].node)
    BY <2>2 DEF StackPath
  <2>4. end2[s[i - 1].node] = end[s[i - 1].node]
    BY <2>3, SeenNode
  <2> QED
    BY <2>4 DEF Above
<1> QED
  BY <1>1, <1>2

\* The places of paths are numbers.
LEMMA SeenNumbers ==
    ASSUME NEW tree, NEW rep, NEW end, NEW start, View(tree, rep, end, start),
           NEW tree2, NEW rep2, NEW end2, NEW start2, View(tree2, rep2, end2, start2)',
           NEW n, IsUsed(n)
    PROVE  start[n] \in Nat /\ start2[n] \in Nat /\ end[n] \in Nat
<1>1. n \in Node
  BY DEF IsUsed
<1>2. start \in [Node -> 0 .. KeyLen] /\ end \in [Node -> 0 .. KeyLen]
  BY DEF View, TreeFits, TreeTypes
<1>3. start2 \in [Node -> 0 .. KeyLen]
  BY DEF View, TreeFits, TreeTypes
<1> QED
  BY <1>1, <1>2, <1>3

\* So are the bytes above an entry.
LEMMA AboveNumber ==
    ASSUME NEW tree, NEW rep, NEW end, NEW start, TreeFits(tree, rep, end, start),
           NEW s, StackPath(rep, end, s), NEW i \in 1 .. Len(s) + 1
    PROVE  Above(end, s, i) \in Nat
<1>1. CASE i = 1
  BY <1>1 DEF Above
<1>2. CASE i # 1
  <2>1. s \in Seq(StackEntry)
    BY DEF StackPath
  <2>2. i - 1 \in DOMAIN s
    BY <1>2, <2>1
  <2>3. IsUsed(s[i - 1].node)
    BY <2>2 DEF StackPath
  <2>4. end[s[i - 1].node] \in 0 .. KeyLen
    BY <2>3, NodeFacts
  <2> QED
    BY <1>2, <2>4 DEF Above
<1> QED
  BY <1>1, <1>2

\* What its entries say stays true of those whose version is current.
LEMMA SeenEntries ==
    ASSUME NEW tree, NEW rep, NEW end, NEW start, View(tree, rep, end, start),
           NEW tree2, NEW rep2, NEW end2, NEW start2, View(tree2, rep2, end2, start2)',
           Observed(tree, rep, end, start, tree2, rep2, end2, start2),
           NEW s, StackPath(rep, end, s), EntriesHold(end, start, s)
    PROVE  EntriesHold(end2, start2, s)'
<1>1. s \in Seq(StackEntry) /\ TreeFits(tree, rep, end, start)
  BY DEF StackPath, View
<1>2. ASSUME NEW i \in DOMAIN s, CurrentEntry(s[i])'
      PROVE  /\ start2[s[i].node] <= Above(end2, s, i)
             /\ IsInode(s[i].node)' => s[i].byte \in DOMAIN nodes'[s[i].node].kids
             /\ i < Len(s) => nodes'[s[i].node].kids[s[i].byte] = s[i + 1].node
  <2>1. IsUsed(s[i].node) /\ Past(s[i].node, s[i].ver)
    BY <1>2 DEF StackPath
  <2>2. s[i].ver \in Nat /\ i \in 1 .. Len(s) + 1 /\ i \in 1 .. Len(s)
    BY <1>1, <1>2 DEF StackEntry
  <2>3. word'[s[i].node] = s[i].ver
    BY <1>2 DEF CurrentEntry
  <2>4. /\ word[s[i].node] = s[i].ver /\ start2[s[i].node] <= start[s[i].node]
        /\ (IsInode(s[i].node)' <=> IsInode(s[i].node))
        /\ IsInode(s[i].node) => nodes'[s[i].node].kids = nodes[s[i].node].kids
    BY <2>1, <2>2, <2>3, SeenNode
  <2>5. /\ start[s[i].node] <= Above(end, s, i)
        /\ IsInode(s[i].node) => s[i].byte \in DOMAIN nodes[s[i].node].kids
        /\ i < Len(s) => nodes[s[i].node].kids[s[i].byte] = s[i + 1].node
    BY <1>2, <2>4 DEF EntriesHold, CurrentEntry
  <2>6. start[s[i].node] \in Nat /\ start2[s[i].node] \in Nat
    BY <2>1, SeenNumbers
  <2>7. Above(end2, s, i) = Above(end, s, i) /\ Above(end, s, i) \in Nat
    BY <1>1, <2>2, SeenAbove, AboveNumber
  <2>8. i < Len(s) => IsInode(s[i].node)
    BY <1>1, <2>2 DEF StackPath
  <2>9. start2[s[i].node] <= Above(end2, s, i)
    BY <2>4, <2>5, <2>6, <2>7
  <2> QED
    BY <2>4, <2>5, <2>8, <2>9
<1> QED
  BY <1>2 DEF EntriesHold

\* Checks that succeed would have before.
LEMMA SeenChecks ==
    ASSUME NEW tree, NEW rep, NEW end, NEW start, View(tree, rep, end, start),
           NEW tree2, NEW rep2, NEW end2, NEW start2,
           Observed(tree, rep, end, start, tree2, rep2, end2, start2),
           NEW cs, PastChecks(cs)
    PROVE  PastChecks(cs)' /\ (AllCurrent(cs)' => AllCurrent(cs))
<1>1. ASSUME NEW i \in DOMAIN cs
      PROVE  /\ Past(cs[i].on, cs[i].ver)'
             /\ word'[cs[i].on] = cs[i].ver => word[cs[i].on] = cs[i].ver
  <2>1. cs \in Seq(Checks) /\ Past(cs[i].on, cs[i].ver)
    BY <1>1 DEF PastChecks
  <2>2. cs[i] \in Checks
    BY <1>1, <2>1
  <2>3. cs[i].on \in Lock /\ cs[i].ver \in Nat
    BY <2>2 DEF Checks
  <2> QED
    BY <2>1, <2>3 DEF Observed
<1> QED
  BY <1>1 DEF PastChecks, AllCurrent

\* Where a key's path leads relative to an entry stays, and so does where one steps on from it.
LEMMA SeenOrder ==
    ASSUME NEW tree, NEW rep, NEW end, NEW start, View(tree, rep, end, start),
           NEW tree2, NEW rep2, NEW end2, NEW start2,
           Observed(tree, rep, end, start, tree2, rep2, end2, start2), Elsewhere,
           NEW e, IsUsed(e.node)
    PROVE  /\ \A k : Through(rep2, end2, k, e)' <=> Through(rep, end, k, e)
           /\ \A k : Onward(rep2, end2, k, e)' <=> Onward(rep, end, k, e)
           /\ e.ver \in Nat /\ Past(e.node, e.ver) /\ StepsOn(rep, end, e) =>
                 StepsOn(rep2, end2, e)'
<1>1. fwd' = fwd /\ key'[Scanner] = key[Scanner]
  BY DEF Elsewhere, fwd
<1>2. /\ rep2[e.node] = rep[e.node] /\ end2[e.node] = end[e.node]
      /\ (IsLeaf(e.node)' <=> IsLeaf(e.node)) /\ (IsInode(e.node)' <=> IsInode(e.node))
  BY SeenNode
<1>3. \A k, r, l : AheadOf(k, r, l)' <=> AheadOf(k, r, l)
  BY <1>1 DEF AheadOf, Further
<1>4. \A k : Through(rep2, end2, k, e)' <=> Through(rep, end, k, e)
  BY <1>2 DEF Through
<1>5. \A k : Onward(rep2, end2, k, e)' <=> Onward(rep, end, k, e)
  BY <1>1, <1>2, <1>3 DEF Onward, Further
<1>6. ASSUME e.ver \in Nat, Past(e.node, e.ver), StepsOn(rep, end, e)
      PROVE  StepsOn(rep2, end2, e)'
  <2>1. CASE IsLeaf(e.node)
    BY <1>2, <2>1 DEF StepsOn
  <2>2. CASE Through(rep, end, key[Scanner], e)
    <3>1. Through(rep2, end2, key[Scanner], e)'
      BY <1>1, <1>4, <2>2
    <3> QED
      BY <3>1 DEF StepsOn
  <2>3. CASE ~IsLeaf(e.node) /\ (CurrentEntry(e) => siblings(nodes[e.node], e.byte, fwd) = {})
    <3>1. ASSUME CurrentEntry(e)' PROVE siblings(nodes'[e.node], e.byte, fwd') = {}
      <4>1. word[e.node] = e.ver /\ (IsInode(e.node) => nodes'[e.node].kids = nodes[e.node].kids)
        BY <1>6, <3>1, SeenNode DEF CurrentEntry
      <4>2. IsInode(e.node)
        BY <2>3, NodeFacts DEF View
      <4> QED
        BY <1>1, <2>3, <4>1, <4>2 DEF CurrentEntry, siblings
    <3> QED
      BY <3>1 DEF StepsOn
  <2> QED
    BY <1>6, <2>1, <2>2, <2>3 DEF StepsOn
<1> QED
  BY <1>4, <1>5, <1>6

\* What is the scanner's own is as it was.
LEMMA SeenOwn ==
    ASSUME Elsewhere
    PROVE  /\ ThisNode' = ThisNode /\ ThisVer' = ThisVer /\ top' = top /\ (valid' <=> valid)
           /\ (Descending' <=> Descending) /\ fwd' = fwd /\ \A r : Check(r)' = Check(r)
           /\ \A k : Passed(k)' <=> Passed(k)
  BY DEF Elsewhere, ThisNode, ThisVer, top, valid, Descending, fwd, Check, CheckOf, Passed

\* Its types.
LEMMA SeenTypes ==
    ASSUME NEW tree, NEW rep, NEW end, NEW start, View(tree, rep, end, start),
           NEW tree2, NEW rep2, NEW end2, NEW start2,
           Observed(tree, rep, end, start, tree2, rep2, end2, start2), Elsewhere, ScanTypes
    PROVE  ScanTypes'
<1>1. PastChecks(todo[Scanner])' /\ PastChecks(after.checks)'
  <2>1. PastChecks(todo[Scanner]) /\ PastChecks(after.checks)
    BY DEF ScanTypes
  <2>2. PICK cs, ds : cs = todo[Scanner] /\ ds = after.checks
    OBVIOUS
  <2>3. PastChecks(cs)' /\ PastChecks(ds)'
    BY <2>1, <2>2, SeenChecks
  <2>4. cs = todo'[Scanner] /\ ds = after'.checks
    BY <2>2 DEF Elsewhere
  <2> QED
    BY <2>3, <2>4
<1>2. pc[Scanner] = "load_root" => Past(Nil, ver[Scanner]["parent"])'
  <2>1. Nil \in Lock
    BY NowhereIs
  <2>2. ver[Scanner]["parent"] \in Nat /\ ver'[Scanner] = ver[Scanner]
    BY DEF ScanTypes, Role, Elsewhere
  <2>3. pc[Scanner] = "load_root" => Past(Nil, ver[Scanner]["parent"])
    BY DEF ScanTypes
  <2> QED
    BY <2>1, <2>2, <2>3 DEF Observed
<1>3. scan.on => bound' \subseteq ever' /\ steady' \subseteq bound'
  BY DEF Elsewhere
<1>4. /\ (Descending' <=> Descending) /\ fwd' = fwd /\ Check("parent")' = Check("parent")
  BY SeenOwn
<1>5. Scanner \in torn' => pc'[Scanner] = "at_node"
  BY DEF Elsewhere, ScanTypes
<1>6. /\ UNCHANGED <<scan, stack, walk, after, lost>>
      /\ op'[Scanner] = op[Scanner] /\ key'[Scanner] = key[Scanner] /\ pc'[Scanner] = pc[Scanner]
      /\ depth'[Scanner] = depth[Scanner] /\ at'[Scanner] = at[Scanner]
      /\ ver'[Scanner] = ver[Scanner] /\ todo'[Scanner] = todo[Scanner]
      /\ held'[Scanner] = held[Scanner]
  BY DEF Elsewhere
<1> QED
  BY <1>1, <1>2, <1>3, <1>4, <1>5, <1>6 DEF ScanTypes

\* The stack and the descent.
LEMMA SeenStack ==
    ASSUME NEW tree, NEW rep, NEW end, NEW start, View(tree, rep, end, start),
           NEW tree2, NEW rep2, NEW end2, NEW start2, View(tree2, rep2, end2, start2)',
           Observed(tree, rep, end, start, tree2, rep2, end2, start2), Elsewhere,
           StackInv(tree, rep, end, start)
    PROVE  StackInv(tree2, rep2, end2, start2)'
<1>1. /\ ScanTypes /\ StackFits(rep, end) /\ DescentFits(rep, end)
      /\ EntriesHold(end, start, stack) /\ DescentHolds(end, start)
      /\ TreeFits(tree, rep, end, start)
  BY DEF StackInv, View
<1>2. PICK s, n, v, p, w, e : s = stack /\ n = ThisNode /\ v = ThisVer /\ p = at[Scanner]["parent"]
                              /\ w = ver[Scanner]["parent"] /\ e = top
  OBVIOUS
<1>3. /\ s = stack' /\ n = ThisNode' /\ v = ThisVer' /\ p = at'[Scanner]["parent"]
      /\ w = ver'[Scanner]["parent"] /\ e = top' /\ (valid' <=> valid) /\ pc'[Scanner] = pc[Scanner]
      /\ (Descending' <=> Descending) /\ todo'[Scanner] = todo[Scanner]
  BY <1>2, SeenOwn DEF Elsewhere
<1>4. StackPath(rep, end, s) /\ s \in Seq(StackEntry) /\ Len(s) \in Nat
  BY <1>1, <1>2 DEF StackFits, StackPath
<1>5. ASSUME valid PROVE IsUsed(e.node) /\ Past(e.node, e.ver) /\ e.ver \in Nat
  <2>1. e = s[Len(s)] /\ Len(s) \in DOMAIN s /\ e \in StackEntry
    BY <1>2, <1>4, <1>5, Ends DEF valid, top
  <2>2. IsUsed(s[Len(s)].node) /\ Past(s[Len(s)].node, s[Len(s)].ver)
    BY <1>4, <2>1 DEF StackPath
  <2> QED
    BY <2>1, <2>2 DEF StackEntry
<1>6. StackFits(rep2, end2)' /\ EntriesHold(end2, start2, stack)'
  <2>1. StackPath(rep2, end2, s)' /\ EntriesHold(end2, start2, s)'
    BY <1>1, <1>2, <1>4, SeenPath, SeenEntries
  <2>2. StackPath(rep2, end2, stack)' /\ EntriesHold(end2, start2, stack)'
    BY <1>3, <2>1
  <2>3. valid => (IsLeaf(e.node)' <=> IsLeaf(e.node)) /\ (IsInode(e.node)' <=> IsInode(e.node))
    BY <1>5, SeenNode
  <2>4. /\ pc[Scanner] = "positioned" /\ valid => IsLeaf(e.node)
        /\ pc[Scanner] = "backtrack" /\ valid => IsInode(e.node)
    BY <1>1, <1>2 DEF StackFits
  <2> QED
    BY <1>3, <2>2, <2>3, <2>4 DEF StackFits
<1>7. ASSUME Descending
      PROVE  /\ Past(p, w) /\ p \in Lock /\ w \in Nat
             /\ n = Nil => /\ pc[Scanner] = "lock_node"
                           /\ todo[Scanner] # <<>> /\ ~SameVersion(Scanner)
             /\ n # Nil => IsUsed(n)
             /\ pc[Scanner] # "lock_node" => Past(n, v)
             /\ v \in Nat
             /\ pc[Scanner] = "find_child" => IsInode(n)
             /\ s = <<>> => p = Nil /\ n # Nil
             /\ valid => /\ IsInode(e.node) /\ p = e.node /\ w = e.ver
                         /\ n # Nil => GoodKid(rep, end, e.node, e.byte, n)
  <2>1. p \in Lock /\ w \in Nat /\ v \in Nat
    BY <1>1, <1>2 DEF ScanTypes, Role, ThisVer
  <2> QED
    BY <1>1, <1>2, <1>7, <2>1 DEF DescentFits
<1>8. ASSUME Descending PROVE Past(p, w)' /\ (word'[p] = w => word[p] = w)
  BY <1>7, <1>8 DEF Observed
<1>9. DescentFits(rep2, end2)'
  <2> SUFFICES ASSUME Descending PROVE DescentFits(rep2, end2)'
    BY <1>3 DEF DescentFits
  <2>1. ASSUME n = Nil PROVE todo[Scanner] # <<>> /\ ~SameVersion(Scanner)'
    <3>1. todo[Scanner] # <<>> /\ ~SameVersion(Scanner)
      BY <1>7, <2>1
    <3>2. PICK c : c = Head(todo[Scanner])
      OBVIOUS
    <3>3. todo[Scanner] \in Seq(Checks) /\ 1 \in DOMAIN todo[Scanner] /\ c = todo[Scanner][1]
      BY <1>1, <3>1, <3>2 DEF ScanTypes, PastChecks
    <3>4. Past(c.on, c.ver) /\ c \in Checks
      BY <1>1, <3>3 DEF ScanTypes, PastChecks
    <3>5. word'[c.on] = c.ver => word[c.on] = c.ver
      BY <3>4 DEF Observed, Checks
    <3> QED
      BY <1>3, <3>1, <3>2, <3>5 DEF SameVersion
  <2>2. ASSUME n # Nil
        PROVE  /\ IsUsed(n)' /\ (IsInode(n)' <=> IsInode(n))
               /\ pc[Scanner] # "lock_node" => Past(n, v)'
    BY <1>7, <2>2, SeenNode
  <2>3. ASSUME valid
        PROVE  /\ IsInode(e.node)' /\ (n # Nil => GoodKid(rep2, end2, e.node, e.byte, n)')
    BY <1>5, <1>7, <2>3, SeenNode, SeenKid
  <2>4. /\ n = Nil => pc[Scanner] = "lock_node"
        /\ n = Nil => pc[Scanner] # "find_child"
    BY <1>7
  <2> QED
    BY <1>3, <1>7, <1>8, <2>1, <2>2, <2>3, <2>4 DEF DescentFits
<1>10. DescentHolds(end2, start2)'
  <2> SUFFICES ASSUME Descending PROVE DescentHolds(end2, start2)'
    BY <1>3 DEF DescentHolds
  <2>1. ASSUME s = <<>>, word'[Nil] = w PROVE root' = n
    <3>1. word[Nil] = w /\ Past(Nil, w)
      BY <1>7, <1>8, <2>1
    <3>2. root = n
      BY <1>1, <1>2, <2>1, <3>1 DEF DescentHolds
    <3>3. word[Nil] % 4 = 0
      BY <3>1 DEF Past
    <3> QED
      BY <3>2, <3>3 DEF Observed
  <2>2. ASSUME valid, word'[e.node] = e.ver PROVE nodes'[e.node].kids[e.byte] = n
    <3>1. word[e.node] = e.ver /\ (IsInode(e.node) => nodes'[e.node].kids = nodes[e.node].kids)
      BY <1>5, <2>2, SeenNode
    <3>2. nodes[e.node].kids[e.byte] = n
      BY <1>1, <1>2, <2>2, <3>1 DEF DescentHolds, CurrentEntry
    <3> QED
      BY <1>7, <2>2, <3>1, <3>2
  <2>3. ASSUME pc[Scanner] # "lock_node", AllCurrent(todo[Scanner])', word'[n] = v
        PROVE  start2[n] <= Above(end2, s, Len(s) + 1)
    <3>1. AllCurrent(todo[Scanner])
      <4>1. PICK cs : cs = todo[Scanner] /\ cs = todo'[Scanner] /\ PastChecks(cs)
        BY <1>1, <1>3 DEF ScanTypes
      <4>2. AllCurrent(cs)'
        BY <2>3, <4>1
      <4> QED
        BY <4>1, <4>2, SeenChecks
    <3>2. IsUsed(n) /\ Past(n, v) /\ v \in Nat
      BY <1>7, <2>3
    <3>3. word[n] = v /\ start2[n] <= start[n]
      BY <2>3, <3>2, SeenNode
    <3>4. start[n] <= Above(end, s, Len(s) + 1)
      BY <1>1, <1>2, <2>3, <3>1, <3>3 DEF DescentHolds, CurrentNode
    <3>5. Above(end2, s, Len(s) + 1) = Above(end, s, Len(s) + 1)
          /\ Above(end, s, Len(s) + 1) \in Nat
      <4>1. Len(s) + 1 \in 1 .. Len(s) + 1
        BY <1>4
      <4> QED
        BY <1>1, <1>4, <4>1, SeenAbove, AboveNumber
    <3>6. start[n] \in Nat /\ start2[n] \in Nat
      BY <3>2, SeenNumbers
    <3> QED
      BY <3>3, <3>4, <3>5, <3>6
  <2> QED
    BY <1>3, <2>1, <2>2, <2>3 DEF DescentHolds, CurrentEntry, CurrentNode
<1>11. ScanTypes'
  BY <1>1, SeenTypes
<1> QED
  BY <1>6, <1>9, <1>10, <1>11 DEF StackInv

\* The path to the inode that a seek is about to read has not become shorter, unless the
\* seek was torn.
LEMMA SeenSeek ==
    ASSUME NEW tree, NEW rep, NEW end, NEW start, View(tree, rep, end, start),
           NEW tree2, NEW rep2, NEW end2, NEW start2, View(tree2, rep2, end2, start2)',
           Observed(tree, rep, end, start, tree2, rep2, end2, start2), Elsewhere,
           StackInv(tree, rep, end, start), NEW n, n = ThisNode, IsInode(n), n \in tree,
           word[n] = ThisVer, Past(n, ThisVer),
           pc[Scanner] = "at_node", AllCurrent(todo[Scanner]), Scanner \notin torn'
    PROVE  start2[n] = start[n]
<1>1. /\ ScanTypes /\ DescentFits(rep, end) /\ DescentHolds(end, start) /\ StackFits(rep, end)
      /\ TreeFits(tree, rep, end, start)
  BY DEF StackInv, View
<1>2. IsUsed(n) /\ n # Nil /\ nodes[n].kind # "leaf" /\ start[n] \in Nat /\ start2[n] \in Nat
  <2>1. IsUsed(n)
    BY <1>1, TreeFacts
  <2> QED
    BY <1>1, <2>1, NodeFacts, SeenNumbers
<1>3. word[n] % 4 = 0 /\ start2[n] <= start[n]
  BY DEF Past, Observed
<1>4. SUFFICES ASSUME start2[n] # start[n] PROVE FALSE
  OBVIOUS
<1>5. PICK p \in tree : /\ word[p] % 4 # 0 /\ IsInode(p)
                        /\ \E b \in DOMAIN nodes[p].kids : nodes[p].kids[b] = n
  BY <1>3, <1>4 DEF Observed
<1>6. PICK b \in DOMAIN nodes[p].kids : nodes[p].kids[b] = n
  BY <1>5
<1>7. PICK t \in Thread : /\ Ready(t, "leave_last_child") /\ pc'[t] = "return"
                          /\ n = survivor(t)
  BY <1>3, <1>4 DEF Observed
<1>8. CASE todo[Scanner] = <<>>
  <2>1. AboutToRead(Scanner, survivor(t))
    BY <1>1, <1>7, <1>8 DEF AboutToRead, Ready, ScanTypes, ThisNode
  <2> QED
    BY <1>2, <1>7, <2>1 DEF Elsewhere
<1>9. CASE todo[Scanner] # <<>>
  <2>1. todo[Scanner] = <<Check("parent")>> /\ Descending
    BY <1>1, <1>9 DEF ScanTypes, Descending
  <2>2. PICK q, w : q = at[Scanner]["parent"] /\ w = ver[Scanner]["parent"]
    OBVIOUS
  <2>3. Past(q, w) /\ q \in Lock /\ w \in Nat
    BY <1>1, <2>1, <2>2, AtParent
  <2>4. word[q] = w
    <3>1. CheckOf(q, w) \in Checks /\ CheckOf(q, w).on = q /\ CheckOf(q, w).ver = w
      BY <2>3, CheckIs
    <3>2. AllCurrent(<<CheckOf(q, w)>>)
      BY <2>1, <2>2 DEF Check
    <3> QED
      BY <2>3, <3>1, <3>2, ChecksFew
  <2>5. word[q] % 4 = 0
    BY <2>3, <2>4 DEF Past
  <2>6. CASE stack = <<>>
    <3>1. root = n
      BY <1>1, <2>1, <2>2, <2>4, <2>6 DEF DescentFits, DescentHolds
    <3>2. start[n] = 0
      BY <1>1, <1>2, <3>1, TreeFacts
    <3> QED
      BY <1>2, <1>3, <1>4, <3>2
  <2>7. CASE stack # <<>>
    <3>1. PICK e : e = top
      OBVIOUS
    <3>2. q = e.node /\ w = e.ver /\ IsInode(e.node)
      BY <1>1, <2>1, <2>2, <2>7, <3>1 DEF DescentFits, valid
    <3>3. nodes[q].kids[e.byte] = n
      BY <1>1, <2>1, <2>4, <2>7, <3>1, <3>2 DEF DescentHolds, valid, CurrentEntry
    <3>4. IsUsed(q) /\ e.byte \in DOMAIN nodes[q].kids
      <4>1. stack \in Seq(StackEntry) /\ StackPath(rep, end, stack) /\ EntriesHold(end, start, stack)
        BY <1>1 DEF StackFits, StackPath, StackInv
      <4>2. e = stack[Len(stack)] /\ Len(stack) \in DOMAIN stack
        BY <2>7, <3>1, <4>1, Ends DEF top
      <4> QED
        BY <2>4, <3>2, <4>1, <4>2 DEF StackPath, EntriesHold, CurrentEntry
    <3>5. q \in tree
      BY <2>3, <2>4, <3>4, CurrentInTree
    <3>6. q \in Node /\ p \in Node
      BY <1>1, <1>5, <3>4, TreeFacts, NodeFacts
    <3>7. kidsOf[q] = nodes[q].kids /\ kidsOf[p] = nodes[p].kids
      BY <1>5, <3>2, <3>6 DEF kidsOf, IsInode
    <3>8. Shape(tree, rep, end, start) /\ Paths(root, kidsOf, tree, rep, end, start)
      BY <1>1, TreeFacts
    <3>9. q = p
      BY <1>5, <1>6, <3>3, <3>4, <3>5, <3>7, <3>8, OneParent
    <3> QED
      BY <1>5, <2>5, <3>9
  <2> QED
    BY <2>6, <2>7
<1> QED
  BY <1>8, <1>9

\* What a call knows it still knows.
LEMMA SeenCall ==
    ASSUME NEW tree, NEW rep, NEW end, NEW start, View(tree, rep, end, start),
           NEW tree2, NEW rep2, NEW end2, NEW start2, View(tree2, rep2, end2, start2)',
           Observed(tree, rep, end, start, tree2, rep2, end2, start2), Elsewhere,
           StackInv(tree, rep, end, start), CallInv(rep, end, start)
    PROVE  CallInv(rep2, end2, start2)'
<1>1. /\ ScanTypes /\ StackFits(rep, end) /\ DescentFits(rep, end)
      /\ TreeFits(tree, rep, end, start)
  BY DEF StackInv, View
<1>2. PICK s, n, v, e : s = stack /\ n = ThisNode /\ v = ThisVer /\ e = top
  OBVIOUS
<1>3. /\ s = stack' /\ n = ThisNode' /\ v = ThisVer' /\ e = top' /\ (valid' <=> valid)
      /\ pc'[Scanner] = pc[Scanner] /\ (Descending' <=> Descending)
      /\ todo'[Scanner] = todo[Scanner] /\ walk' = walk /\ after' = after /\ lost' = lost
      /\ fwd' = fwd /\ key'[Scanner] = key[Scanner] /\ op'[Scanner] = op[Scanner]
      /\ depth'[Scanner] = depth[Scanner] /\ \A k : Passed(k)' <=> Passed(k)
  BY <1>2, SeenOwn DEF Elsewhere
<1>4. StackPath(rep, end, s) /\ s \in Seq(StackEntry) /\ Len(s) \in Nat
  BY <1>1, <1>2 DEF StackFits, StackPath
<1>5. \A i \in DOMAIN s : IsUsed(s[i].node) /\ Past(s[i].node, s[i].ver) /\ s[i].ver \in Nat
  BY <1>4 DEF StackPath, StackEntry
<1>6. valid => IsUsed(e.node)
  <2>1. valid => e = s[Len(s)] /\ Len(s) \in DOMAIN s
    BY <1>2, <1>4, Ends DEF valid, top
  <2> QED
    BY <1>5, <2>1
<1>7. (pc[Scanner] = "backtrack" /\ valid => lost)'
  BY <1>3 DEF CallInv
<1> SUFFICES ASSUME Hopeful' PROVE CallKnows(rep2, end2, start2)'
  BY <1>7 DEF CallInv
<1>8. Hopeful /\ AllCurrent(todo[Scanner]) /\ (Descending /\ walk = "seek" => Scanner \notin torn')
  <2>1. PICK cs, ds : cs = todo[Scanner] /\ ds = after.checks /\ PastChecks(cs) /\ PastChecks(ds)
    BY <1>1 DEF ScanTypes
  <2>2. AllCurrent(cs)' /\ ~lost /\ (Descending /\ walk = "seek" => Scanner \notin torn')
        /\ (Descending => AllCurrent(ds)')
    BY <1>3, <2>1 DEF Hopeful
  <2>3. AllCurrent(cs) /\ (Descending => AllCurrent(ds))
    BY <2>1, <2>2, SeenChecks
  <2> QED
    BY <2>1, <2>2, <2>3 DEF Hopeful, Elsewhere
<1>9. CallKnows(rep, end, start)
  BY <1>8 DEF CallInv
<1>10. pc[Scanner] # "idle" => /\ scan.on /\ steady' \subseteq steady /\ ever \subseteq ever'
  BY <1>1 DEF ScanTypes, Elsewhere
<1>11. Descending => IsUsed(n)
  <2>1. ASSUME Descending, n = Nil PROVE FALSE
    <3>1. todo[Scanner] # <<>> /\ ~SameVersion(Scanner) /\ todo[Scanner] \in Seq(Checks)
      BY <1>1, <1>2, <2>1 DEF DescentFits, ScanTypes, PastChecks
    <3>2. 1 \in DOMAIN todo[Scanner] /\ Head(todo[Scanner]) = todo[Scanner][1]
      BY <3>1
    <3> QED
      BY <1>8, <3>1, <3>2 DEF SameVersion, AllCurrent
  <2> QED
    BY <1>1, <1>2, <2>1 DEF DescentFits
<1>12. Descending => rep2[n] = rep[n] /\ end2[n] = end[n] /\ (IsInode(n)' <=> IsInode(n))
  BY <1>11, SeenNode
<1>13. /\ \A k : valid => (Through(rep2, end2, k, e)' <=> Through(rep, end, k, e))
       /\ \A k : valid => (Onward(rep2, end2, k, e)' <=> Onward(rep, end, k, e))
  BY <1>6, SeenOrder
<1>14. ASSUME NEW i \in DOMAIN s, StepsOn(rep, end, s[i]) PROVE StepsOn(rep2, end2, s[i])'
  BY <1>5, <1>14, SeenOrder
<1>15. ASSUME Descending, walk = "seek" PROVE Seeks(rep2, end2, start2)'
  <2>1. Seeks(rep, end, start)
    BY <1>9, <1>15 DEF CallKnows
  <2>2. ASSUME pc[Scanner] # "lock_node", word'[n] = v
        PROVE  word[n] = v /\ n \in tree /\ Past(n, v)
    <3>1. Past(n, v) /\ v \in Nat
      BY <1>1, <1>2, <1>15, <2>2 DEF DescentFits, ScanTypes, Role, ThisVer
    <3> QED
      BY <1>11, <1>15, <2>2, <3>1, SeenNode
  <2>3. valid => Through(rep2, end2, key[Scanner], e)'
    <3>1. PICK a : a = key[Scanner] /\ a = key'[Scanner]
      BY <1>3
    <3>2. valid => Through(rep, end, a, e)
      BY <1>2, <2>1, <3>1 DEF Seeks
    <3>3. valid => Through(rep2, end2, a, e)'
      BY <1>13, <3>2
    <3> QED
      BY <3>1, <3>3
  <2>4. pc[Scanner] # "find_child" => depth[Scanner] = Above(end2, s, Len(s) + 1)
    <3>1. Len(s) + 1 \in 1 .. Len(s) + 1
      BY <1>4
    <3>2. Above(end2, s, Len(s) + 1) = Above(end, s, Len(s) + 1)
      BY <1>4, <3>1, SeenAbove
    <3> QED
      BY <1>2, <2>1, <3>2 DEF Seeks
  <2>5. ASSUME pc[Scanner] = "at_node", word'[n] = v, IsInode(n)'
        PROVE  start2[n] = depth[Scanner]
    <3>1. word[n] = v /\ n \in tree /\ Past(n, v) /\ IsInode(n)
      BY <1>12, <1>15, <2>2, <2>5
    <3>2. start[n] = depth[Scanner]
      BY <1>2, <2>1, <2>5, <3>1 DEF Seeks, CurrentNode
    <3>3. start2[n] = start[n]
      BY <1>2, <1>8, <1>15, <2>5, <3>1, SeenSeek
    <3> QED
      BY <3>2, <3>3
  <2>6. ASSUME pc[Scanner] = "find_child", word'[n] = v
        PROVE  depth[Scanner] = end2[n] /\ SameTo(key[Scanner], rep2[n], end2[n])
    <3>1. word[n] = v
      BY <2>2, <2>6
    <3>2. depth[Scanner] = end[n] /\ SameTo(key[Scanner], rep[n], end[n])
      BY <1>2, <2>1, <2>6, <3>1 DEF Seeks, CurrentNode
    <3> QED
      BY <1>12, <1>15, <3>2
  <2> QED
    BY <1>3, <2>3, <2>4, <2>5, <2>6 DEF Seeks, CurrentNode
<1>16. ASSUME Descending, Finds(rep, end) PROVE Finds(rep2, end2)'
  <2>1. scan.on /\ steady' \subseteq steady
    BY <1>10, <1>16 DEF Descending
  <2>2. /\ walk' = Traversal(fwd') /\ after'.goto = "positioned"
        /\ \A k \in Key : SameTo(k, rep2[n], end2[n]) => Passed(k)'
    BY <1>2, <1>3, <1>12, <1>16 DEF Finds
  <2>3. ASSUME valid, NEW k \in steady', Passed(k)'
        PROVE  Through(rep2, end2, k, e)' \/ Onward(rep2, end2, k, e)'
    <3>1. k \in steady /\ Passed(k)
      BY <1>3, <2>1, <2>3
    <3>2. Through(rep, end, k, e) \/ Onward(rep, end, k, e)
      BY <1>2, <1>16, <2>3, <3>1 DEF Finds
    <3> QED
      BY <1>13, <2>3, <3>2
  <2> QED
    BY <1>3, <2>2, <2>3 DEF Finds
<1>17. ASSUME Descending, FindsLast(rep, end) PROVE FindsLast(rep2, end2)'
  <2>1. \A k : Before(k, key[Scanner], fwd)' <=> Before(k, key[Scanner], fwd)
    BY <1>3
  <2>2. /\ walk' = Traversal(~fwd') /\ after'.goto = "step"
        /\ \A k \in Key : SameTo(k, rep2[n], end2[n]) => Before(k, key[Scanner], fwd)'
    BY <1>2, <1>3, <1>12, <1>17, <2>1 DEF FindsLast
  <2>3. \A i \in DOMAIN s : StepsOn(rep2, end2, s[i])'
    BY <1>2, <1>14, <1>17 DEF FindsLast
  <2> QED
    BY <1>3, <2>2, <2>3 DEF FindsLast
<1>18. ASSUME pc[Scanner] = "step" PROVE Steps(rep2, end2)'
  <2>1. Steps(rep, end) /\ steady' \subseteq steady
    BY <1>9, <1>10, <1>18 DEF CallKnows
  <2>2. \A i \in DOMAIN s : StepsOn(rep2, end2, s[i])'
    BY <1>2, <1>14, <2>1 DEF Steps
  <2>3. ASSUME NEW k \in steady', Passed(k)' PROVE valid /\ Onward(rep2, end2, k, e)'
    <3>1. k \in steady /\ Passed(k)
      BY <1>3, <2>1, <2>3
    <3>2. valid /\ Onward(rep, end, k, e)
      BY <1>2, <2>1, <3>1 DEF Steps
    <3> QED
      BY <1>13, <3>2
  <2> QED
    BY <1>3, <2>2, <2>3 DEF Steps
<1>19. ASSUME pc[Scanner] = "backtrack" PROVE \A k \in steady' : ~Passed(k)'
  BY <1>3, <1>9, <1>10, <1>19 DEF CallKnows
<1>20. ASSUME pc[Scanner] = "positioned" PROVE Lands'
  <2>1. Lands /\ steady' \subseteq steady /\ ever \subseteq ever'
    BY <1>9, <1>10, <1>20 DEF CallKnows
  <2>2. valid => current_key' = current_key
    <3>1. valid => IsLeaf(e.node)
      BY <1>1, <1>2, <1>20 DEF StackFits
    <3>2. valid => nodes'[e.node] = nodes[e.node]
      BY <1>6, <3>1, SeenNode
    <3> QED
      BY <1>2, <1>3, <3>2 DEF current_key
  <2>3. valid' => current_key' \in ever' /\ Passed(current_key)'
    <3>1. valid => current_key \in ever /\ Passed(current_key)
      BY <2>1 DEF Lands
    <3>2. PICK k : k = current_key
      OBVIOUS
    <3>3. valid => Passed(k)' /\ k = current_key'
      BY <1>3, <2>2, <3>1, <3>2
    <3> QED
      BY <1>3, <2>1, <2>2, <3>1, <3>2, <3>3
  <2>4. ASSUME NEW k \in steady', Passed(k)'
        PROVE  valid /\ (k = current_key' \/ Before(current_key, k, fwd)')
    <3>1. k \in steady /\ Passed(k)
      BY <1>3, <2>1, <2>4
    <3>2. valid /\ (k = current_key \/ Before(current_key, k, fwd))
      BY <2>1, <3>1 DEF Lands
    <3> QED
      BY <1>3, <2>2, <3>2
  <2> QED
    BY <1>3, <2>3, <2>4 DEF Lands
<1> QED
  BY <1>3, <1>9, <1>15, <1>16, <1>17, <1>18, <1>19, <1>20 DEF CallKnows

(***************************************************************************)
(* All steps.                                                              *)
(***************************************************************************)
\* The scanner's own.
LEMMA ScanningKeeps ==
    ASSUME NEW tree, NEW rep, NEW end, NEW start, View(tree, rep, end, start), OnThreads,
           StackInv(tree, rep, end, start), CallInv(rep, end, start), Scanning
    PROVE  StackInv(tree, rep, end, start)' /\ CallInv(rep, end, start)'
  BY ScansBegin, VisitKeeps, FinishKeeps, LoadRootKeeps, TraverseLeafKeeps, TraverseInodeKeeps,
     SeekLeafKeeps, SeekPrefixDiffersKeeps, SeekPrefixMatchesKeeps, SeekChildKeeps,
     SeekSiblingKeeps, SeekDeadEndKeeps, BacktrackKeeps, StepPopKeeps, StepSiblingKeeps,
     AtEndKeeps DEF Scanning

\* The invariant: the others' for some labelling, and the scanner's for the same one.
ScanInv ==
    /\ OnThreads /\ load \in Seq(Key)
    /\ \E tree, rep, end, start :
          Rest!Inv(tree, rep, end, start) /\ StackInv(tree, rep, end, start)
          /\ CallInv(rep, end, start)

\* It holds at the beginning.
LEMMA ScanInit ==
    ASSUME ItInit
    PROVE  ScanInv
<1>1. OnThreads /\ Rest!Init
  BY RestInit
<1>2. load \in Seq(Key) /\ \E tree, rep, end, start : Rest!Inv(tree, rep, end, start)
  BY <1>1, RestBegins
<1>3. PICK tree, rep, end, start : Rest!Inv(tree, rep, end, start)
  BY <1>2
<1>4. /\ pc[Scanner] = "idle" /\ todo[Scanner] = <<>> /\ held[Scanner] = <<>>
      /\ depth[Scanner] = 0 /\ at[Scanner] = Nowhere /\ ver[Scanner] = Nowhere
      /\ op[Scanner] = "none" /\ torn = {}
      /\ scan = NoScan /\ stack = <<>> /\ walk = "seek" /\ after = Positioned /\ lost = FALSE
  BY ScannerAssumption DEF ItInit, Init
<1>5. PastChecks(todo[Scanner]) /\ PastChecks(after.checks) /\ after.goto = "positioned"
  BY <1>4, ChecksFew DEF Positioned
<1>6. fwd = TRUE /\ ~scan.on
  BY <1>4 DEF fwd, NoScan
<1>7. ~Descending
  BY <1>4 DEF Descending
<1>8. at[Scanner] \in [Role -> Lock] /\ ver[Scanner] \in [Role -> Nat] /\ depth[Scanner] \in Nat
  BY <1>4, NowhereIs
<1>9. ScanTypes
  BY <1>4, <1>5, <1>6, <1>7, <1>8 DEF ScanTypes, ScanLabels
<1>10. StackFits(rep, end) /\ EntriesHold(end, start, stack)
  BY <1>4, EmptyStack DEF StackFits
<1>11. CallInv(rep, end, start)
  BY <1>4, <1>7 DEF CallInv, CallKnows
<1>12. StackInv(tree, rep, end, start)
  BY <1>7, <1>9, <1>10 DEF StackInv, DescentFits, DescentHolds
<1> QED
  BY <1>1, <1>2, <1>3, <1>11, <1>12 DEF ScanInv

\* Every step keeps it.
LEMMA ScanNext ==
    ASSUME ScanInv, [ItNext]_allVars
    PROVE  ScanInv'
<1>1. PICK tree, rep, end, start : Rest!Inv(tree, rep, end, start)
                                   /\ StackInv(tree, rep, end, start) /\ CallInv(rep, end, start)
  BY DEF ScanInv
<1>2. OnThreads /\ load \in Seq(Key) /\ View(tree, rep, end, start)
  BY <1>1, RestView DEF ScanInv
<1>3. todo[Scanner] \in Seq(Checks) /\ (scan.on => bound \subseteq ever /\ steady \subseteq bound)
  BY <1>1 DEF StackInv, ScanTypes, PastChecks
<1>4. OnThreads' /\ [Rest!Next]_(Rest!vars)
  BY <1>2, <1>3, RestNext
<1>5. CASE Scanning \/ (Locking(Scanner) /\ UNCHANGED scanVars)
  <2>1. ScannerOnly
    BY <1>2, <1>3, <1>5, ScannerLocks, ScannerScans
  <2>2. Rest!Inv(tree, rep, end, start)'
    BY <1>1, <1>2, <2>1, ScannerKeepsRest
  <2>3. StackInv(tree, rep, end, start)' /\ CallInv(rep, end, start)'
    BY <1>1, <1>2, <1>5, ScanningKeeps, LockingKeeps
  <2>4. load' \in Seq(Key)
    BY <1>2, <2>1 DEF ScannerOnly
  <2> QED
    BY <1>4, <2>2, <2>3, <2>4 DEF ScanInv
<1>6. CASE \/ begin_load /\ UNCHANGED scanVars
           \/ \E t \in Others : OtherThread(t)
           \/ UNCHANGED allVars
  <2>1. Elsewhere
    BY <1>2, <1>3, <1>6, ElsewhereIs
  <2>2. /\ load' \in Seq(Key)
        /\ \E tree2, rep2, end2, start2 :
              /\ Rest!Inv(tree2, rep2, end2, start2)'
              /\ Observed(tree, rep, end, start, tree2, rep2, end2, start2)
    BY <1>1, <1>2, <1>4, RestGoesOn
  <2>3. PICK tree2, rep2, end2, start2 :
              /\ Rest!Inv(tree2, rep2, end2, start2)'
              /\ Observed(tree, rep, end, start, tree2, rep2, end2, start2)
    BY <2>2
  <2>4. View(tree2, rep2, end2, start2)'
    BY <2>3, RestView
  <2>5. StackInv(tree2, rep2, end2, start2)'
    BY <1>1, <1>2, <2>1, <2>3, <2>4, SeenStack
  <2>6. CallInv(rep2, end2, start2)'
    BY <1>1, <1>2, <2>1, <2>3, <2>4, SeenCall
  <2> QED
    BY <1>4, <2>2, <2>3, <2>5, <2>6 DEF ScanInv
<1> QED
  BY <1>5, <1>6 DEF ItNext, Others

\* The iterator of olc_db and every operation beside it keep the invariant.
THEOREM ScansKeepInvariant == ItSpec => []ScanInv
  BY ScanInit, ScanNext, PTL DEF ItSpec

\* The invariant says that a call that has ended knows where it landed.
LEMMA LandedKnows ==
    ASSUME ScanInv, Landed
    PROVE  (valid => OnLeaf) /\ Lands
<1>1. PICK tree, rep, end, start : Rest!Inv(tree, rep, end, start)
                                   /\ StackInv(tree, rep, end, start) /\ CallInv(rep, end, start)
  BY DEF ScanInv
<1>2. pc[Scanner] = "positioned" /\ todo[Scanner] = <<>> /\ ~lost
  BY DEF Landed, Here, Ready
<1>3. Hopeful
  BY <1>2, ChecksFew DEF Hopeful, Descending
<1>4. Lands
  BY <1>1, <1>2, <1>3 DEF CallInv, CallKnows
<1>5. valid => OnLeaf
  BY <1>1, <1>2 DEF StackInv, StackFits, OnLeaf, IsLeaf
<1> QED
  BY <1>4, <1>5 DEF Lands

\* The call that a scan is in ends on a leaf whose key was bound at some instant of it and
\* lies beyond where it started: for any keys, any tree, any number of threads that insert
\* and remove meanwhile, and any interleaving.
THEOREM ScansLandOnBound == ItSpec => []LandsOnBound
<1>1. ScanInv => LandsOnBound
  BY LandedKnows DEF LandsOnBound, Lands
<1> QED
  BY <1>1, ScansKeepInvariant, PTL

\* It skips no key that was bound throughout it.
THEOREM ScansSkipNothingSteady == ItSpec => []SkipsNothingSteady
<1>1. ScanInv => SkipsNothingSteady
  BY LandedKnows DEF SkipsNothingSteady, Lands
<1> QED
  BY <1>1, ScansKeepInvariant, PTL

\* The versions on the stack guard it: while they are current it is the path of the tree to
\* the leaf that the iterator is on.
THEOREM StacksAreCurrent == ItSpec => []StackIsCurrent
<1>1. ScanInv => StackIsCurrent
  <2> SUFFICES ASSUME ScanInv, Here("positioned"), valid,
                      \A i \in DOMAIN stack : word[stack[i].node] = stack[i].ver
               PROVE  /\ stack[1].node = root
                      /\ \A i \in 1 .. Len(stack) - 1 :
                            /\ nodes[stack[i].node].kind = "inode"
                            /\ stack[i + 1].node = child_of(stack[i])
                      /\ OnLeaf
    BY DEF StackIsCurrent
  <2>1. PICK tree, rep, end, start : Rest!Inv(tree, rep, end, start)
                                     /\ StackInv(tree, rep, end, start)
    BY DEF ScanInv
  <2>2. View(tree, rep, end, start) /\ TreeFits(tree, rep, end, start)
    BY <2>1, RestView DEF View
  <2>3. /\ pc[Scanner] = "positioned" /\ StackPath(rep, end, stack) /\ stack \in Seq(StackEntry)
        /\ stack # <<>> /\ IsLeaf(top.node) /\ EntriesHold(end, start, stack)
    BY <2>1 DEF Here, Ready, valid, StackInv, StackFits, StackPath
  <2>4. DOMAIN stack = 1 .. Len(stack) /\ Len(stack) \in Nat /\ Len(stack) # 0 /\ 1 \in DOMAIN stack
    BY <2>3
  <2>5. stack[1].node = root
    <3>1. PICK n, v : n = stack[1].node /\ v = stack[1].ver
      OBVIOUS
    <3>2. IsUsed(n) /\ Past(n, v) /\ word[n] = v
      BY <2>3, <2>4, <3>1 DEF StackPath
    <3>3. n \in tree
      BY <2>2, <3>2, CurrentInTree
    <3>4. start[n] <= 0
      BY <2>3, <2>4, <3>1, <3>2 DEF EntriesHold, CurrentEntry, Above
    <3>5. start[n] \in 0 .. KeyLen
      BY <2>2, <3>2, NodeFacts
    <3>6. start[n] = 0
      BY <3>4, <3>5
    <3> QED
      BY <2>2, <3>1, <3>3, <3>6, TreeFacts
  <2>6. ASSUME NEW i \in 1 .. Len(stack) - 1
        PROVE  nodes[stack[i].node].kind = "inode" /\ stack[i + 1].node = child_of(stack[i])
    <3>1. i \in DOMAIN stack /\ i < Len(stack)
      BY <2>4
    <3>2. IsInode(stack[i].node)
      BY <2>3 DEF StackPath
    <3>3. /\ stack[i].byte \in DOMAIN nodes[stack[i].node].kids
          /\ nodes[stack[i].node].kids[stack[i].byte] = stack[i + 1].node
      BY <2>3, <3>1, <3>2 DEF EntriesHold, CurrentEntry
    <3> QED
      BY <3>2, <3>3 DEF child_of, IsInode
  <2> QED
    BY <2>3, <2>5, <2>6 DEF OnLeaf, IsLeaf
<1> QED
  BY <1>1, ScansKeepInvariant, PTL

\* The threads beside the scanner do what OlcArt specifies: an iterator does not disturb them.
THEOREM ScansImplementTree == ItSpec => Rest!Spec
<1>1. ItInit => Rest!Init
  BY RestInit
<1>2. ScanInv /\ [ItNext]_allVars => [Rest!Next]_(Rest!vars)
  <2> SUFFICES ASSUME ScanInv, [ItNext]_allVars PROVE [Rest!Next]_(Rest!vars)
    OBVIOUS
  <2>1. OnThreads /\ todo[Scanner] \in Seq(Checks)
    BY DEF ScanInv, StackInv, ScanTypes, PastChecks
  <2> QED
    BY <2>1, RestNext
<1> QED
  BY <1>1, <1>2, ScansKeepInvariant, PTL DEF ItSpec, Rest!Spec
===============================================================================
