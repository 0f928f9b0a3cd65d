--------------------------- MODULE OlcIteratorShape ---------------------------
(***************************************************************************)
(* The inductive invariant of OlcIterator, on top of OlcArtShape's Inv for *)
(* the threads other than the scanner.                                     *)
(*                                                                         *)
(* The stack is a path in the labels of its nodes: that of an entry begins *)
(* with the label of the one below it and the byte there, whatever happens *)
(* to the tree.  Of an entry whose version is current more is known: its   *)
(* child is the next entry, and it is still reached by the path below it.  *)
(* What a call has found out so far it knows if the checks that it has     *)
(* still to make succeed and its seek has not been lost.                   *)
(***************************************************************************)
EXTENDS OlcIterator, OlcArtShape

\* The threads that get, insert and remove.
Others == Thread \ {Scanner}

ScanLabels == {"idle", "root_lock", "load_root", "lock_node", "at_node", "find_child",
               "positioned", "step", "backtrack"}
Checks == [do : {"check"}, on : Lock, ver : Nat]
StackEntry == [node : Node, ver : Nat] \cup [node : Node, byte : Byte, ver : Nat]

Descending == pc[Scanner] \in {"lock_node", "at_node", "find_child"}
CurrentEntry(e) == word[e.node] = e.ver
CurrentNode == word[ThisNode] = ThisVer
PastChecks(cs) == cs \in Seq(Checks) /\ \A i \in DOMAIN cs : Past(cs[i].on, cs[i].ver)
AllCurrent(cs) == \A i \in DOMAIN cs : word[cs[i].on] = cs[i].ver

\* Bytes of the path up to and with the byte of the entry below entry i of the stack s.
Above(end, s, i) == IF i = 1 THEN 0 ELSE end[s[i - 1].node] + 1

(***************************************************************************)
(* The stack as a path.                                                    *)
(***************************************************************************)
ScanTypes ==
    /\ pc[Scanner] \in ScanLabels
    /\ held[Scanner] = <<>>
    /\ PastChecks(todo[Scanner]) /\ PastChecks(after.checks)
    /\ after.goto \in {"positioned", "step"}
    /\ walk \in {"seek", "left_most", "right_most"}
    /\ fwd \in BOOLEAN /\ lost \in BOOLEAN
    /\ at[Scanner] \in [Role -> Lock] /\ ver[Scanner] \in [Role -> Nat] /\ depth[Scanner] \in Nat
    /\ pc[Scanner] \in {"idle", "root_lock", "load_root"} =>
          depth[Scanner] = 0 /\ at[Scanner] = Nowhere
    /\ pc[Scanner] = "load_root" => Past(Nil, ver[Scanner]["parent"])
    /\ pc[Scanner] = "idle" <=> ~scan.on
    /\ pc[Scanner] = "idle" => todo[Scanner] = <<>>
    /\ pc[Scanner] # "idle" => op[Scanner] \in {"first", "seek", "next"}
    /\ op[Scanner] \in {"none", "first", "seek", "next"}
    /\ op[Scanner] \in {"seek", "next"} => key[Scanner] \in Key
    /\ scan.on => bound \subseteq ever /\ steady \subseteq bound
    /\ Scanner \in torn => pc[Scanner] = "at_node"
    /\ pc[Scanner] = "at_node" /\ todo[Scanner] # <<>> => todo[Scanner] = <<Check("parent")>>
    /\ pc[Scanner] = "find_child" => todo[Scanner] = <<>> /\ walk = "seek"
    /\ Descending /\ walk = "seek" => after = Positioned
    /\ \/ pc[Scanner] \in {"step", "backtrack"}
       \/ Descending /\ (walk = "seek" \/ after.goto = "step")
       => op[Scanner] # "first"

StackPath(rep, end, s) ==
    /\ s \in Seq(StackEntry)
    /\ \A i \in DOMAIN s : /\ IsUsed(s[i].node) /\ Past(s[i].node, s[i].ver)
                           /\ IsInode(s[i].node) => s[i].byte \in Byte
    /\ \A i \in 1 .. Len(s) - 1 : /\ IsInode(s[i].node)
                                  /\ GoodKid(rep, end, s[i].node, s[i].byte, s[i + 1].node)

StackFits(rep, end) ==
    /\ StackPath(rep, end, stack)
    /\ pc[Scanner] = "positioned" /\ valid => IsLeaf(top.node)
    /\ pc[Scanner] = "backtrack" /\ valid => IsInode(top.node)

\* The descent goes on from the top of the stack.
DescentFits(rep, end) ==
    Descending =>
    /\ Past(at[Scanner]["parent"], ver[Scanner]["parent"])
    /\ ThisNode = Nil => /\ pc[Scanner] = "lock_node"
                         /\ todo[Scanner] # <<>> /\ ~SameVersion(Scanner)
    /\ ThisNode # Nil => IsUsed(ThisNode)
    /\ pc[Scanner] # "lock_node" => Past(ThisNode, ThisVer)
    /\ pc[Scanner] = "find_child" => IsInode(ThisNode)
    /\ stack = <<>> => at[Scanner]["parent"] = Nil /\ ThisNode # Nil
    /\ valid => /\ IsInode(top.node)
                /\ at[Scanner]["parent"] = top.node /\ ver[Scanner]["parent"] = top.ver
                /\ ThisNode # Nil => GoodKid(rep, end, top.node, top.byte, ThisNode)

\* What an entry says is so while its version is current.
EntriesHold(end, start, s) ==
    \A i \in DOMAIN s : CurrentEntry(s[i]) =>
        /\ start[s[i].node] <= Above(end, s, i)
        /\ IsInode(s[i].node) => s[i].byte \in DOMAIN nodes[s[i].node].kids
        /\ i < Len(s) => nodes[s[i].node].kids[s[i].byte] = s[i + 1].node

\* The same of where the descent is.
DescentHolds(end, start) ==
    Descending =>
    /\ stack = <<>> /\ word[Nil] = ver[Scanner]["parent"] => root = ThisNode
    /\ valid /\ CurrentEntry(top) => nodes[top.node].kids[top.byte] = ThisNode
    /\ /\ pc[Scanner] # "lock_node"
       /\ AllCurrent(todo[Scanner]) /\ CurrentNode
       => start[ThisNode] <= Above(end, stack, Len(stack) + 1)

StackInv(tree, rep, end, start) ==
    /\ ScanTypes
    /\ StackFits(rep, end)
    /\ DescentFits(rep, end)
    /\ EntriesHold(end, start, stack)
    /\ DescentHolds(end, start)

(***************************************************************************)
(* What a call knows.                                                      *)
(***************************************************************************)
Further(a, b) == IF fwd THEN a > b ELSE a < b
\* k lies beyond what begins with the first l bytes of r.
AheadOf(k, r, l) == \E i \in 1 .. l : SameTo(k, r, i - 1) /\ Further(k[i], r[i])

\* The path of k goes along entry e, or leads beyond it.
Through(rep, end, k, e) ==
    /\ SameTo(k, rep[e.node], end[e.node])
    /\ IsInode(e.node) => k[end[e.node] + 1] = e.byte
Onward(rep, end, k, e) ==
    \/ AheadOf(k, rep[e.node], end[e.node])
    \/ /\ IsInode(e.node)
       /\ SameTo(k, rep[e.node], end[e.node])
       /\ Further(k[end[e.node] + 1], e.byte)

\* The call can still end on what it looks for.
Hopeful ==
    /\ AllCurrent(todo[Scanner])
    /\ ~lost
    /\ Descending /\ walk = "seek" => Scanner \notin torn
    /\ Descending => AllCurrent(after.checks)

\* Where a seek is.
Seeks(rep, end, start) ==
    /\ valid => Through(rep, end, key[Scanner], top)
    /\ pc[Scanner] # "find_child" => depth[Scanner] = Above(end, stack, Len(stack) + 1)
    /\ pc[Scanner] = "at_node" /\ CurrentNode /\ IsInode(ThisNode) =>
          start[ThisNode] = depth[Scanner]
    /\ pc[Scanner] = "find_child" /\ CurrentNode =>
          /\ depth[Scanner] = end[ThisNode]
          /\ SameTo(key[Scanner], rep[ThisNode], end[ThisNode])

\* A traversal goes to the next leaf.
Finds(rep, end) ==
    /\ walk = Traversal(fwd) /\ after.goto = "positioned"
    /\ \A k \in Key : SameTo(k, rep[ThisNode], end[ThisNode]) => Passed(k)
    /\ valid => \A k \in steady :
                    Passed(k) => Through(rep, end, k, top) \/ Onward(rep, end, k, top)

\* An entry from which the iterator steps on to what it looks for, or not at all.
StepsOn(rep, end, e) ==
    \/ IsLeaf(e.node)
    \/ Through(rep, end, key[Scanner], e)
    \/ CurrentEntry(e) => siblings(nodes[e.node], e.byte, fwd) = {}

\* A traversal goes to the leaf before it.
FindsLast(rep, end) ==
    /\ walk = Traversal(~fwd) /\ after.goto = "step"
    /\ \A k \in Key : SameTo(k, rep[ThisNode], end[ThisNode]) => Before(k, key[Scanner], fwd)
    /\ \A i \in DOMAIN stack : StepsOn(rep, end, stack[i])

\* What is left to visit lies beyond the top of the stack.
Steps(rep, end) ==
    /\ \A i \in DOMAIN stack : StepsOn(rep, end, stack[i])
    /\ \A k \in steady : Passed(k) => valid /\ Onward(rep, end, k, top)

Lands ==
    /\ valid => current_key \in ever /\ Passed(current_key)
    /\ \A k \in steady :
          Passed(k) => valid /\ (k = current_key \/ Before(current_key, k, fwd))

CallKnows(rep, end, start) ==
    /\ Descending => IF walk = "seek" THEN Seeks(rep, end, start)
                     ELSE Finds(rep, end) \/ FindsLast(rep, end)
    /\ pc[Scanner] = "step" => Steps(rep, end)
    /\ pc[Scanner] = "backtrack" => \A k \in steady : ~Passed(k)
    /\ pc[Scanner] = "positioned" => Lands

CallInv(rep, end, start) ==
    /\ pc[Scanner] = "backtrack" /\ valid => lost
    /\ Hopeful => CallKnows(rep, end, start)
===============================================================================
