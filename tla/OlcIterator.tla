----------------------------- MODULE OlcIterator -----------------------------
(***************************************************************************)
(* The iterator of olc_db and the scans that use it (olc_art.hpp), beside  *)
(* threads that get, insert and remove.                                    *)
(*                                                                         *)
(* The iterator is a stack of entries, the path from the root to a leaf:   *)
(* an inode with the key byte along which the path goes on, or the leaf,   *)
(* and the version under which it was read.  No lock is held between two   *)
(* calls; a call makes read critical sections from the versions on the     *)
(* stack again (rehydrate_read_lock), validates them, and seeks the key it *)
(* was on from the root when one of them is outdated.                      *)
(*                                                                         *)
(* Scanner is the thread that scans: it uses at, ver, todo and the actions *)
(* on lock words of OlcArt.  Iterators only read, so one is enough.  fwd   *)
(* selects between the code's pairs: first and last, next and prior,       *)
(* left-most and right-most traversal, the two halves of try_seek.         *)
(*                                                                         *)
(* Where the code checks a version, reads the node and checks again, only  *)
(* the check after the read is modelled: versions grow, so it implies the  *)
(* one before.                                                             *)
(***************************************************************************)
EXTENDS OlcArt, SequencesExt

CONSTANT Scanner

ASSUME ScannerAssumption == Scanner \in Thread \ {Loader}

VARIABLES
    scan,       \* the scan that runs: its bounds and its direction
    stack,      \* stack_
    walk,       \* the descent: a seek, or the left-most or right-most traversal
    after,      \* what follows the traversal: versions to check, where to go on
    ever,       \* history: keys bound at some instant of the current call
    steady,     \* history: keys bound throughout the current call
    lost        \* history: this attempt's seek ran into a dead end or was torn

callVars == <<ever, steady>>
scanVars == <<scan, stack, walk, after, callVars, lost>>
allVars == <<vars, scanVars>>

NoKey == <<>>
NoScan == [from |-> NoKey, to |-> NoKey, fwd |-> TRUE, on |-> FALSE]
Positioned == [checks |-> <<>>, goto |-> "positioned"]

fwd == scan.fwd
Traversal(f) == IF f THEN "left_most" ELSE "right_most"
bound == {k \in Key : map[k] # Nil}

(***************************************************************************)
(* The stack.                                                              *)
(***************************************************************************)
valid == stack # <<>>
top == Last(stack)
push(i, n, b, v) == Append(i, [node |-> n, byte |-> b, ver |-> v])
push_leaf(i, n, v) == Append(i, [node |-> n, ver |-> v])
pop == Front(stack)
OnLeaf == nodes[top.node].kind = "leaf"
current_key == nodes[top.node].key
\* get_child for the entry e; whatever a stale entry reads, the check that follows fails.
child_of(e) ==
    LET kids == nodes[e.node].kids IN IF e.byte \in DOMAIN kids THEN kids[e.byte] ELSE Nil

\* Checks of node n against version v.
CheckOf(n, v) == [do |-> "check", on |-> n, ver |-> v]
PlanChecks(c) == todo' = [todo EXCEPT ![Scanner] = c]
\* Checks of the RCSs of the descent.
Check(r) == CheckOf(at[Scanner][r], ver[Scanner][r])

Here(label) == Ready(Scanner, label)
\* What no step of the iterator changes.
Unread == UNCHANGED <<treeVars, word, map, load, held, result>>
Untouched == Unread /\ UNCHANGED seen

(***************************************************************************)
(* Calls.  op and key say what a call that must restart does: first again, *)
(* or seek the key, and for next advance if the key is still there.        *)
(***************************************************************************)
Call(o, k, label) ==
    /\ op' = [op EXCEPT ![Scanner] = o]
    /\ key' = [key EXCEPT ![Scanner] = k]
    /\ Goto(Scanner, label)
    /\ ever' = bound
    /\ steady' = bound
    /\ after' = Positioned

Begin(s, o, k) ==
    /\ load = <<>> /\ pc[Loader] = "idle"
    /\ Here("idle")
    /\ left[Scanner] > 0
    /\ left' = [left EXCEPT ![Scanner] = @ - 1]
    /\ Call(o, k, "root_lock")
    /\ scan' = s
    /\ UNCHANGED <<rcsVars, todo, torn, stack, walk, lost>>
    /\ Untouched

Scan(from, to, f) == [from |-> from, to |-> to, fwd |-> f, on |-> TRUE]

scan_all(f) == Begin(Scan(NoKey, NoKey, f), "first", NoKey)
scan_from(k, f) == Begin(Scan(k, NoKey, f), "seek", k)
scan_range(from, to) ==
    /\ from # to
    /\ Begin(Scan(from, to, precedes(from, to)), "seek", from)

in_range(k) == scan.to # NoKey => Before(k, scan.to, fwd)

\* The iterator is on a leaf to visit: the caller's function gets it and returns
\* false, and next or prior begins with the stack as it is.
visit ==
    /\ Here("positioned")
    /\ valid /\ in_range(current_key)
    /\ Call("next", current_key, "step")
    /\ UNCHANGED <<left, rcsVars, todo, torn, scan, stack, walk, lost>>
    /\ Untouched

\* The caller's function returns true, or nothing is left to visit.
finish ==
    /\ Here("positioned")
    /\ op' = [op EXCEPT ![Scanner] = "none"]
    /\ key' = [key EXCEPT ![Scanner] = NoKey]
    /\ Goto(Scanner, "idle")
    /\ depth' = [depth EXCEPT ![Scanner] = 0]
    /\ at' = [at EXCEPT ![Scanner] = Nowhere]
    /\ ver' = [ver EXCEPT ![Scanner] = Nowhere]
    /\ seen' = [seen EXCEPT ![Scanner] = {}]
    /\ torn' = torn \ {Scanner}
    /\ scan' = NoScan /\ stack' = <<>> /\ walk' = "seek" /\ after' = Positioned
    /\ ever' = {} /\ steady' = {} /\ lost' = FALSE
    /\ UNCHANGED <<left, todo>>
    /\ Unread

(***************************************************************************)
(* The root: invalidate, then load_root as in the other operations.        *)
(***************************************************************************)
\* Mutant of it_load_root: a restarted attempt keeps the entries of the last one.
it_load_root_KeepsStack ==
    /\ Here("load_root")
    /\ UNCHANGED stack
    /\ after' = Positioned
    /\ walk' = IF op[Scanner] = "first" THEN Traversal(fwd) ELSE "seek"
    /\ lost' = FALSE
    /\ PlanChecks(<<Check("parent")>>)
    /\ at' = [at EXCEPT ![Scanner]["node"] = root]
    /\ Goto(Scanner, IF root = Nil THEN "positioned" ELSE "lock_node")
    /\ UNCHANGED <<opVars, depth, ver, torn, scan, callVars>>
    /\ Untouched

it_load_root ==
    /\ Here("load_root")
    /\ stack' = <<>>
    /\ after' = Positioned
    /\ walk' = IF op[Scanner] = "first" THEN Traversal(fwd) ELSE "seek"
    /\ lost' = FALSE
    /\ PlanChecks(<<Check("parent")>>)
    /\ at' = [at EXCEPT ![Scanner]["node"] = root]
    /\ Goto(Scanner, IF root = Nil THEN "positioned" ELSE "lock_node")
    /\ UNCHANGED <<opVars, depth, ver, torn, scan, callVars>>
    /\ Untouched

(***************************************************************************)
(* Traversals.                                                             *)
(***************************************************************************)
\* Go on from node n, whose RCS has version v, to its child c.
DescendTo(n, v, c) ==
    /\ at' = [at EXCEPT ![Scanner] = [Nowhere EXCEPT !["parent"] = n, !["node"] = c]]
    /\ ver' = [ver EXCEPT ![Scanner] = [Nowhere EXCEPT !["parent"] = v]]
    /\ Goto(Scanner, "lock_node")

ThisNode == at[Scanner]["node"]
ThisVer == ver[Scanner]["node"]

traverse_leaf ==
    /\ Here("at_node") /\ walk # "seek"
    /\ nodes[ThisNode].kind = "leaf"
    /\ stack' = push_leaf(stack, ThisNode, ThisVer)
    /\ PlanChecks(<<Check("node")>> \o after.checks)
    /\ Goto(Scanner, after.goto)
    /\ torn' = torn \ {Scanner}
    /\ UNCHANGED <<opVars, rcsVars, scan, walk, after, callVars, lost>>
    /\ Untouched

traverse_inode ==
    /\ Here("at_node") /\ walk # "seek"
    /\ nodes[ThisNode].kind = "inode"
    /\ LET n == nodes[ThisNode]
           b == nearest(DOMAIN n.kids, walk = "left_most")
       IN /\ stack' = push(stack, ThisNode, b, ThisVer)
          /\ DescendTo(ThisNode, ThisVer, n.kids[b])
    /\ PlanChecks(<<Check("node")>>)
    /\ torn' = torn \ {Scanner}
    /\ UNCHANGED <<opVars, depth, scan, walk, after, callVars, lost>>
    /\ Untouched

(***************************************************************************)
(* try_seek.                                                               *)
(***************************************************************************)
SeekAt(kind) == Here("at_node") /\ walk = "seek" /\ nodes[ThisNode].kind = kind
\* The prefix of the node was changed without a guard after it was reached.
Tear == lost' = (lost \/ Scanner \in torn) /\ torn' = torn \ {Scanner}

\* Mutant of seek_leaf: a next that restarts does not leave its key.
seek_leaf_StaysOnKey ==
    /\ SeekAt("leaf")
    /\ LET k == nodes[ThisNode].key
           onward == Before(k, key[Scanner], fwd)
       IN Goto(Scanner, IF onward THEN "step" ELSE "positioned")
    /\ stack' = push_leaf(stack, ThisNode, ThisVer)
    /\ PlanChecks(<<Check("parent"), Check("node")>>)
    /\ Tear
    /\ UNCHANGED <<opVars, rcsVars, scan, walk, after, callVars>>
    /\ Untouched

\* The leaf is what was sought, or its neighbour is.  A next, which seeks the key it
\* was on, goes on to the neighbour if it finds that key.
seek_leaf ==
    /\ SeekAt("leaf")
    /\ LET k == nodes[ThisNode].key
           onward == \/ k = key[Scanner] /\ op[Scanner] = "next"
                     \/ Before(k, key[Scanner], fwd)
       IN Goto(Scanner, IF onward THEN "step" ELSE "positioned")
    /\ stack' = push_leaf(stack, ThisNode, ThisVer)
    /\ PlanChecks(<<Check("parent"), Check("node")>>)
    /\ Tear
    /\ UNCHANGED <<opVars, rcsVars, scan, walk, after, callVars>>
    /\ Untouched

\* The prefix differs from the key: everything under the node comes before the key or
\* after it.  The traversal locks the node again; the RCS made here is checked last.
seek_prefix_differs ==
    /\ SeekAt("inode")
    /\ PrefixDiffers(Scanner)
    /\ LET s == shared(Scanner)
           less == ByteAt(key[Scanner], depth[Scanner] + s + 1)
                       < nodes[ThisNode].prefix[s + 1]
       IN IF less = fwd
          THEN /\ walk' = Traversal(fwd)
               /\ after' = [checks |-> <<Check("node")>>, goto |-> "positioned"]
          ELSE /\ walk' = Traversal(~fwd)
               /\ after' = [checks |-> <<Check("node")>>, goto |-> "step"]
    /\ PlanChecks(<<Check("parent")>>)
    /\ Goto(Scanner, "lock_node")
    /\ Tear
    /\ UNCHANGED <<opVars, rcsVars, scan, stack, callVars>>
    /\ Untouched

seek_prefix_matches ==
    /\ SeekAt("inode")
    /\ shared(Scanner) = Len(nodes[ThisNode].prefix)
    /\ depth' = [depth EXCEPT ![Scanner] = @ + shared(Scanner)]
    /\ Goto(Scanner, "find_child")
    /\ Tear
    /\ UNCHANGED <<opVars, at, ver, todo, scan, stack, walk, after, callVars>>
    /\ Untouched

seek_child ==
    /\ Here("find_child")
    /\ HasChild(Scanner)
    /\ stack' = push(stack, ThisNode, NextByte(Scanner), ThisVer)
    /\ PlanChecks(<<Check("node")>>)
    /\ DescendTo(ThisNode, ThisVer, find_child(Scanner))
    /\ depth' = [depth EXCEPT ![Scanner] = @ + 1]
    /\ UNCHANGED <<opVars, torn, scan, walk, after, callVars, lost>>
    /\ Untouched

\* The children beyond the key's byte; gte_key_byte and lte_key_byte take the nearest.
Beyond == siblings(nodes[ThisNode], NextByte(Scanner), fwd)

seek_sibling ==
    /\ Here("find_child")
    /\ ~HasChild(Scanner) /\ Beyond # {}
    /\ LET c == nearest(Beyond, fwd)
       IN /\ stack' = push(stack, ThisNode, c, ThisVer)
          /\ DescendTo(ThisNode, ThisVer, nodes[ThisNode].kids[c])
    /\ walk' = Traversal(fwd)
    /\ PlanChecks(<<Check("node"), Check("parent"), Check("node")>>)
    /\ UNCHANGED <<opVars, depth, torn, scan, after, callVars, lost>>
    /\ Untouched

\* A dead end: the entry of the parent is popped, although there is none of the node.
seek_dead_end ==
    /\ Here("find_child")
    /\ ~HasChild(Scanner) /\ Beyond = {}
    /\ stack' = IF valid THEN pop ELSE stack
    /\ lost' = (lost \/ valid)
    /\ PlanChecks(<<Check("parent"), Check("node")>>)
    /\ Goto(Scanner, "backtrack")
    /\ UNCHANGED <<opVars, rcsVars, torn, scan, walk, after, callVars>>
    /\ Untouched

\* From a dead end, the traversal of the child along which the entry with a sibling was
\* pushed, not of the sibling.
backtrack ==
    /\ Here("backtrack")
    /\ valid
    /\ PlanChecks(<<CheckOf(top.node, top.ver)>>)
    /\ IF siblings(nodes[top.node], top.byte, fwd) # {}
       THEN /\ walk' = Traversal(fwd)
            /\ DescendTo(top.node, top.ver, child_of(top))
            /\ UNCHANGED stack
       ELSE /\ stack' = pop
            /\ UNCHANGED <<walk, at, ver, pc>>
    /\ UNCHANGED <<opVars, depth, torn, scan, after, callVars, lost>>
    /\ Untouched

(***************************************************************************)
(* try_next and try_prior.                                                 *)
(***************************************************************************)
\* Mutant of step_pop: the version of the entry is not validated.
step_pop_NoCheck ==
    /\ Here("step")
    /\ valid
    /\ ~OnLeaf => siblings(nodes[top.node], top.byte, fwd) = {}
    /\ stack' = pop
    /\ UNCHANGED <<opVars, pc, rcsVars, todo, torn, scan, walk, after, callVars, lost>>
    /\ Untouched

\* A leaf, and an inode without a sibling of the child just left, are popped.
step_pop ==
    /\ Here("step")
    /\ valid
    /\ ~OnLeaf => siblings(nodes[top.node], top.byte, fwd) = {}
    /\ PlanChecks(<<CheckOf(top.node, top.ver)>>)
    /\ stack' = pop
    /\ UNCHANGED <<opVars, pc, rcsVars, torn, scan, walk, after, callVars, lost>>
    /\ Untouched

\* Otherwise the entry is replaced by the sibling's, and the sibling traversed.
step_sibling ==
    /\ Here("step")
    /\ valid
    /\ ~OnLeaf
    /\ LET n == nodes[top.node]
           S == siblings(n, top.byte, fwd)
           c == nearest(S, fwd)
       IN /\ S # {}
          /\ stack' = push(pop, top.node, c, top.ver)
          /\ DescendTo(top.node, top.ver, n.kids[c])
    /\ walk' = Traversal(fwd)
    /\ after' = Positioned
    /\ PlanChecks(<<CheckOf(top.node, top.ver)>>)
    /\ UNCHANGED <<opVars, depth, torn, scan, callVars, lost>>
    /\ Untouched

\* The stack is empty: end().
at_end ==
    /\ Here("step") \/ Here("backtrack")
    /\ ~valid
    /\ Goto(Scanner, "positioned")
    /\ UNCHANGED <<opVars, rcsVars, todo, torn, scan, stack, walk, after, callVars, lost>>
    /\ Untouched

-------------------------------------------------------------------------------
ItInit ==
    /\ Init
    /\ scan = NoScan
    /\ stack = <<>>
    /\ walk = "seek"
    /\ after = Positioned
    /\ ever = {} /\ steady = {}
    /\ lost = FALSE

\* A step of a thread that inserts or removes (a get changes nothing that the iterator
\* reads), and what it does to the history of the scanner's call.
OtherThread(t) ==
    /\ \/ \E o \in {"insert", "remove"}, k \in Key : begin(t, o, k)
       \/ return(t) \/ Locking(t) \/ Reading(t) \/ Writing(t)
    /\ IF scan.on
       THEN ever' = ever \cup bound' /\ steady' = steady \cap bound'
       ELSE UNCHANGED callVars
    /\ UNCHANGED <<scan, stack, walk, after, lost>>

Scanning ==
    \/ \E f \in BOOLEAN : scan_all(f) \/ \E k \in Key : scan_from(k, f)
    \/ \E from, to \in Key : scan_range(from, to)
    \/ visit \/ finish
    \/ it_load_root
    \/ traverse_leaf \/ traverse_inode
    \/ seek_leaf \/ seek_prefix_differs \/ seek_prefix_matches
    \/ seek_child \/ seek_sibling \/ seek_dead_end \/ backtrack
    \/ step_pop \/ step_sibling \/ at_end

ItNext ==
    \/ begin_load /\ UNCHANGED scanVars
    \/ \E t \in Thread \ {Scanner} : OtherThread(t)
    \/ Locking(Scanner) /\ UNCHANGED scanVars
    \/ Scanning

ItSpec == ItInit /\ [][ItNext]_allVars

-------------------------------------------------------------------------------
(***************************************************************************)
(* Properties.                                                             *)
(***************************************************************************)
\* The call that the scan is in has ended.
Landed == Here("positioned") /\ ~lost

\* Where the call started from: the key that next or prior left, the bound sought.
Passed(k) ==
    CASE op[Scanner] = "next" -> Before(key[Scanner], k, fwd)
      [] op[Scanner] = "seek" -> ~Before(k, key[Scanner], fwd)
      [] op[Scanner] = "first" -> TRUE

\* The iterator ends every call on a leaf whose key was bound at some instant of that
\* call and lies beyond where the call started: a scan goes on in order and visits
\* nothing twice and nothing that was gone before it moved on.
LandsOnBound == Landed /\ valid => OnLeaf /\ current_key \in ever /\ Passed(current_key)

\* No key that was bound throughout a call is skipped by it, neither before the leaf it
\* ends on nor when it ends the scan: a scan visits all that is there throughout.
SkipsNothingSteady ==
    Landed => \A k \in steady :
        Passed(k) => valid /\ (k = current_key \/ Before(current_key, k, fwd))

\* As long as the versions on the stack are current the stack is the path of the tree to
\* its leaf, whatever has happened in the tree since it was pushed.
StackIsCurrent ==
    Here("positioned") /\ valid /\ (\A i \in DOMAIN stack : word[stack[i].node] = stack[i].ver)
        => /\ stack[1].node = root
           /\ \A i \in 1 .. Len(stack) - 1 : /\ nodes[stack[i].node].kind = "inode"
                                            /\ stack[i + 1].node = child_of(stack[i])
           /\ OnLeaf
===============================================================================
