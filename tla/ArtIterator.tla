------------------------------ MODULE ArtIterator ------------------------------
(***************************************************************************)
(* The iterator of db and the scans that use it (art.hpp).                 *)
(*                                                                         *)
(* An iterator is a stack of entries, the path from the root to a leaf.    *)
(* An entry is an inode with the key byte along which the path goes on     *)
(* (the code's child_index is the position of that byte among the inode's  *)
(* children), or the leaf at the end.  The key buffer is left out: get_key *)
(* reads the key from the leaf.                                            *)
(*                                                                         *)
(* A scan positions an iterator and then calls the caller's function once  *)
(* per leaf until the function returns true or the iterator leaves the     *)
(* range; the tree does not change meanwhile.                              *)
(***************************************************************************)
EXTENDS Art, SequencesExt

CONSTANT KeyView    \* the key type is key_view, not an unsigned integer

ASSUME KeyViewAssumption == KeyView \in BOOLEAN

VARIABLES
    it,         \* the iterator
    scan,       \* the scan that runs: what it was asked for and its direction
    visited     \* the keys given to the caller's function so far

itVars == <<it, scan, visited>>
allVars == <<vars, itVars>>

End == <<>>
NoScan == [op |-> "none"]
\* from and to are NoKey where the scan has no such bound.
Scan(o, from, to, fwd) == [op |-> o, from |-> from, to |-> to, fwd |-> fwd]

(***************************************************************************)
(* The stack.                                                              *)
(***************************************************************************)
valid(i) == i # <<>>
top(i) == Last(i)
current(i) == top(i).node
push(i, n, b) == Append(i, [node |-> n, byte |-> b])
push_leaf(i, n) == Append(i, [node |-> n])
pop(i) == Front(i)

\* left_most_traversal (fwd) and right_most_traversal.
RECURSIVE traversal(_, _, _)
traversal(i, n, fwd) ==
    IF n.kind = "leaf" THEN push_leaf(i, n)
    ELSE LET b == nearest(DOMAIN n.kids, fwd)
         IN traversal(push(i, n, b), n.kids[b], fwd)

\* Mutant of advance: the farthest sibling instead of the nearest.
RECURSIVE advance_Farthest(_, _)
advance_Farthest(i, fwd) ==
    IF ~valid(i) THEN i
    ELSE LET n == current(i)
             S == IF n.kind = "leaf" THEN {} ELSE siblings(n, top(i).byte, fwd)
             b == nearest(S, ~fwd)
         IN IF S = {} THEN advance_Farthest(pop(i), fwd)
            ELSE traversal(push(pop(i), n, b), n.kids[b], fwd)

\* next (fwd) and prior.
RECURSIVE advance(_, _)
advance(i, fwd) ==
    IF ~valid(i) THEN i
    ELSE LET n == current(i)
             S == IF n.kind = "leaf" THEN {} ELSE siblings(n, top(i).byte, fwd)
             b == nearest(S, fwd)
         IN IF S = {} THEN advance(pop(i), fwd)
            ELSE traversal(push(pop(i), n, b), n.kids[b], fwd)

\* first (fwd) and last.
start(fwd) == IF root = Null THEN End ELSE traversal(End, root, fwd)

(***************************************************************************)
(* seek.                                                                   *)
(***************************************************************************)
\* Nothing beyond the key in the inode: look for an entry on the stack that has a
\* sibling, and descend along the byte of the entry, not along the sibling.
RECURSIVE backtrack(_, _)
backtrack(i, fwd) ==
    IF ~valid(i) THEN i
    ELSE LET n == current(i)
             b == top(i).byte
         IN IF siblings(n, b, fwd) # {} THEN traversal(i, n.kids[b], fwd)
            ELSE backtrack(pop(i), fwd)

\* From a leaf: it is what was sought, or its neighbour is.
seek_leaf(i, n, k, fwd) ==
    IF Before(n.key, k, fwd) THEN advance(push_leaf(i, n), fwd) ELSE push_leaf(i, n)

\* Mutant of seek_prefix: the ordering of key and prefix is taken the other way.
seek_prefix_Swapped(i, n, k, d, fwd) ==
    LET s == get_shared_length(n.prefix, k, d)
        before == ByteAt(k, d + s + 1) > n.prefix[s + 1]
    IN IF before = fwd THEN traversal(i, n, fwd)
       ELSE advance(traversal(i, n, ~fwd), fwd)

\* From an inode whose prefix differs from the key: all of it is before or after.
seek_prefix(i, n, k, d, fwd) ==
    LET s == get_shared_length(n.prefix, k, d)
        before == ByteAt(k, d + s + 1) < n.prefix[s + 1]
    IN IF before = fwd THEN traversal(i, n, fwd)
       ELSE advance(traversal(i, n, ~fwd), fwd)

\* From an inode that has no child at the key's byte.
seek_sibling(i, n, b, fwd) ==
    LET S == siblings(n, b, fwd)
        c == nearest(S, fwd)
    IN IF S # {} THEN traversal(push(i, n, c), n.kids[c], fwd)
       ELSE backtrack(IF valid(i) THEN pop(i) ELSE i, fwd)

RECURSIVE seek_from(_, _, _, _, _)
seek_from(i, n, k, d, fwd) ==
    IF n.kind = "leaf" THEN seek_leaf(i, n, k, fwd)
    ELSE IF ~prefix_matches(n, k, d) THEN seek_prefix(i, n, k, d, fwd)
    ELSE LET b == key_byte(n, k, d)
         IN IF b \notin DOMAIN n.kids THEN seek_sibling(i, n, b, fwd)
            ELSE seek_from(push(i, n, b), n.kids[b], k, below(n, d), fwd)

seek(k, fwd) == IF root = Null THEN End ELSE seek_from(End, root, k, 0, fwd)

(***************************************************************************)
(* Scans.                                                                  *)
(***************************************************************************)
CanScan == answer = Idle /\ scan = NoScan /\ UNCHANGED vars

Begin(s, i) == scan' = s /\ it' = i /\ visited' = <<>>

scan_all(fwd) ==
    /\ CanScan
    /\ Begin(Scan("scan", NoKey, NoKey, fwd), start(fwd))

scan_from(k, fwd) ==
    /\ CanScan
    /\ Begin(Scan("scan_from", k, NoKey, fwd), seek(k, fwd))

\* basic_art_key::cmp as scan_range uses it, < 0 being TRUE.  For key_view it compares
\* the addresses and sizes of the two views instead of their bytes.
before_as_cmp(k1, k2) == IF KeyView THEN BOOLEAN ELSE {precedes(k1, k2)}

\* A range with equal bounds is not scanned, when cmp finds them equal.
scan_range(from, to) ==
    /\ CanScan
    /\ from # to \/ KeyView
    /\ \E fwd \in before_as_cmp(from, to) :
           Begin(Scan("scan_range", from, to, fwd), seek(from, fwd))

in_range(k) == scan.to # NoKey => Before(k, scan.to, scan.fwd)

\* The caller's function gets the leaf and returns false, the iterator moves on.
visit ==
    /\ scan # NoScan
    /\ valid(it) /\ in_range(current(it).key)
    /\ visited' = Append(visited, current(it).key)
    /\ it' = advance(it, scan.fwd)
    /\ UNCHANGED <<vars, scan>>

\* The caller's function gets the leaf and returns true, or nothing is left to visit.
finish ==
    /\ scan # NoScan
    /\ scan' = NoScan /\ it' = End /\ visited' = <<>>
    /\ UNCHANGED vars

-------------------------------------------------------------------------------
ItInit == Init /\ it = End /\ scan = NoScan /\ visited = <<>>

TreeOp ==
    /\ scan = NoScan
    /\ Next
    /\ UNCHANGED itVars

ItNext ==
    \/ TreeOp
    \/ \E fwd \in BOOLEAN : scan_all(fwd) \/ \E k \in Key : scan_from(k, fwd)
    \/ \E from, to \in Key : scan_range(from, to)
    \/ visit \/ finish

ItSpec == ItInit /\ [][ItNext]_allVars

-------------------------------------------------------------------------------
(***************************************************************************)
(* Properties.                                                             *)
(***************************************************************************)
Pending == scan # NoScan /\ valid(it) /\ in_range(current(it).key)
\* What is visited, with the leaf that is visited next.
Seen == IF Pending THEN Append(visited, current(it).key) ELSE visited

\* A scan goes on in the order of the keys and leaves out no key between two that it
\* visits, wherever it began (next and prior).
ScanIsRun ==
    \A i \in 1 .. Len(Seen) - 1 :
        /\ Before(Seen[i], Seen[i + 1], scan.fwd)
        /\ ~\E k \in contents : Before(Seen[i], k, scan.fwd) /\ Before(k, Seen[i + 1], scan.fwd)

\* The keys a scan is asked for, by its comments: forward when from is less than to,
\* from included and to excluded.
Asked ==
    LET fwd == IF scan.to = NoKey THEN scan.fwd ELSE precedes(scan.from, scan.to)
    IN {k \in contents : /\ scan.from # NoKey => ~Before(k, scan.from, fwd)
                         /\ scan.to # NoKey => Before(k, scan.to, fwd)}

Exact ==
    scan # NoScan =>
        /\ Range(Seen) \subseteq Asked
        /\ Range(visited) = {k \in Asked : Pending => Before(k, current(it).key, scan.fwd)}

\* The descent for key k ends in an inode other than the root with no child for the
\* key's byte nor beyond it.
RECURSIVE DeadEnd(_, _, _, _)
DeadEnd(n, k, d, fwd) ==
    /\ n.kind = "inode" /\ prefix_matches(n, k, d)
    /\ LET b == key_byte(n, k, d)
       IN IF b \in DOMAIN n.kids THEN DeadEnd(n.kids[b], k, below(n, d), fwd)
          ELSE d > 0 /\ siblings(n, b, fwd) = {}

\* A scan visits exactly the keys it was asked for and ends when all are visited, when
\* the first key is not sought from a dead end (scan, scan_from, scan_range, seek).
ScanExact ==
    (scan # NoScan /\ scan.from # NoKey => ~DeadEnd(root, scan.from, 0, scan.fwd)) => Exact

\* seek's comment: the iterator is "positioned first entry which orders GTE the
\* search_key and invalidated if there is no such entry" (LTE in reverse).
SeekFindsBound == scan # NoScan /\ scan.op = "scan_from" => Exact

\* scan_range's comment: "The scan will proceed in lexicographic order iff from_key is
\* less than to_key", visiting "all index entries in the half-open range
\* [from_key,to_key) in forward order".
RangeIsVisited ==
    scan # NoScan /\ scan.op = "scan_range" /\ ~DeadEnd(root, scan.from, 0, scan.fwd)
        => Exact
===============================================================================
