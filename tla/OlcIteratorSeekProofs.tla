------------------------ MODULE OlcIteratorSeekProofs ------------------------
(***************************************************************************)
(* The traversals and seeks of the iterator keep the invariant of          *)
(* OlcIteratorShape, with the lemmas on the order of keys, on paths and on *)
(* lists of checks that its other steps need too.                          *)
(***************************************************************************)
EXTENDS OlcIteratorRestProofs, OlcArtTreeProofs

(***************************************************************************)
(* The order of keys, along the scan.                                      *)
(***************************************************************************)
\* Bytes are numbers.
LEMMA ByteOrder ==
    ASSUME NEW a \in Bytes, NEW b \in Bytes
    PROVE  /\ KeyLen \in Nat
           /\ \A i \in 1 .. KeyLen : a[i] \in Nat /\ b[i] \in Nat
           /\ \A i \in 1 .. KeyLen : Further(a[i], b[i]) \/ Further(b[i], a[i]) \/ a[i] = b[i]
<1>1. KeyLen \in Nat /\ \A i \in 1 .. KeyLen : a[i] \in Nat /\ b[i] \in Nat
  BY KeyAssumption DEF Bytes
<1>2. \A x, y \in Nat : Further(x, y) \/ Further(y, x) \/ x = y
  BY DEF Further
<1> QED
  BY <1>1, <1>2

\* Two keys agree on the first l bytes, or one of them is ahead.
LEMMA AheadTotal ==
    ASSUME NEW a \in Bytes, NEW b \in Bytes, NEW l \in 0 .. KeyLen
    PROVE  SameTo(a, b, l) \/ AheadOf(a, b, l) \/ AheadOf(b, a, l)
<1> SUFFICES ASSUME ~SameTo(a, b, l) PROVE AheadOf(a, b, l) \/ AheadOf(b, a, l)
  OBVIOUS
<1> DEFINE S == {i \in 1 .. l : a[i] # b[i]}
<1>1. S \in SUBSET Nat /\ S # {}
  BY KeyAssumption DEF SameTo
<1>2. PICK i \in S : \A y \in S : i <= y
  BY <1>1, LeastNat
<1>3. i \in 1 .. KeyLen /\ i \in 1 .. l /\ a[i] # b[i]
  BY KeyAssumption
<1>4. ASSUME NEW j \in 1 .. i - 1 PROVE a[j] = b[j]
  <2>1. j \in 1 .. l /\ j < i
    BY <1>3, KeyAssumption
  <2> QED
    BY <1>2, <2>1
<1>5. SameTo(a, b, i - 1) /\ SameTo(b, a, i - 1)
  BY <1>4 DEF SameTo
<1>6. Further(a[i], b[i]) \/ Further(b[i], a[i])
  BY <1>3, ByteOrder
<1> QED
  BY <1>3, <1>5, <1>6 DEF AheadOf

\* No more than one of these.
LEMMA AheadStrict ==
    ASSUME NEW a \in Bytes, NEW b \in Bytes, NEW l \in 0 .. KeyLen, AheadOf(a, b, l)
    PROVE  ~SameTo(a, b, l) /\ ~SameTo(b, a, l) /\ ~AheadOf(b, a, l)
<1>1. PICK i \in 1 .. l : SameTo(a, b, i - 1) /\ Further(a[i], b[i])
  BY DEF AheadOf
<1>2. i \in 1 .. KeyLen /\ KeyLen \in Nat /\ l \in Nat /\ i \in Nat
  BY KeyAssumption
<1>3. a[i] # b[i] /\ ~Further(b[i], a[i])
  BY <1>1, <1>2, ByteOrder DEF Further
<1>4. ASSUME NEW j \in 1 .. l, SameTo(b, a, j - 1), Further(b[j], a[j]) PROVE FALSE
  <2>1. j \in 1 .. KeyLen /\ j \in Nat
    BY <1>2
  <2>2. CASE j < i
    <3>1. j \in 1 .. i - 1
      BY <1>2, <2>1, <2>2
    <3> QED
      BY <1>1, <1>4, <2>1, <3>1, ByteOrder DEF SameTo, Further
  <2>3. CASE i < j
    <3>1. i \in 1 .. j - 1
      BY <1>2, <2>1, <2>3
    <3> QED
      BY <1>3, <1>4, <3>1 DEF SameTo
  <2>4. CASE i = j
    BY <1>3, <1>4, <2>4
  <2> QED
    BY <1>2, <2>1, <2>2, <2>3, <2>4
<1> QED
  BY <1>1, <1>3, <1>4 DEF SameTo, AheadOf

\* Only the first l bytes count.
LEMMA AheadSame ==
    ASSUME NEW a, NEW b, NEW c, NEW l \in Nat, AheadOf(a, b, l)
    PROVE  /\ SameTo(b, c, l) \/ SameTo(c, b, l) => AheadOf(a, c, l)
           /\ SameTo(a, c, l) \/ SameTo(c, a, l) => AheadOf(c, b, l)
<1>1. PICK i \in 1 .. l : SameTo(a, b, i - 1) /\ Further(a[i], b[i])
  BY DEF AheadOf
<1>2. i \in Nat /\ \A j \in 1 .. i - 1 : j \in 1 .. l
  OBVIOUS
<1>3. ASSUME SameTo(b, c, l) \/ SameTo(c, b, l) PROVE AheadOf(a, c, l)
  <2>1. SameTo(a, c, i - 1) /\ c[i] = b[i]
    BY <1>1, <1>2, <1>3 DEF SameTo
  <2> QED
    BY <1>1, <2>1 DEF AheadOf
<1>4. ASSUME SameTo(a, c, l) \/ SameTo(c, a, l) PROVE AheadOf(c, b, l)
  <2>1. SameTo(c, b, i - 1) /\ c[i] = a[i]
    BY <1>1, <1>2, <1>4 DEF SameTo
  <2> QED
    BY <1>1, <2>1 DEF AheadOf
<1> QED
  BY <1>3, <1>4

\* Who is ahead within l bytes is so within more; and the other way unless they agree on l.
LEMMA AheadLonger ==
    ASSUME NEW a, NEW b, NEW l \in Nat, NEW m \in Nat, l <= m
    PROVE  /\ AheadOf(a, b, l) => AheadOf(a, b, m)
           /\ AheadOf(a, b, m) => AheadOf(a, b, l) \/ SameTo(a, b, l)
           /\ SameTo(a, b, m) => SameTo(a, b, l)
<1>1. \A i \in 1 .. l : i \in 1 .. m
  OBVIOUS
<1>2. AheadOf(a, b, l) => AheadOf(a, b, m)
  BY <1>1 DEF AheadOf
<1>3. ASSUME AheadOf(a, b, m) PROVE AheadOf(a, b, l) \/ SameTo(a, b, l)
  <2>1. PICK i \in 1 .. m : SameTo(a, b, i - 1) /\ Further(a[i], b[i])
    BY <1>3 DEF AheadOf
  <2>2. CASE i <= l
    BY <2>1, <2>2 DEF AheadOf
  <2>3. CASE ~(i <= l)
    BY <2>1, <2>3 DEF SameTo
  <2> QED
    BY <2>2, <2>3
<1>4. SameTo(a, b, m) => SameTo(a, b, l)
  BY <1>1 DEF SameTo
<1> QED
  BY <1>2, <1>3, <1>4

\* Being ahead is transitive.
LEMMA AheadTransitive ==
    ASSUME NEW a \in Bytes, NEW b \in Bytes, NEW c \in Bytes, NEW l \in 0 .. KeyLen,
           AheadOf(a, b, l), AheadOf(b, c, l)
    PROVE  AheadOf(a, c, l)
<1>0. l \in Nat /\ KeyLen \in Nat
  BY KeyAssumption
<1>1. PICK i \in 1 .. l : SameTo(a, b, i - 1) /\ Further(a[i], b[i])
  BY DEF AheadOf
<1>2. PICK j \in 1 .. l : SameTo(b, c, j - 1) /\ Further(b[j], c[j])
  BY DEF AheadOf
<1>3. /\ i \in Nat /\ j \in Nat /\ i \in 1 .. KeyLen /\ j \in 1 .. KeyLen
      /\ a[i] \in Nat /\ b[i] \in Nat /\ c[i] \in Nat /\ a[j] \in Nat /\ b[j] \in Nat /\ c[j] \in Nat
  BY <1>0, ByteOrder
<1>4. CASE i < j
  <2>1. SameTo(a, c, i - 1) /\ b[i] = c[i]
    <3>1. i \in 1 .. j - 1 /\ \A h \in 1 .. i - 1 : h \in 1 .. j - 1
      BY <1>3, <1>4
    <3> QED
      BY <1>1, <1>2, <3>1 DEF SameTo
  <2> QED
    BY <1>1, <2>1 DEF AheadOf
<1>5. CASE j < i
  <2>1. SameTo(a, c, j - 1) /\ a[j] = b[j]
    <3>1. j \in 1 .. i - 1 /\ \A h \in 1 .. j - 1 : h \in 1 .. i - 1
      BY <1>3, <1>5
    <3> QED
      BY <1>1, <1>2, <3>1 DEF SameTo
  <2> QED
    BY <1>2, <2>1 DEF AheadOf
<1>6. CASE i = j
  <2>1. SameTo(a, c, i - 1)
    BY <1>1, <1>2, <1>6 DEF SameTo
  <2>2. Further(a[i], c[i])
    BY <1>1, <1>2, <1>3, <1>6 DEF Further
  <2> QED
    BY <2>1, <2>2 DEF AheadOf
<1> QED
  BY <1>3, <1>4, <1>5, <1>6

\* Keys that agree on all bytes are the same.
LEMMA SameAll ==
    ASSUME NEW a \in Bytes, NEW b \in Bytes
    PROVE  SameTo(a, b, KeyLen) <=> a = b
<1>1. Bytes = [1 .. KeyLen -> Byte]
  BY DEF Bytes
<1>2. a = [i \in 1 .. KeyLen |-> a[i]] /\ b = [i \in 1 .. KeyLen |-> b[i]]
  BY <1>1
<1>3. ASSUME SameTo(a, b, KeyLen) PROVE a = b
  <2>1. \A i \in 1 .. KeyLen : a[i] = b[i]
    BY <1>3 DEF SameTo
  <2>2. [i \in 1 .. KeyLen |-> a[i]] = [i \in 1 .. KeyLen |-> b[i]]
    BY <2>1
  <2> QED
    BY <1>2, <2>2
<1> QED
  BY <1>3 DEF SameTo

\* The order of keys is this one.
LEMMA BeforeIs ==
    ASSUME NEW a \in Bytes, NEW b \in Bytes, fwd \in BOOLEAN
    PROVE  Before(a, b, fwd) <=> AheadOf(b, a, KeyLen)
<1>1. ASSUME fwd PROVE Before(a, b, fwd) <=> AheadOf(b, a, KeyLen)
  <2>1. Before(a, b, fwd) <=> \E i \in 1 .. KeyLen : a[i] < b[i] /\ \A j \in 1 .. i - 1 : a[j] = b[j]
    BY <1>1 DEF Before, precedes
  <2>2. AheadOf(b, a, KeyLen)
          <=> \E i \in 1 .. KeyLen : b[i] > a[i] /\ \A j \in 1 .. i - 1 : b[j] = a[j]
    BY <1>1 DEF AheadOf, SameTo, Further
  <2>3. \A i \in 1 .. KeyLen : a[i] < b[i] <=> b[i] > a[i]
    BY ByteOrder
  <2> QED
    BY <2>1, <2>2, <2>3
<1>2. ASSUME ~fwd PROVE Before(a, b, fwd) <=> AheadOf(b, a, KeyLen)
  BY <1>2 DEF Before, precedes, AheadOf, SameTo, Further
<1> QED
  BY <1>1, <1>2

(***************************************************************************)
(* Nodes.                                                                  *)
(***************************************************************************)
\* A finite set of numbers has a bound.
LEMMA FiniteBounded ==
    ASSUME NEW S \in SUBSET Nat, IsFiniteSet(S)
    PROVE  \E m \in Nat : \A x \in S : x <= m
<1>0. \A a, b, c \in Nat : /\ a + b \in Nat /\ a <= a + b /\ b <= a + b
                           /\ a <= b /\ b <= c => a <= c
  OBVIOUS
<1>1. PICK q \in Seq(S) : \A x \in S : \E i \in 1 .. Len(q) : q[i] = x
  BY DEF IsFiniteSet
<1> DEFINE Bounded(i) == \E m \in Nat : \A j \in 1 .. i : q[j] <= m
           N == {i \in 0 .. Len(q) : ~Bounded(i)}
<1>2. Len(q) \in Nat /\ \A i \in 1 .. Len(q) : q[i] \in Nat
  <2>1. Len(q) \in Nat /\ \A i \in 1 .. Len(q) : q[i] \in S
    OBVIOUS
  <2> QED
    BY <2>1
<1>3. ASSUME N # {} PROVE FALSE
  <2>1. N \in SUBSET Nat
    BY <1>2
  <2>2. PICK i \in N : \A y \in N : i <= y
    BY <1>3, <2>1, LeastNat
  <2>3. Bounded(0)
    <3>1. 0 \in Nat /\ \A j \in 1 .. 0 : q[j] <= 0
      OBVIOUS
    <3> QED
      BY <3>1
  <2>4. i \in 1 .. Len(q) /\ i - 1 \in 0 .. Len(q) /\ ~Bounded(i)
    BY <1>2, <2>2, <2>3
  <2>5. Bounded(i - 1)
    <3> HIDE DEF Bounded
    <3>1. i - 1 \notin N
      BY <2>2, <2>4
    <3> QED
      BY <2>4, <3>1
  <2>6. PICK m \in Nat : \A j \in 1 .. i - 1 : q[j] <= m
    BY <2>5
  <2>7. PICK p \in Nat : m <= p /\ q[i] <= p
    <3>1. q[i] \in Nat
      BY <1>2, <2>4
    <3>2. m + q[i] \in Nat /\ m <= m + q[i] /\ q[i] <= m + q[i]
      BY <1>0, <2>6, <3>1
    <3> QED
      BY <3>2
  <2>8. \A j \in 1 .. i : q[j] <= p
    <3> SUFFICES ASSUME NEW j \in 1 .. i PROVE q[j] <= p
      OBVIOUS
    <3>1. j \in 1 .. i - 1 \/ j = i
      BY <2>4
    <3>2. q[j] \in Nat
      BY <1>2, <2>4
    <3>3. CASE j \in 1 .. i - 1
      <4>1. q[j] <= m
        BY <2>6, <3>3
      <4> QED
        BY <1>0, <2>7, <3>2, <4>1
    <3>4. CASE j = i
      BY <2>7, <3>4
    <3> QED
      BY <3>1, <3>3, <3>4
  <2> QED
    BY <2>4, <2>8
<1>4. Len(q) \notin N
  BY <1>3
<1>5. Bounded(Len(q))
  <2> HIDE DEF Bounded
  <2> QED
    BY <1>2, <1>4
<1> QED
  BY <1>1, <1>5

\* The nearest of some bytes is one of them.
LEMMA NearestIs ==
    ASSUME NEW S \in SUBSET Byte, S # {}, NEW f \in BOOLEAN, NEW b, b = nearest(S, f)
    PROVE  b \in S /\ \A c \in S : IF f THEN b <= c ELSE c <= b
<1>1. S \in SUBSET Nat /\ IsFiniteSet(S)
  BY KeyAssumption, FS_Subset
<1>2. \E x \in S : \A y \in S : x <= y
  BY <1>1, LeastNat
<1>3. \E x \in S : \A y \in S : y <= x
  <2> DEFINE T == {m \in Nat : \A x \in S : x <= m}
  <2>1. T # {} /\ T \in SUBSET Nat
    BY <1>1, FiniteBounded
  <2>2. PICK m \in T : \A y \in T : m <= y
    BY <2>1, LeastNat
  <2>3. m \in S
    <3> SUFFICES ASSUME m \notin S PROVE FALSE
      OBVIOUS
    <3>1. PICK x \in S : x \in Nat
      BY <1>1
    <3>2. \A y \in S : y \in Nat /\ y <= m /\ y # m
      BY <1>1
    <3>3. m - 1 \in Nat /\ \A y \in S : y <= m - 1
      BY <3>1, <3>2
    <3> QED
      BY <2>2, <3>3
  <2> QED
    BY <2>3
<1>4. \E x \in S : \A c \in S : IF f THEN x <= c ELSE c <= x
  BY <1>2, <1>3
<1> QED
  BY <1>4 DEF nearest

\* What is known of a node that was allocated.
LEMMA NodeFacts ==
    ASSUME NEW tree, NEW rep, NEW end, NEW start, TreeFits(tree, rep, end, start),
           NEW n, IsUsed(n)
    PROVE  /\ n \in Node /\ n \in Lock /\ n # Nil
           /\ IsLeaf(n) \/ IsInode(n)
           /\ ~(IsLeaf(n) /\ IsInode(n))
           /\ IsLeaf(n) <=> nodes[n].kind = "leaf"
           /\ IsInode(n) <=> nodes[n].kind = "inode"
           /\ rep[n] \in Bytes /\ end[n] \in 0 .. KeyLen /\ start[n] \in 0 .. KeyLen
           /\ IsLeaf(n) => nodes[n].key \in Key /\ rep[n] = nodes[n].key /\ end[n] = KeyLen
           /\ IsInode(n) => /\ end[n] \in 0 .. KeyLen - 1
                            /\ DOMAIN nodes[n].kids \subseteq Byte /\ DOMAIN nodes[n].kids # {}
                            /\ \A b \in DOMAIN nodes[n].kids :
                                  GoodKid(rep, end, n, b, nodes[n].kids[b])
<1>1. TreeTypes(tree, rep, end, start) /\ LabelsFit(rep, end) /\ SizesFit
  BY DEF TreeFits
<1>2. nodes \in [Node -> AnyNode]
  BY <1>1 DEF TreeTypes
<1>3. n \in Node /\ n \in Lock /\ n # Nil
  BY BoundAssumption DEF IsUsed, Node, Lock, Nil
<1>4. (IsLeaf(n) \/ IsInode(n)) /\ ~(IsLeaf(n) /\ IsInode(n))
  BY <1>2, UsedKinds
<1>5. (IsLeaf(n) <=> nodes[n].kind = "leaf") /\ (IsInode(n) <=> nodes[n].kind = "inode")
  BY DEF IsLeaf, IsInode
<1>6. rep[n] \in Bytes /\ end[n] \in 0 .. KeyLen /\ start[n] \in 0 .. KeyLen
  BY <1>1, <1>3 DEF TreeTypes
<1>7. IsLeaf(n) => nodes[n].key \in Key /\ rep[n] = nodes[n].key /\ end[n] = KeyLen
  BY <1>1, <1>2, <1>3, LeafFields DEF LabelsFit
<1>8. ASSUME IsInode(n)
      PROVE  /\ end[n] \in 0 .. KeyLen - 1
             /\ DOMAIN nodes[n].kids \subseteq Byte /\ DOMAIN nodes[n].kids # {}
             /\ \A b \in DOMAIN nodes[n].kids : GoodKid(rep, end, n, b, nodes[n].kids[b])
  <2>1. end[n] \in 0 .. KeyLen - 1
    BY <1>1, <1>3, <1>6, <1>8, KeyAssumption DEF LabelsFit
  <2>2. \A b \in DOMAIN nodes[n].kids : GoodKid(rep, end, n, b, nodes[n].kids[b])
    BY <1>1, <1>3, <1>8 DEF LabelsFit
  <2>3. nodes[n].kids \in Kids /\ nodes[n].class \in 1 .. Len(Cap)
    BY <1>2, <1>8, InodeFields
  <2>4. DOMAIN nodes[n].kids \subseteq Byte
    BY <2>3, KidsFinite
  <2>5. DOMAIN nodes[n].kids # {}
    <3>1. min_size(nodes[n].class) \in Nat /\ min_size(nodes[n].class) > 0
      <4>1. \A c \in 1 .. Len(Cap) : min_size(c) \in Nat /\ min_size(c) > 0
        <5>1. Cap \in Seq(Nat)
          BY CapAssumption, Zenon
        <5> QED
          BY <5>1 DEF min_size
      <4> QED
        BY <2>3, <4>1
    <3>2. Cardinality(DOMAIN nodes[n].kids) >= min_size(nodes[n].class)
      <4>1. Cap[nodes[n].class] \in Nat
        BY <2>3, CapFacts
      <4> QED
        BY <1>1, <1>3, <1>8, <3>1, <4>1 DEF SizesFit, SizeFits
    <3>3. Cardinality({}) = 0
      BY FS_EmptySet
    <3> QED
      BY <3>1, <3>2, <3>3
  <2> QED
    BY <2>1, <2>2, <2>4, <2>5
<1> QED
  BY <1>3, <1>4, <1>5, <1>6, <1>7, <1>8

\* The tree.
LEMMA TreeFacts ==
    ASSUME NEW tree, NEW rep, NEW end, NEW start, TreeFits(tree, rep, end, start)
    PROVE  /\ Shape(tree, rep, end, start)
           /\ Paths(root, kidsOf, tree, rep, end, start)
           /\ PrefixesFit(tree, rep, end, start) /\ MapFits(tree)
           /\ \A n \in tree : IsUsed(n) /\ start[n] <= end[n]
           /\ \A n \in tree : start[n] = 0 => root = n
           /\ root # Nil => root \in tree /\ start[root] = 0
           /\ root = Nil => tree = {}
           /\ \A n \in tree : IsInode(n) =>
                 \A b \in DOMAIN nodes[n].kids :
                    nodes[n].kids[b] \in tree /\ start[nodes[n].kids[b]] = end[n] + 1
<1>1. /\ Paths(root, kidsOf, tree, rep, end, start) /\ TreeTypes(tree, rep, end, start)
      /\ PrefixesFit(tree, rep, end, start) /\ MapFits(tree)
  BY DEF TreeFits
<1>2. \A n \in tree : start[n] <= end[n]
  BY <1>1 DEF Paths
<1>3. Shape(tree, rep, end, start) /\ Nil \notin tree
  BY <1>1, <1>2, TreeShape
<1>4. \A n \in tree : n \in Node /\ IsUsed(n)
  BY <1>1 DEF TreeTypes, IsUsed
<1>5. \A n \in tree : \A b \in DOMAIN kidsOf[n] :
         kidsOf[n][b] \in tree /\ start[kidsOf[n][b]] = end[n] + 1
  BY <1>1 DEF Paths
<1>6. ASSUME NEW n \in tree, start[n] = 0, root # n PROVE FALSE
  <2>1. PICK p \in tree : \E b \in DOMAIN kidsOf[p] : kidsOf[p][b] = n
    BY <1>1, <1>6 DEF Paths
  <2>2. start[n] = end[p] + 1
    BY <1>5, <2>1
  <2>3. end[p] \in Nat
    BY <1>3, KeyAssumption DEF Shape
  <2> QED
    BY <1>6, <2>2, <2>3
<1>7. ASSUME NEW n \in tree, IsInode(n), NEW b \in DOMAIN nodes[n].kids
      PROVE  nodes[n].kids[b] \in tree /\ start[nodes[n].kids[b]] = end[n] + 1
  <2>1. kidsOf[n] = nodes[n].kids
    BY <1>4, <1>7, KidsOfNow
  <2> QED
    BY <1>5, <2>1
<1>8. (root # Nil => root \in tree /\ start[root] = 0) /\ (root = Nil => tree = {})
  BY <1>1 DEF Paths
<1> QED
  BY <1>1, <1>2, <1>3, <1>4, <1>6, <1>7, <1>8

\* The path of a bound key goes on from every node on it.
LEMMA BoundLeads ==
    ASSUME NEW tree, NEW rep, NEW end, NEW start, TreeFits(tree, rep, end, start),
           NEW n \in tree, NEW k \in Key, map[k] # Nil, SameTo(k, rep[n], start[n])
    PROVE  /\ SameTo(k, rep[n], end[n])
           /\ IsInode(n) => k[end[n] + 1] \in DOMAIN nodes[n].kids
           /\ IsLeaf(n) => k = nodes[n].key
<1>1. /\ Shape(tree, rep, end, start) /\ Paths(root, kidsOf, tree, rep, end, start)
      /\ MapFits(tree) /\ IsUsed(n)
  BY TreeFacts
<1>2. PICK m \in tree : IsLeaf(m) /\ nodes[m].key = k
  BY <1>1 DEF MapFits
<1>3. rep[m] = k /\ end[m] = KeyLen
  BY <1>2, NodeFacts, TreeFacts
<1>4. SameTo(k, rep[n], end[n])
  BY <1>1, <1>3, OtherLabelNoLeaf
<1>5. ASSUME IsInode(n) PROVE k[end[n] + 1] \in DOMAIN nodes[n].kids
  <2>1. n \in Node /\ end[n] \in 0 .. KeyLen - 1
    BY <1>1, <1>5, NodeFacts
  <2>2. kidsOf[n] = nodes[n].kids /\ end[n] < KeyLen
    BY <1>5, <2>1, KidsOfNow, KeyAssumption
  <2> QED
    BY <1>1, <1>3, <1>4, <2>2, NoChildNoLeaf
<1>6. ASSUME IsLeaf(n) PROVE k = nodes[n].key
  BY <1>1, <1>4, <1>6, NodeFacts, KeyBytes, SameAll
<1> QED
  BY <1>4, <1>5, <1>6

\* A node whose version is current is in the tree.
LEMMA CurrentInTree ==
    ASSUME NEW tree, NEW rep, NEW end, NEW start, View(tree, rep, end, start),
           NEW n, IsUsed(n), NEW v, Past(n, v), word[n] = v
    PROVE  n \in tree /\ word[n] % 4 = 0
  BY DEF View, Past, IsUsed

(***************************************************************************)
(* Stacks.                                                                 *)
(***************************************************************************)
\* The ends of a sequence.
LEMMA Ends ==
    ASSUME NEW S, NEW s \in Seq(S), s # <<>>
    PROVE  /\ Len(s) \in Nat \ {0} /\ Last(s) = s[Len(s)] /\ Last(s) \in S
           /\ Len(s) \in DOMAIN s
           /\ Front(s) \in Seq(S) /\ Len(Front(s)) = Len(s) - 1
           /\ DOMAIN Front(s) = 1 .. Len(s) - 1 /\ DOMAIN s = 1 .. Len(s)
           /\ \A i \in 1 .. Len(s) - 1 : Front(s)[i] = s[i]
           /\ Front(s) = <<>> <=> Len(s) = 1
           /\ Front(s) # <<>> => Last(Front(s)) = s[Len(s) - 1]
<1>1. Len(s) \in Nat \ {0} /\ s[Len(s)] \in S /\ DOMAIN s = 1 .. Len(s)
  OBVIOUS
<1>2. Last(s) = s[Len(s)]
  BY DEF Last
<1>3. Front(s) \in Seq(S) /\ Len(Front(s)) = Len(s) - 1
  BY <1>1 DEF Front
<1>4. \A i \in 1 .. Len(s) - 1 : Front(s)[i] = s[i]
  BY <1>1 DEF Front
<1>5. Front(s) = <<>> <=> Len(s) = 1
  BY <1>1, <1>3
<1>6. Front(s) # <<>> => Last(Front(s)) = s[Len(s) - 1]
  BY <1>1, <1>3, <1>4, <1>5 DEF Last
<1> QED
  BY <1>1, <1>2, <1>3, <1>4, <1>5, <1>6

\* A sequence with one more element.
LEMMA Appended ==
    ASSUME NEW S, NEW s \in Seq(S), NEW e \in S, NEW s2, s2 = Append(s, e)
    PROVE  /\ s2 \in Seq(S) /\ s2 # <<>> /\ Len(s) \in Nat /\ Len(s2) = Len(s) + 1
           /\ Last(s2) = e /\ s2[Len(s2)] = e
           /\ DOMAIN s2 = 1 .. Len(s) + 1 /\ DOMAIN s = 1 .. Len(s)
           /\ \A i \in 1 .. Len(s) : s2[i] = s[i]
<1>1. /\ s2 \in Seq(S) /\ s2 # <<>> /\ Len(s) \in Nat /\ Len(s2) = Len(s) + 1 /\ s2[Len(s) + 1] = e
      /\ DOMAIN s2 = 1 .. Len(s) + 1 /\ DOMAIN s = 1 .. Len(s)
      /\ \A i \in 1 .. Len(s) : s2[i] = s[i]
  OBVIOUS
<1> QED
  BY <1>1 DEF Last

\* The stack after a push.
LEMMA Pushed ==
    ASSUME NEW s \in Seq(StackEntry), NEW e \in StackEntry
    PROVE  /\ Append(s, e) \in Seq(StackEntry) /\ Append(s, e) # <<>>
           /\ Last(Append(s, e)) = e
<1>1. PICK s2 : s2 = Append(s, e)
  OBVIOUS
<1>2. s2 \in Seq(StackEntry) /\ s2 # <<>> /\ Len(s2) = Len(s) + 1 /\ s2[Len(s) + 1] = e
  BY <1>1
<1>3. Last(s2) = e
  BY <1>2 DEF Last
<1> QED
  BY <1>1, <1>2, <1>3

\* What lies above the path of a stack.
LEMMA AboveIs ==
    ASSUME NEW end, NEW s \in Seq(StackEntry)
    PROVE  /\ Len(s) \in Nat
           /\ s = <<>> => Above(end, s, Len(s) + 1) = 0
           /\ s # <<>> => Above(end, s, Len(s) + 1) = end[Last(s).node] + 1
<1>1. Len(s) \in Nat /\ (s = <<>> <=> Len(s) = 0)
  OBVIOUS
<1>2. ASSUME s = <<>> PROVE Above(end, s, Len(s) + 1) = 0
  BY <1>1, <1>2 DEF Above
<1>3. ASSUME s # <<>> PROVE Above(end, s, Len(s) + 1) = end[Last(s).node] + 1
  <2>1. Last(s) = s[Len(s)]
    BY <1>3, Ends
  <2>2. Len(s) + 1 # 1 /\ (Len(s) + 1) - 1 = Len(s)
    BY <1>1, <1>3
  <2> QED
    BY <2>1, <2>2 DEF Above
<1> QED
  BY <1>1, <1>2, <1>3

\* An entry is pushed.
LEMMA PushFits ==
    ASSUME NEW rep, NEW end, NEW s, StackPath(rep, end, s), NEW e \in StackEntry,
           IsUsed(e.node), Past(e.node, e.ver), IsInode(e.node) => e.byte \in Byte,
           s # <<>> => /\ IsInode(Last(s).node)
                       /\ GoodKid(rep, end, Last(s).node, Last(s).byte, e.node)
    PROVE  StackPath(rep, end, Append(s, e))
<1>1. PICK s2 : s2 = Append(s, e)
  OBVIOUS
<1>2. s \in Seq(StackEntry)
  BY DEF StackPath
<1>3. /\ s2 \in Seq(StackEntry) /\ Len(s) \in Nat /\ Len(s2) = Len(s) + 1 /\ s2[Len(s) + 1] = e
      /\ DOMAIN s2 = 1 .. Len(s) + 1 /\ DOMAIN s = 1 .. Len(s)
      /\ \A i \in 1 .. Len(s) : s2[i] = s[i]
  BY <1>1, <1>2, Appended
<1>4. ASSUME NEW i \in DOMAIN s2
      PROVE  IsUsed(s2[i].node) /\ Past(s2[i].node, s2[i].ver)
             /\ (IsInode(s2[i].node) => s2[i].byte \in Byte)
  <2>1. CASE i = Len(s) + 1
    BY <1>3, <2>1
  <2>2. CASE i \in DOMAIN s /\ s2[i] = s[i]
    BY <2>2 DEF StackPath
  <2> QED
    BY <1>3, <2>1, <2>2
<1>5. ASSUME NEW i \in 1 .. Len(s2) - 1
      PROVE  IsInode(s2[i].node) /\ GoodKid(rep, end, s2[i].node, s2[i].byte, s2[i + 1].node)
  <2>1. CASE i = Len(s)
    <3>1. s # <<>> /\ s2[i] = s[Len(s)] /\ s2[i + 1] = e
      BY <1>3, <2>1
    <3>2. Last(s) = s[Len(s)]
      BY <1>2, <3>1, Ends
    <3> QED
      BY <3>1, <3>2
  <2>2. CASE i \in 1 .. Len(s) - 1
    <3>1. s2[i] = s[i] /\ s2[i + 1] = s[i + 1]
      BY <1>3, <2>2
    <3> QED
      BY <2>2, <3>1 DEF StackPath
  <2>3. Len(s2) = Len(s) + 1 /\ Len(s) \in Nat
    BY <1>3
  <2>4. i = Len(s) \/ i \in 1 .. Len(s) - 1
    BY <2>3
  <2> QED
    BY <2>1, <2>2, <2>4
<1> QED
  BY <1>1, <1>3, <1>4, <1>5 DEF StackPath

\* The top is popped.
LEMMA PopFits ==
    ASSUME NEW rep, NEW end, NEW s, StackPath(rep, end, s), s # <<>>
    PROVE  /\ StackPath(rep, end, Front(s))
           /\ Front(s) # <<>> =>
                 /\ IsInode(Last(Front(s)).node)
                 /\ GoodKid(rep, end, Last(Front(s)).node, Last(Front(s)).byte, Last(s).node)
<1>1. PICK f : f = Front(s)
  OBVIOUS
<1>2. s \in Seq(StackEntry)
  BY DEF StackPath
<1>3. /\ Len(s) \in Nat \ {0} /\ Last(s) = s[Len(s)] /\ DOMAIN s = 1 .. Len(s)
      /\ f \in Seq(StackEntry) /\ Len(f) = Len(s) - 1 /\ DOMAIN f = 1 .. Len(s) - 1
      /\ \A i \in 1 .. Len(s) - 1 : f[i] = s[i]
      /\ f = <<>> <=> Len(s) = 1
      /\ f # <<>> => Last(f) = s[Len(s) - 1]
  BY <1>1, <1>2, Ends
<1>4. \A i \in DOMAIN f : i \in DOMAIN s /\ f[i] = s[i]
  BY <1>3
<1>5. \A i \in 1 .. Len(f) - 1 : i \in 1 .. Len(s) - 1 /\ f[i] = s[i] /\ f[i + 1] = s[i + 1]
  BY <1>3
<1>6. StackPath(rep, end, f)
  BY <1>3, <1>4, <1>5 DEF StackPath
<1>7. ASSUME f # <<>>
      PROVE  IsInode(Last(f).node) /\ GoodKid(rep, end, Last(f).node, Last(f).byte, Last(s).node)
  <2>1. /\ Len(s) - 1 \in 1 .. Len(s) - 1 /\ Last(f) = s[Len(s) - 1]
        /\ Last(s) = s[(Len(s) - 1) + 1]
    BY <1>3, <1>7
  <2> QED
    BY <2>1 DEF StackPath
<1> QED
  BY <1>1, <1>6, <1>7

\* What entries say, when one is pushed.
LEMMA PushHolds ==
    ASSUME NEW end, NEW start, NEW s \in Seq(StackEntry), EntriesHold(end, start, s),
           NEW e \in StackEntry,
           CurrentEntry(e) => /\ start[e.node] <= Above(end, s, Len(s) + 1)
                              /\ IsInode(e.node) => e.byte \in DOMAIN nodes[e.node].kids,
           s # <<>> /\ CurrentEntry(Last(s)) =>
               nodes[Last(s).node].kids[Last(s).byte] = e.node
    PROVE  EntriesHold(end, start, Append(s, e))
<1>1. PICK s2 : s2 = Append(s, e)
  OBVIOUS
<1>3. /\ s2 \in Seq(StackEntry) /\ Len(s) \in Nat /\ Len(s2) = Len(s) + 1 /\ s2[Len(s) + 1] = e
      /\ DOMAIN s2 = 1 .. Len(s) + 1 /\ DOMAIN s = 1 .. Len(s)
      /\ \A i \in 1 .. Len(s) : s2[i] = s[i]
  BY <1>1, Appended
<1>4. \A i \in 1 .. Len(s) + 1 : Above(end, s2, i) = Above(end, s, i)
  BY <1>3 DEF Above
<1>5. ASSUME NEW i \in DOMAIN s2, CurrentEntry(s2[i])
      PROVE  /\ start[s2[i].node] <= Above(end, s2, i)
             /\ IsInode(s2[i].node) => s2[i].byte \in DOMAIN nodes[s2[i].node].kids
             /\ i < Len(s2) => nodes[s2[i].node].kids[s2[i].byte] = s2[i + 1].node
  <2>1. CASE i = Len(s) + 1
    BY <1>3, <1>4, <1>5, <2>1
  <2>2. CASE i = Len(s)
    <3>1. /\ s # <<>> /\ s2[i] = s[i] /\ s2[i + 1] = e
          /\ i \in DOMAIN s /\ Above(end, s2, i) = Above(end, s, i)
      BY <1>3, <1>4, <2>2
    <3>2. s[i] = Last(s)
      BY <2>2, <3>1, Ends
    <3> QED
      BY <1>5, <3>1, <3>2 DEF EntriesHold
  <2>3. CASE i \in 1 .. Len(s) - 1
    <3>1. /\ s2[i] = s[i] /\ s2[i + 1] = s[i + 1] /\ i < Len(s) /\ i \in DOMAIN s
          /\ Above(end, s2, i) = Above(end, s, i)
      BY <1>3, <1>4, <2>3
    <3> QED
      BY <1>5, <3>1 DEF EntriesHold
  <2> QED
    BY <1>3, <2>1, <2>2, <2>3
<1> QED
  BY <1>1, <1>5 DEF EntriesHold

\* And when the top is popped.
LEMMA PopHolds ==
    ASSUME NEW end, NEW start, NEW s \in Seq(StackEntry), EntriesHold(end, start, s), s # <<>>
    PROVE  /\ EntriesHold(end, start, Front(s))
           /\ Front(s) # <<>> /\ CurrentEntry(Last(Front(s))) =>
                 nodes[Last(Front(s)).node].kids[Last(Front(s)).byte] = Last(s).node
           /\ CurrentEntry(Last(s)) =>
                 start[Last(s).node] <= Above(end, Front(s), Len(Front(s)) + 1)
<1>1. PICK f : f = Front(s)
  OBVIOUS
<1>3. /\ Len(s) \in Nat \ {0} /\ Last(s) = s[Len(s)] /\ DOMAIN s = 1 .. Len(s)
      /\ f \in Seq(StackEntry) /\ Len(f) = Len(s) - 1 /\ DOMAIN f = 1 .. Len(s) - 1
      /\ \A i \in 1 .. Len(s) - 1 : f[i] = s[i]
      /\ f = <<>> <=> Len(s) = 1
      /\ f # <<>> => Last(f) = s[Len(s) - 1]
  BY <1>1, Ends
<1>4. \A i \in 1 .. Len(s) : Above(end, f, i) = Above(end, s, i)
  BY <1>3 DEF Above
<1>5. EntriesHold(end, start, f)
  <2>1. \A i \in DOMAIN f : /\ i \in DOMAIN s /\ f[i] = s[i] /\ Above(end, f, i) = Above(end, s, i)
                            /\ i < Len(s) /\ (i < Len(f) => f[i + 1] = s[i + 1])
    BY <1>3, <1>4
  <2> QED
    BY <2>1 DEF EntriesHold
<1>6. ASSUME f # <<>>, CurrentEntry(Last(f))
      PROVE  nodes[Last(f).node].kids[Last(f).byte] = Last(s).node
  <2>1. /\ Len(s) - 1 \in DOMAIN s /\ Len(s) - 1 < Len(s) /\ Last(f) = s[Len(s) - 1]
        /\ Last(s) = s[(Len(s) - 1) + 1]
    BY <1>3, <1>6
  <2> QED
    BY <1>6, <2>1 DEF EntriesHold
<1>7. ASSUME CurrentEntry(Last(s)) PROVE start[Last(s).node] <= Above(end, f, Len(f) + 1)
  <2>1. Len(s) \in DOMAIN s /\ Len(f) + 1 = Len(s) /\ Above(end, f, Len(s)) = Above(end, s, Len(s))
    BY <1>3, <1>4
  <2> QED
    BY <1>3, <1>7, <2>1 DEF EntriesHold
<1> QED
  BY <1>1, <1>5, <1>6, <1>7

(***************************************************************************)
(* Keys along a path.                                                      *)
(***************************************************************************)
\* Where the path goes on to a child, the child's label tells the same.
LEMMA EdgeIs ==
    ASSUME NEW rep, NEW end, NEW n, NEW b, NEW c, GoodKid(rep, end, n, b, c), IsInode(n),
           end[n] \in Nat, NEW e, e.node = n, e.byte = b, NEW k
    PROVE  /\ Through(rep, end, k, e) <=> SameTo(k, rep[c], end[n] + 1)
           /\ Onward(rep, end, k, e) <=> AheadOf(k, rep[c], end[n] + 1)
<1>1. PICK l, x, y : l = end[n] /\ x = rep[n] /\ y = rep[c]
  OBVIOUS
<1>2. l \in Nat /\ SameTo(y, x, l) /\ y[l + 1] = b
  BY <1>1 DEF GoodKid
<1>3. \A i \in 1 .. l + 1 : i \in 1 .. l \/ i = l + 1
  BY <1>2
<1>4. SameTo(k, x, l) /\ k[l + 1] = b <=> SameTo(k, y, l + 1)
  <2>1. l + 1 \in 1 .. l + 1 /\ \A i \in 1 .. l : i \in 1 .. l + 1
    BY <1>2
  <2> QED
    BY <1>2, <1>3, <2>1 DEF SameTo
<1>5. SameTo(x, y, l)
  BY <1>2 DEF SameTo
<1>6. ASSUME AheadOf(k, x, l) PROVE AheadOf(k, y, l + 1)
  <2>1. AheadOf(k, y, l)
    BY <1>2, <1>5, <1>6, AheadSame
  <2> QED
    BY <1>2, <2>1, AheadLonger
<1>7. ASSUME SameTo(k, x, l), Further(k[l + 1], b) PROVE AheadOf(k, y, l + 1)
  <2>1. SameTo(k, y, (l + 1) - 1) /\ Further(k[l + 1], y[l + 1]) /\ l + 1 \in 1 .. l + 1
    BY <1>2, <1>7 DEF SameTo
  <2> QED
    BY <2>1 DEF AheadOf
<1>8. ASSUME AheadOf(k, y, l + 1), ~AheadOf(k, x, l)
      PROVE  SameTo(k, x, l) /\ Further(k[l + 1], b)
  <2>1. ~AheadOf(k, y, l)
    BY <1>2, <1>8, AheadSame
  <2>2. PICK i \in 1 .. l + 1 : SameTo(k, y, i - 1) /\ Further(k[i], y[i])
    BY <1>8 DEF AheadOf
  <2>3. i = l + 1
    BY <1>3, <2>1, <2>2 DEF AheadOf
  <2>4. (l + 1) - 1 = l
    BY <1>2
  <2> QED
    BY <1>2, <2>2, <2>3, <2>4 DEF SameTo
<1> QED
  BY <1>1, <1>4, <1>6, <1>7, <1>8 DEF Through, Onward

\* What is not behind a key with some label begins with that label or lies beyond it.
LEMMA NotBehind ==
    ASSUME NEW a \in Bytes, NEW k \in Bytes, NEW r \in Bytes, NEW l \in 0 .. KeyLen,
           SameTo(a, r, l), ~AheadOf(a, k, KeyLen)
    PROVE  SameTo(k, r, l) \/ AheadOf(k, r, l)
<1>0. l \in Nat /\ KeyLen \in Nat /\ l <= KeyLen
  BY KeyAssumption
<1>1. ASSUME AheadOf(r, k, l) PROVE FALSE
  <2>1. AheadOf(a, k, l)
    BY <1>0, <1>1, AheadSame
  <2> QED
    BY <1>0, <2>1, AheadLonger
<1> QED
  BY <1>1, AheadTotal

\* Where a call started from.
LEMMA PassedFacts ==
    ASSUME fwd \in BOOLEAN, op[Scanner] \in {"seek", "next"}, key[Scanner] \in Key, NEW k \in Key
    PROVE  /\ AheadOf(k, key[Scanner], KeyLen) => Passed(k)
           /\ Passed(k) => ~AheadOf(key[Scanner], k, KeyLen)
           /\ Passed(k) /\ op[Scanner] = "next" => AheadOf(k, key[Scanner], KeyLen)
           /\ op[Scanner] = "seek" /\ ~AheadOf(key[Scanner], k, KeyLen) => Passed(k)
<1>1. k \in Bytes /\ key[Scanner] \in Bytes /\ KeyLen \in 0 .. KeyLen
  BY KeyBytes, KeyAssumption
<1>2. /\ Before(key[Scanner], k, fwd) <=> AheadOf(k, key[Scanner], KeyLen)
      /\ Before(k, key[Scanner], fwd) <=> AheadOf(key[Scanner], k, KeyLen)
  BY <1>1, BeforeIs
<1>3. AheadOf(k, key[Scanner], KeyLen) => ~AheadOf(key[Scanner], k, KeyLen)
  BY <1>1, AheadStrict
<1>4. CASE op[Scanner] = "next"
  <2>1. Passed(k) <=> Before(key[Scanner], k, fwd)
    BY <1>4 DEF Passed
  <2> QED
    BY <1>2, <1>3, <1>4, <2>1
<1>5. CASE op[Scanner] = "seek"
  <2>1. Passed(k) <=> ~Before(k, key[Scanner], fwd)
    BY <1>5 DEF Passed
  <2> QED
    BY <1>2, <1>3, <1>5, <2>1
<1> QED
  BY <1>4, <1>5

\* A first call started from nowhere.
LEMMA FirstPassed ==
    ASSUME op[Scanner] = "first", NEW k
    PROVE  Passed(k)
  BY DEF Passed

\* A key whose path goes along the top goes along the stack.
LEMMA ThroughAll ==
    ASSUME NEW tree, NEW rep, NEW end, NEW start, TreeFits(tree, rep, end, start),
           NEW s, StackPath(rep, end, s), s # <<>>, NEW k, Through(rep, end, k, Last(s))
    PROVE  \A i \in DOMAIN s : Through(rep, end, k, s[i])
<1>1. /\ s \in Seq(StackEntry) /\ Len(s) \in Nat \ {0} /\ Last(s) = s[Len(s)]
      /\ DOMAIN s = 1 .. Len(s)
  <2>1. s \in Seq(StackEntry)
    BY DEF StackPath
  <2> QED
    BY <2>1, Ends
<1>2. ASSUME NEW i \in 1 .. Len(s) - 1, Through(rep, end, k, s[i + 1])
      PROVE  Through(rep, end, k, s[i])
  <2>1. PICK n, c, b : n = s[i].node /\ c = s[i + 1].node /\ b = s[i].byte
    OBVIOUS
  <2>2. IsInode(n) /\ GoodKid(rep, end, n, b, c)
    BY <2>1 DEF StackPath
  <2>3. end[n] \in Nat /\ end[c] \in Nat /\ end[n] + 1 <= end[c]
    <3>1. IsUsed(n) /\ IsUsed(c) /\ end[n] < end[c]
      BY <2>2 DEF IsInode, GoodKid
    <3>2. end[n] \in 0 .. KeyLen /\ end[c] \in 0 .. KeyLen
      BY <3>1, NodeFacts
    <3> QED
      BY <3>1, <3>2, KeyAssumption
  <2>4. SameTo(k, rep[c], end[c])
    BY <1>2, <2>1 DEF Through
  <2>5. SameTo(k, rep[c], end[n] + 1)
    BY <2>3, <2>4, AheadLonger
  <2> QED
    BY <2>1, <2>2, <2>3, <2>5, EdgeIs
<1> DEFINE N == {j \in Nat : j < Len(s) /\ ~Through(rep, end, k, s[Len(s) - j])}
<1>3. ASSUME N # {} PROVE FALSE
  <2>1. N \in SUBSET Nat
    OBVIOUS
  <2>2. PICK j \in N : \A y \in N : j <= y
    BY <1>3, <2>1, LeastNat
  <2>3. j \in Nat /\ j < Len(s) /\ ~Through(rep, end, k, s[Len(s) - j])
    OBVIOUS
  <2>4. j # 0
    <3>1. Len(s) - 0 = Len(s)
      BY <1>1
    <3> QED
      BY <1>1, <2>3, <3>1
  <2>5. j - 1 \in Nat /\ j - 1 < Len(s) /\ j - 1 < j
    BY <1>1, <2>3, <2>4
  <2>6. j - 1 \notin N
    BY <2>2, <2>5
  <2>7. Through(rep, end, k, s[Len(s) - (j - 1)])
    BY <2>5, <2>6
  <2>8. Len(s) - j \in 1 .. Len(s) - 1 /\ Len(s) - (j - 1) = (Len(s) - j) + 1
    BY <1>1, <2>3, <2>4
  <2> QED
    BY <1>2, <2>3, <2>7, <2>8
<1>4. ASSUME NEW i \in DOMAIN s PROVE Through(rep, end, k, s[i])
  <2>1. Len(s) - i \in Nat /\ Len(s) - i < Len(s) /\ Len(s) - (Len(s) - i) = i
    BY <1>1
  <2>2. Len(s) - i \notin N
    BY <1>3
  <2> QED
    BY <2>1, <2>2
<1> QED
  BY <1>4

\* From the stack to the node below its top.
LEMMA ReachesNode ==
    ASSUME NEW tree, NEW rep, NEW end, NEW start, TreeFits(tree, rep, end, start),
           NEW s \in Seq(StackEntry), NEW n \in tree,
           s # <<>> => /\ IsInode(Last(s).node)
                       /\ GoodKid(rep, end, Last(s).node, Last(s).byte, n),
           start[n] <= Above(end, s, Len(s) + 1), NEW k
    PROVE  /\ (s # <<>> => Through(rep, end, k, Last(s))) => SameTo(k, rep[n], start[n])
           /\ s # <<>> /\ Onward(rep, end, k, Last(s)) => AheadOf(k, rep[n], end[n])
<1>0. KeyLen \in Nat /\ IsUsed(n) /\ start[n] \in 0 .. KeyLen /\ end[n] \in 0 .. KeyLen
  BY KeyAssumption, TreeFacts, NodeFacts
<1>1. CASE s = <<>>
  <2>1. Above(end, s, Len(s) + 1) = 0
    BY <1>1, AboveIs
  <2>2. start[n] = 0
    BY <1>0, <2>1
  <2> QED
    BY <1>1, <2>2 DEF SameTo
<1>2. CASE s # <<>>
  <2>1. PICK e, p, b : e = Last(s) /\ p = e.node /\ b = e.byte
    OBVIOUS
  <2>2. IsInode(p) /\ GoodKid(rep, end, p, b, n) /\ start[n] <= end[p] + 1
    BY <1>2, <2>1, AboveIs
  <2>3. end[p] \in Nat /\ end[p] + 1 <= end[n] /\ end[n] \in Nat /\ start[n] \in Nat
    <3>1. IsUsed(p) /\ end[p] < end[n]
      BY <2>2 DEF IsInode, GoodKid
    <3>2. end[p] \in 0 .. KeyLen
      BY <3>1, NodeFacts
    <3> QED
      BY <1>0, <3>1, <3>2
  <2>4. /\ Through(rep, end, k, e) <=> SameTo(k, rep[n], end[p] + 1)
        /\ Onward(rep, end, k, e) <=> AheadOf(k, rep[n], end[p] + 1)
    BY <2>1, <2>2, <2>3, EdgeIs
  <2>5. end[p] + 1 \in Nat
    BY <2>3
  <2>6. SameTo(k, rep[n], end[p] + 1) => SameTo(k, rep[n], start[n])
    BY <2>2, <2>3, <2>5, AheadLonger
  <2>7. AheadOf(k, rep[n], end[p] + 1) => AheadOf(k, rep[n], end[n])
    BY <2>3, <2>5, AheadLonger
  <2> QED
    BY <1>2, <2>1, <2>4, <2>6, <2>7
<1> QED
  BY <1>1, <1>2

(***************************************************************************)
(* Lists of checks.                                                        *)
(***************************************************************************)
\* One check.
LEMMA CheckIs ==
    ASSUME NEW n \in Lock, NEW v \in Nat
    PROVE  /\ CheckOf(n, v) \in Checks /\ CheckOf(n, v).do = "check"
           /\ CheckOf(n, v).on = n /\ CheckOf(n, v).ver = v
  BY DEF CheckOf, Checks

\* Short lists.
LEMMA ChecksFew ==
    /\ PastChecks(<<>>) /\ AllCurrent(<<>>)
    /\ \A c \in Checks : Past(c.on, c.ver) =>
          PastChecks(<<c>>) /\ (AllCurrent(<<c>>) <=> word[c.on] = c.ver)
    /\ \A c, d \in Checks : Past(c.on, c.ver) /\ Past(d.on, d.ver) =>
          /\ PastChecks(<<c, d>>)
          /\ AllCurrent(<<c, d>>) <=> word[c.on] = c.ver /\ word[d.on] = d.ver
    /\ \A c, d \in Checks : Past(c.on, c.ver) /\ Past(d.on, d.ver) =>
          /\ PastChecks(<<c, d, c>>)
          /\ AllCurrent(<<c, d, c>>) <=> word[c.on] = c.ver /\ word[d.on] = d.ver
<1>1. PastChecks(<<>>) /\ AllCurrent(<<>>)
  BY DEF PastChecks, AllCurrent
<1>2. ASSUME NEW c \in Checks, Past(c.on, c.ver)
      PROVE  PastChecks(<<c>>) /\ (AllCurrent(<<c>>) <=> word[c.on] = c.ver)
  <2>1. <<c>> \in Seq(Checks) /\ DOMAIN <<c>> = {1} /\ <<c>>[1] = c
    OBVIOUS
  <2> QED
    BY <1>2, <2>1 DEF PastChecks, AllCurrent
<1>3. ASSUME NEW c \in Checks, NEW d \in Checks, Past(c.on, c.ver), Past(d.on, d.ver)
      PROVE  /\ PastChecks(<<c, d>>)
             /\ AllCurrent(<<c, d>>) <=> word[c.on] = c.ver /\ word[d.on] = d.ver
  <2>1. <<c, d>> \in Seq(Checks) /\ DOMAIN <<c, d>> = {1, 2} /\ <<c, d>>[1] = c /\ <<c, d>>[2] = d
    OBVIOUS
  <2> QED
    BY <1>3, <2>1 DEF PastChecks, AllCurrent
<1>4. ASSUME NEW c \in Checks, NEW d \in Checks, Past(c.on, c.ver), Past(d.on, d.ver)
      PROVE  /\ PastChecks(<<c, d, c>>)
             /\ AllCurrent(<<c, d, c>>) <=> word[c.on] = c.ver /\ word[d.on] = d.ver
  <2>1. /\ <<c, d, c>> \in Seq(Checks) /\ DOMAIN <<c, d, c>> = {1, 2, 3}
        /\ <<c, d, c>>[1] = c /\ <<c, d, c>>[2] = d /\ <<c, d, c>>[3] = c
    OBVIOUS
  <2> QED
    BY <1>4, <2>1 DEF PastChecks, AllCurrent
<1> QED
  BY <1>1, <1>2, <1>3, <1>4

\* One more at the head of a list.
LEMMA ChecksCons ==
    ASSUME NEW c \in Checks, Past(c.on, c.ver), NEW cs, PastChecks(cs)
    PROVE  /\ PastChecks(<<c>> \o cs)
           /\ AllCurrent(<<c>> \o cs) <=> word[c.on] = c.ver /\ AllCurrent(cs)
<1>1. PICK q : q = <<c>> \o cs
  OBVIOUS
<1>2. cs \in Seq(Checks)
  BY DEF PastChecks
<1>3. /\ q \in Seq(Checks) /\ Len(cs) \in Nat
      /\ DOMAIN cs = 1 .. Len(cs) /\ DOMAIN q = 1 .. Len(cs) + 1
      /\ q[1] = c /\ \A i \in 2 .. Len(cs) + 1 : q[i] = cs[i - 1]
  BY <1>1, <1>2
<1>4. /\ \A i \in DOMAIN q : i = 1 \/ (i - 1 \in DOMAIN cs /\ q[i] = cs[i - 1])
      /\ \A i \in DOMAIN cs : i + 1 \in DOMAIN q /\ q[i + 1] = cs[i]
      /\ 1 \in DOMAIN q
  BY <1>3
<1>5. PastChecks(q)
  BY <1>3, <1>4 DEF PastChecks
<1>6. AllCurrent(q) <=> word[c.on] = c.ver /\ AllCurrent(cs)
  <2>1. ASSUME AllCurrent(q) PROVE word[c.on] = c.ver /\ AllCurrent(cs)
    BY <1>3, <1>4, <2>1 DEF AllCurrent
  <2>2. ASSUME word[c.on] = c.ver, AllCurrent(cs) PROVE AllCurrent(q)
    BY <1>3, <1>4, <2>2 DEF AllCurrent
  <2> QED
    BY <2>1, <2>2
<1> QED
  BY <1>1, <1>5, <1>6

\* One less.
LEMMA ChecksTail ==
    ASSUME NEW cs, PastChecks(cs), cs # <<>>
    PROVE  /\ PastChecks(Tail(cs))
           /\ AllCurrent(cs) <=> word[Head(cs).on] = Head(cs).ver /\ AllCurrent(Tail(cs))
<1>1. PICK q : q = Tail(cs)
  OBVIOUS
<1>2. cs \in Seq(Checks)
  BY DEF PastChecks
<1>3. /\ q \in Seq(Checks) /\ Len(cs) \in Nat \ {0} /\ Head(cs) = cs[1]
      /\ DOMAIN cs = 1 .. Len(cs) /\ DOMAIN q = 1 .. Len(cs) - 1
      /\ \A i \in 1 .. Len(cs) - 1 : q[i] = cs[i + 1]
  BY <1>1, <1>2
<1>4. /\ \A i \in DOMAIN q : i + 1 \in DOMAIN cs /\ q[i] = cs[i + 1]
      /\ \A i \in DOMAIN cs : i = 1 \/ (i - 1 \in DOMAIN q /\ cs[i] = q[i - 1])
      /\ 1 \in DOMAIN cs
  BY <1>3
<1>5. PastChecks(q)
  BY <1>3, <1>4 DEF PastChecks
<1>6. AllCurrent(cs) <=> word[Head(cs).on] = Head(cs).ver /\ AllCurrent(q)
  BY <1>3, <1>4 DEF AllCurrent
<1> QED
  BY <1>1, <1>5, <1>6

(***************************************************************************)
(* Steps of the scanner.                                                   *)
(***************************************************************************)
\* They leave the tree, the locks and the labels as they are.
LEMMA ScannerKeepsRest ==
    ASSUME NEW tree, NEW rep, NEW end, NEW start, Rest!Inv(tree, rep, end, start),
           OnThreads, ScannerOnly
    PROVE  Rest!Inv(tree, rep, end, start)'
  BY ScannerStutters, RestAssumptions, Rest!StutterInv

\* What depends on nothing else.
LEMMA Still ==
    ASSUME UNCHANGED <<root, nodes, word, map>>
    PROVE  /\ \A n : (IsUsed(n)' <=> IsUsed(n)) /\ (IsLeaf(n)' <=> IsLeaf(n))
                     /\ (IsInode(n)' <=> IsInode(n))
           /\ \A l, v : Past(l, v)' <=> Past(l, v)
           /\ \A rep, end, n, b, c : GoodKid(rep, end, n, b, c)' <=> GoodKid(rep, end, n, b, c)
           /\ \A e : CurrentEntry(e)' <=> CurrentEntry(e)
           /\ \A cs : AllCurrent(cs)' <=> AllCurrent(cs)
           /\ \A cs : PastChecks(cs)' <=> PastChecks(cs)
           /\ \A rep, end, s : StackPath(rep, end, s)' <=> StackPath(rep, end, s)
           /\ \A end, start, s : EntriesHold(end, start, s)' <=> EntriesHold(end, start, s)
           /\ bound' = bound
<1>1. \A n : (IsUsed(n)' <=> IsUsed(n)) /\ (IsLeaf(n)' <=> IsLeaf(n)) /\ (IsInode(n)' <=> IsInode(n))
  BY DEF IsUsed, IsLeaf, IsInode
<1>2. \A l, v : Past(l, v)' <=> Past(l, v)
  BY DEF Past
<1>3. \A rep, end, n, b, c : GoodKid(rep, end, n, b, c)' <=> GoodKid(rep, end, n, b, c)
  BY <1>1 DEF GoodKid
<1>4. \A e : CurrentEntry(e)' <=> CurrentEntry(e)
  BY DEF CurrentEntry
<1>5. \A cs : (AllCurrent(cs)' <=> AllCurrent(cs)) /\ (PastChecks(cs)' <=> PastChecks(cs))
  BY <1>2 DEF AllCurrent, PastChecks
<1>6. \A rep, end, s : StackPath(rep, end, s)' <=> StackPath(rep, end, s)
  BY <1>1, <1>2, <1>3 DEF StackPath
<1>7. \A end, start, s : EntriesHold(end, start, s)' <=> EntriesHold(end, start, s)
  BY <1>1, <1>4 DEF EntriesHold
<1>8. bound' = bound
  BY DEF bound
<1> QED
  BY <1>1, <1>2, <1>3, <1>4, <1>5, <1>6, <1>7, <1>8

\* What depends on the direction of the scan too, and on its call.
LEMMA OrderStill ==
    ASSUME UNCHANGED <<root, nodes, word, map>>, scan' = scan
    PROVE  /\ fwd' = fwd
           /\ \A k, r, l : AheadOf(k, r, l)' <=> AheadOf(k, r, l)
           /\ \A rep, end, k, e : Through(rep, end, k, e)' <=> Through(rep, end, k, e)
           /\ \A rep, end, k, e : Onward(rep, end, k, e)' <=> Onward(rep, end, k, e)
           /\ op'[Scanner] = op[Scanner] /\ key'[Scanner] = key[Scanner] =>
                 /\ \A k : Passed(k)' <=> Passed(k)
                 /\ \A rep, end, e : StepsOn(rep, end, e)' <=> StepsOn(rep, end, e)
<1>1. fwd' = fwd
  BY DEF fwd
<1>2. \A k, r, l : AheadOf(k, r, l)' <=> AheadOf(k, r, l)
  BY <1>1 DEF AheadOf, Further
<1>3. \A rep, end, k, e : Through(rep, end, k, e)' <=> Through(rep, end, k, e)
  BY Still DEF Through
<1>4. \A rep, end, k, e : Onward(rep, end, k, e)' <=> Onward(rep, end, k, e)
  BY <1>1, <1>2, Still DEF Onward, Further
<1>5. ASSUME op'[Scanner] = op[Scanner], key'[Scanner] = key[Scanner]
      PROVE  /\ \A k : Passed(k)' <=> Passed(k)
             /\ \A rep, end, e : StepsOn(rep, end, e)' <=> StepsOn(rep, end, e)
  <2>1. \A k : Passed(k)' <=> Passed(k)
    BY <1>1, <1>5 DEF Passed
  <2>2. \A rep, end, e : StepsOn(rep, end, e)' <=> StepsOn(rep, end, e)
    BY <1>1, <1>3, <1>5, Still DEF StepsOn
  <2> QED
    BY <2>1, <2>2
<1> QED
  BY <1>1, <1>2, <1>3, <1>4, <1>5

\* The scanner goes on to a child.
LEMMA Descended ==
    ASSUME OnThreads, NEW n \in Lock, NEW v \in Nat, NEW c \in Lock, DescendTo(n, v, c)
    PROVE  /\ pc'[Scanner] = "lock_node"
           /\ at'[Scanner] \in [Role -> Lock] /\ ver'[Scanner] \in [Role -> Nat]
           /\ at'[Scanner]["parent"] = n /\ at'[Scanner]["node"] = c
           /\ ver'[Scanner]["parent"] = v
<1>1. Scanner \in Thread
  BY ScannerAssumption
<1>2. Nowhere \in [Role -> Lock] /\ Nowhere \in [Role -> Nat] /\ "parent" \in Role /\ "node" \in Role
  BY BoundAssumption DEF Nowhere, Role, Nil, Lock
<1>3. pc'[Scanner] = "lock_node"
  BY <1>1 DEF DescendTo, Goto, OnThreads, IsOnThreads
<1>4. at'[Scanner] = [Nowhere EXCEPT !["parent"] = n, !["node"] = c]
  BY <1>1 DEF DescendTo, OnThreads, IsOnThreads
<1>5. ver'[Scanner] = [Nowhere EXCEPT !["parent"] = v]
  BY <1>1 DEF DescendTo, OnThreads, IsOnThreads
<1> QED
  BY <1>2, <1>3, <1>4, <1>5

\* The parent is the top of the stack then.
LEMMA DescendFits ==
    ASSUME NEW rep, NEW end, NEW start, UNCHANGED <<root, nodes, word, map>>,
           NEW n, NEW v \in Nat, NEW c \in Lock, NEW b, NEW s2, IsInode(n), Past(n, v),
           OnThreads, n \in Lock, DescendTo(n, v, c),
           stack' = s2, s2 # <<>>, Last(s2).node = n, Last(s2).byte = b, Last(s2).ver = v,
           NEW cs, todo'[Scanner] = cs, cs # <<>>, Head(cs) = CheckOf(n, v),
           c # Nil => GoodKid(rep, end, n, b, c),
           word[n] = v => c # Nil /\ nodes[n].kids[b] = c
    PROVE  DescentFits(rep, end)' /\ DescentHolds(end, start)'
<1>1. /\ pc'[Scanner] = "lock_node" /\ at'[Scanner]["parent"] = n /\ at'[Scanner]["node"] = c
      /\ ver'[Scanner]["parent"] = v
  BY Descended
<1>2. top' = Last(s2) /\ (valid' <=> s2 # <<>>)
  BY DEF top, valid
<1>3. Head(cs).on = n /\ Head(cs).ver = v
  BY CheckIs
<1>4. c # Nil => IsUsed(c)
  BY DEF GoodKid
<1>5. DescentFits(rep, end)'
  BY <1>1, <1>2, <1>3, <1>4, Still DEF DescentFits, ThisNode, SameVersion
<1>6. DescentHolds(end, start)'
  BY <1>1, <1>2, <1>3, Still DEF DescentHolds, ThisNode, CurrentEntry
<1> QED
  BY <1>5, <1>6

\* The entry that is pushed for an inode.
LEMMA InodeEntry ==
    ASSUME NEW n \in Node, NEW b \in Byte, NEW v \in Nat, NEW e,
           e = [node |-> n, byte |-> b, ver |-> v]
    PROVE  e \in StackEntry /\ e.node = n /\ e.byte = b /\ e.ver = v
  BY DEF StackEntry

\* The entry that is pushed for a leaf.
LEMMA LeafEntry ==
    ASSUME NEW n \in Node, NEW v \in Nat, NEW e, e = [node |-> n, ver |-> v]
    PROVE  e \in StackEntry /\ e.node = n /\ e.ver = v
  BY DEF StackEntry

\* What is below a child is below the node, along the byte of the child.
LEMMA KidKeys ==
    ASSUME NEW tree, NEW rep, NEW end, NEW start, TreeFits(tree, rep, end, start),
           NEW n, NEW b, NEW c, IsInode(n), GoodKid(rep, end, n, b, c),
           NEW k, SameTo(k, rep[c], end[c])
    PROVE  SameTo(k, rep[n], end[n]) /\ k[end[n] + 1] = b
<1>1. IsUsed(n) /\ IsUsed(c) /\ end[n] < end[c]
  BY DEF IsInode, GoodKid
<1>2. end[n] \in Nat /\ end[c] \in Nat /\ end[n] + 1 <= end[c]
  <2>1. end[n] \in 0 .. KeyLen /\ end[c] \in 0 .. KeyLen
    BY <1>1, NodeFacts
  <2> QED
    BY <1>1, <2>1, KeyAssumption
<1>3. SameTo(k, rep[c], end[n] + 1)
  BY <1>2, AheadLonger
<1>4. PICK e : e = [node |-> n, byte |-> b]
  OBVIOUS
<1>5. Through(rep, end, k, e)
  BY <1>2, <1>3, <1>4, EdgeIs
<1> QED
  BY <1>4, <1>5 DEF Through

\* Entries to step from, when one is pushed.
LEMMA StepsPush ==
    ASSUME NEW rep, NEW end, NEW s \in Seq(StackEntry), NEW e \in StackEntry,
           \A i \in DOMAIN s : StepsOn(rep, end, s[i]), StepsOn(rep, end, e)
    PROVE  \A i \in DOMAIN Append(s, e) : StepsOn(rep, end, Append(s, e)[i])
<1>1. PICK s2 : s2 = Append(s, e)
  OBVIOUS
<1>2. /\ Len(s) \in Nat /\ Len(s2) = Len(s) + 1 /\ s2[Len(s) + 1] = e
      /\ DOMAIN s2 = 1 .. Len(s) + 1 /\ DOMAIN s = 1 .. Len(s)
      /\ \A i \in 1 .. Len(s) : s2[i] = s[i]
  BY <1>1
<1>3. \A i \in DOMAIN s2 : i = Len(s) + 1 \/ i \in DOMAIN s
  BY <1>2
<1> QED
  BY <1>1, <1>2, <1>3

\* And when one is popped.
LEMMA StepsPop ==
    ASSUME NEW rep, NEW end, NEW s \in Seq(StackEntry), s # <<>>,
           \A i \in DOMAIN s : StepsOn(rep, end, s[i])
    PROVE  StepsOn(rep, end, Last(s)) /\ \A i \in DOMAIN Front(s) : StepsOn(rep, end, Front(s)[i])
<1>1. /\ DOMAIN Front(s) = 1 .. Len(s) - 1 /\ DOMAIN s = 1 .. Len(s) /\ Len(s) \in Nat
      /\ \A i \in 1 .. Len(s) - 1 : Front(s)[i] = s[i]
      /\ Last(s) = s[Len(s)] /\ Len(s) \in DOMAIN s
  BY Ends
<1>2. \A i \in DOMAIN Front(s) : i \in DOMAIN s /\ Front(s)[i] = s[i]
  BY <1>1
<1> QED
  BY <1>1, <1>2

\* The scanner is at a node, with nothing left to check.
LEMMA AtNode ==
    ASSUME NEW tree, NEW rep, NEW end, NEW start, View(tree, rep, end, start),
           StackInv(tree, rep, end, start), pc[Scanner] \in {"at_node", "find_child"},
           todo[Scanner] = <<>>, NEW n, n = ThisNode, NEW v, v = ThisVer
    PROVE  /\ TreeFits(tree, rep, end, start) /\ Descending
           /\ IsUsed(n) /\ n \in Node /\ n \in Lock /\ n # Nil /\ Past(n, v) /\ v \in Nat
           /\ stack \in Seq(StackEntry) /\ StackPath(rep, end, stack)
           /\ stack # <<>> => /\ IsInode(Last(stack).node)
                              /\ GoodKid(rep, end, Last(stack).node, Last(stack).byte, n)
           /\ stack # <<>> /\ CurrentEntry(Last(stack)) =>
                 nodes[Last(stack).node].kids[Last(stack).byte] = n
           /\ word[n] = v => n \in tree /\ start[n] <= Above(end, stack, Len(stack) + 1)
<1>1. /\ ScanTypes /\ StackFits(rep, end) /\ DescentFits(rep, end) /\ DescentHolds(end, start)
  BY DEF StackInv
<1>2. Descending /\ TreeFits(tree, rep, end, start)
  BY DEF Descending, View
<1>3. IsUsed(n) /\ Past(n, v) /\ v \in Nat
  BY <1>1, <1>2 DEF DescentFits, ThisNode, ThisVer, ScanTypes, Role
<1>4. n \in Node /\ n \in Lock /\ n # Nil
  BY <1>2, <1>3, NodeFacts
<1>5. stack \in Seq(StackEntry) /\ StackPath(rep, end, stack)
  BY <1>1 DEF StackFits, StackPath
<1>6. stack # <<>> => /\ IsInode(Last(stack).node)
                      /\ GoodKid(rep, end, Last(stack).node, Last(stack).byte, n)
  BY <1>1, <1>2, <1>4 DEF DescentFits, valid, top
<1>7. stack # <<>> /\ CurrentEntry(Last(stack)) =>
         nodes[Last(stack).node].kids[Last(stack).byte] = n
  BY <1>1, <1>2 DEF DescentHolds, valid, top
<1>8. word[n] = v => n \in tree /\ start[n] <= Above(end, stack, Len(stack) + 1)
  BY <1>1, <1>2, <1>3, CurrentInTree, ChecksFew DEF DescentHolds, CurrentNode
<1> QED
  BY <1>2, <1>3, <1>4, <1>5, <1>6, <1>7, <1>8

\* A traversal at an inode.
LEMMA TraverseInodeKeeps ==
    ASSUME NEW tree, NEW rep, NEW end, NEW start, View(tree, rep, end, start), OnThreads,
           StackInv(tree, rep, end, start), CallInv(rep, end, start), traverse_inode
    PROVE  StackInv(tree, rep, end, start)' /\ CallInv(rep, end, start)'
<1>1. /\ ScanTypes /\ StackFits(rep, end) /\ DescentFits(rep, end)
      /\ EntriesHold(end, start, stack) /\ DescentHolds(end, start)
  BY DEF StackInv
<1>2. PICK n, v, b, c, e, s2, cs :
         /\ n = ThisNode /\ v = ThisVer /\ b = nearest(DOMAIN nodes[n].kids, walk = "left_most")
         /\ c = nodes[n].kids[b] /\ e = [node |-> n, byte |-> b, ver |-> v]
         /\ s2 = Append(stack, e) /\ cs = <<CheckOf(n, v)>>
  OBVIOUS
<1>3. /\ pc[Scanner] = "at_node" /\ todo[Scanner] = <<>> /\ walk # "seek"
      /\ nodes[n].kind = "inode"
      /\ stack' = s2 /\ DescendTo(n, v, c) /\ todo' = [todo EXCEPT ![Scanner] = cs]
      /\ torn' = torn \ {Scanner}
      /\ UNCHANGED <<opVars, depth, scan, walk, after, callVars, lost>>
      /\ UNCHANGED <<root, nodes, word, map>> /\ held' = held
  BY <1>2 DEF traverse_inode, Here, Ready, push, PlanChecks, Check, Untouched, Unread, treeVars,
              ThisNode, ThisVer
<1>4. Descending /\ n # Nil /\ IsUsed(n) /\ Past(n, v) /\ v \in Nat
  BY <1>1, <1>2, <1>3 DEF Descending, DescentFits, ThisNode, ThisVer, ScanTypes, Role
<1>5. TreeFits(tree, rep, end, start)
  BY DEF View
<1>6. /\ IsInode(n) /\ n \in Node /\ n \in Lock /\ b \in DOMAIN nodes[n].kids /\ b \in Byte
      /\ GoodKid(rep, end, n, b, c) /\ IsUsed(c) /\ c \in Lock /\ c # Nil
  <2>1. IsInode(n) /\ n \in Node /\ n \in Lock
    BY <1>3, <1>4, <1>5, NodeFacts
  <2>2. /\ DOMAIN nodes[n].kids \subseteq Byte /\ DOMAIN nodes[n].kids # {}
        /\ \A x \in DOMAIN nodes[n].kids : GoodKid(rep, end, n, x, nodes[n].kids[x])
    BY <1>4, <1>5, <2>1, NodeFacts
  <2>3. b \in DOMAIN nodes[n].kids
    BY <1>2, <2>2, NearestIs
  <2>4. GoodKid(rep, end, n, b, c) /\ IsUsed(c)
    BY <1>2, <2>2, <2>3 DEF GoodKid
  <2> QED
    BY <1>5, <2>1, <2>2, <2>3, <2>4, NodeFacts
<1>7. todo'[Scanner] = cs /\ PastChecks(cs) /\ cs # <<>> /\ Head(cs) = CheckOf(n, v)
  BY <1>2, <1>3, <1>4, <1>6, CheckIs, ChecksFew, ScannerAssumption DEF OnThreads, IsOnThreads
<1>8. /\ pc'[Scanner] = "lock_node" /\ at'[Scanner] \in [Role -> Lock]
      /\ ver'[Scanner] \in [Role -> Nat]
  BY <1>3, <1>4, <1>6, Descended
<1>9. e \in StackEntry /\ e.node = n /\ e.byte = b /\ e.ver = v
  BY <1>2, <1>4, <1>6, InodeEntry
<1>10. stack \in Seq(StackEntry) /\ s2 # <<>> /\ Last(s2) = e
  <2>1. stack \in Seq(StackEntry)
    BY <1>1 DEF StackFits, StackPath
  <2>2. s2 = Append(stack, e) /\ e \in StackEntry
    BY <1>2, <1>9
  <2> QED
    BY <2>1, <2>2, Pushed
<1>11. ScanTypes'
  BY <1>1, <1>3, <1>4, <1>7, <1>8, Still
     DEF ScanTypes, ScanLabels, opVars, callVars, Descending, fwd
<1>12. StackFits(rep, end)'
  <2>1. StackPath(rep, end, s2)
    BY <1>1, <1>2, <1>4, <1>6, <1>9, PushFits
       DEF StackFits, DescentFits, valid, top, ThisNode
  <2> QED
    BY <1>3, <1>8, <2>1, Still DEF StackFits
<1>13. EntriesHold(end, start, stack)'
  <2>1. EntriesHold(end, start, s2)
    <3>1. stack # <<>> /\ CurrentEntry(Last(stack)) =>
             nodes[Last(stack).node].kids[Last(stack).byte] = n
      BY <1>1, <1>2, <1>4 DEF DescentHolds, valid, top
    <3>2. CurrentEntry(e) => start[n] <= Above(end, stack, Len(stack) + 1)
      BY <1>1, <1>2, <1>3, <1>4, <1>9, ChecksFew DEF DescentHolds, CurrentEntry, CurrentNode
    <3> QED
      BY <1>1, <1>2, <1>6, <1>9, <3>1, <3>2, PushHolds DEF StackFits, StackPath
  <2> QED
    BY <1>3, <2>1, Still
<1>14. DescentFits(rep, end)' /\ DescentHolds(end, start)'
  <2>1. /\ UNCHANGED <<root, nodes, word, map>> /\ v \in Nat /\ c \in Lock /\ IsInode(n)
        /\ Past(n, v) /\ n \in Lock /\ DescendTo(n, v, c) /\ stack' = s2 /\ s2 # <<>>
        /\ Last(s2).node = n /\ Last(s2).byte = b /\ Last(s2).ver = v
        /\ todo'[Scanner] = cs /\ cs # <<>> /\ Head(cs) = CheckOf(n, v)
        /\ GoodKid(rep, end, n, b, c) /\ c # Nil /\ nodes[n].kids[b] = c
    BY <1>2, <1>3, <1>4, <1>6, <1>7, <1>9, <1>10
  <2> QED
    BY <2>1, DescendFits
<1>15. CallInv(rep, end, start)'
  <2> SUFFICES ASSUME Hopeful' PROVE CallKnows(rep, end, start)'
    BY <1>8 DEF CallInv
  <2>1. word[n] = v /\ n \in tree
    <3>1. AllCurrent(cs)
      BY <1>3, <1>7, Still DEF Hopeful
    <3>2. word[n] = v
      BY <1>2, <1>4, <1>6, <3>1, CheckIs, ChecksFew
    <3> QED
      BY <1>4, <3>2, CurrentInTree
  <2>2. Finds(rep, end) \/ FindsLast(rep, end)
    <3>1. AllCurrent(after.checks) /\ ~lost
      BY <1>3, <1>8, Still DEF Hopeful, Descending
    <3>2. Hopeful
      BY <1>3, <3>1, ChecksFew DEF Hopeful
    <3> QED
      BY <1>3, <1>4, <3>2 DEF CallInv, CallKnows
  <2>3. start[n] <= Above(end, stack, Len(stack) + 1)
    BY <1>1, <1>2, <1>3, <1>4, <2>1, ChecksFew DEF DescentHolds, CurrentNode
  <2>4. stack # <<>> => /\ IsInode(Last(stack).node)
                        /\ GoodKid(rep, end, Last(stack).node, Last(stack).byte, n)
    BY <1>1, <1>2, <1>4 DEF DescentFits, valid, top
  <2>5. /\ op'[Scanner] = op[Scanner] /\ key'[Scanner] = key[Scanner] /\ steady' = steady
        /\ at'[Scanner]["node"] = c /\ top' = e /\ valid'
    BY <1>3, <1>4, <1>6, <1>10, Descended DEF opVars, callVars, top, valid
  <2>6. ASSUME NEW k \in Key, SameTo(k, rep[c], end[c]) PROVE SameTo(k, rep[n], end[n])
    BY <1>5, <1>6, <2>6, KidKeys
  <2>7. \A x \in DOMAIN nodes[n].kids : IF walk = "left_most" THEN b <= x ELSE x <= b
    <3>1. DOMAIN nodes[n].kids \subseteq Byte /\ DOMAIN nodes[n].kids # {}
      BY <1>4, <1>5, <1>6, NodeFacts
    <3> QED
      BY <1>2, <3>1, NearestIs, ZenonT(30)
  <2>8. ASSUME Finds(rep, end) PROVE Finds(rep, end)'
    <3>1. \A k \in Key : SameTo(k, rep[c], end[c]) => Passed(k)
      BY <1>2, <2>6, <2>8 DEF Finds
    <3>2. ASSUME NEW k \in steady, Passed(k)
          PROVE  Through(rep, end, k, e) \/ Onward(rep, end, k, e)
      <4>1. k \in Key /\ map[k] # Nil
        BY <1>1, <1>4 DEF ScanTypes, bound, Descending
      <4>2. CASE stack # <<>> /\ Onward(rep, end, k, Last(stack))
        <5>1. AheadOf(k, rep[n], end[n])
          BY <1>5, <1>10, <2>1, <2>3, <2>4, <4>2, ReachesNode
        <5> QED
          BY <1>9, <5>1 DEF Onward
      <4>3. CASE stack # <<>> => Through(rep, end, k, Last(stack))
        <5>1. SameTo(k, rep[n], start[n])
          BY <1>5, <1>10, <2>1, <2>3, <2>4, <4>3, ReachesNode
        <5>2. SameTo(k, rep[n], end[n]) /\ k[end[n] + 1] \in DOMAIN nodes[n].kids
          BY <1>5, <1>6, <2>1, <4>1, <5>1, BoundLeads
        <5>3. k[end[n] + 1] = b \/ Further(k[end[n] + 1], b)
          <6>1. k[end[n] + 1] \in Nat /\ b \in Nat
            BY <1>4, <1>5, <1>6, <5>2, NodeFacts, KeyAssumption
          <6>2. walk = "left_most" <=> fwd
            BY <1>1, <2>8 DEF Finds, Traversal, ScanTypes
          <6> QED
            BY <2>7, <5>2, <6>1, <6>2 DEF Further
        <5> QED
          BY <1>6, <1>9, <5>2, <5>3 DEF Through, Onward
      <4> QED
        BY <2>8, <3>2, <4>2, <4>3 DEF Finds, valid, top
    <3> QED
      BY <1>3, <2>5, <2>8, <3>1, <3>2, OrderStill DEF Finds, ThisNode, Traversal
  <2>9. ASSUME FindsLast(rep, end) PROVE FindsLast(rep, end)'
    <3>1. \A k \in Key : SameTo(k, rep[c], end[c]) => Before(k, key[Scanner], fwd)
      BY <1>2, <2>6, <2>9 DEF FindsLast
    <3>2. StepsOn(rep, end, e)
      <4>1. walk = "left_most" <=> ~fwd
        BY <1>1, <2>9 DEF FindsLast, Traversal, ScanTypes
      <4>2. \A x \in DOMAIN nodes[n].kids : x \in Nat /\ b \in Nat
        BY <1>4, <1>5, <1>6, NodeFacts, KeyAssumption
      <4>3. siblings(nodes[n], b, fwd) = {}
        BY <2>7, <4>1, <4>2 DEF siblings
      <4> QED
        BY <1>9, <4>3 DEF StepsOn
    <3>3. \A i \in DOMAIN s2 : StepsOn(rep, end, s2[i])
      BY <1>2, <1>9, <1>10, <2>9, <3>2, StepsPush DEF FindsLast
    <3> QED
      BY <1>3, <2>5, <2>9, <3>1, <3>3, OrderStill DEF FindsLast, ThisNode, Traversal
  <2> QED
    BY <1>3, <1>8, <2>2, <2>8, <2>9 DEF CallKnows
<1> QED
  BY <1>11, <1>12, <1>13, <1>14, <1>15 DEF StackInv

\* The leaf that a bound key leads to lies behind the key, or is its own.
LEMMA LeafReached ==
    ASSUME NEW tree, NEW rep, NEW end, NEW start, TreeFits(tree, rep, end, start),
           fwd \in BOOLEAN, NEW s \in Seq(StackEntry), NEW n \in tree, IsLeaf(n),
           s # <<>> => /\ IsInode(Last(s).node)
                       /\ GoodKid(rep, end, Last(s).node, Last(s).byte, n),
           start[n] <= Above(end, s, Len(s) + 1), NEW k \in Key, map[k] # Nil,
           s # <<>> => Through(rep, end, k, Last(s)) \/ Onward(rep, end, k, Last(s))
    PROVE  k = nodes[n].key \/ Before(nodes[n].key, k, fwd)
<1>1. /\ nodes[n].key \in Key /\ rep[n] = nodes[n].key /\ end[n] = KeyLen
      /\ nodes[n].key \in Bytes /\ k \in Bytes
  BY TreeFacts, NodeFacts, KeyBytes
<1>2. CASE s # <<>> /\ Onward(rep, end, k, Last(s))
  <2>1. AheadOf(k, nodes[n].key, KeyLen)
    BY <1>1, <1>2, ReachesNode
  <2> QED
    BY <1>1, <2>1, BeforeIs
<1>3. CASE s # <<>> => Through(rep, end, k, Last(s))
  <2>1. SameTo(k, rep[n], start[n])
    BY <1>3, ReachesNode
  <2> QED
    BY <2>1, BoundLeads
<1> QED
  BY <1>2, <1>3

\* A traversal at a leaf.
LEMMA TraverseLeafKeeps ==
    ASSUME NEW tree, NEW rep, NEW end, NEW start, View(tree, rep, end, start), OnThreads,
           StackInv(tree, rep, end, start), CallInv(rep, end, start), traverse_leaf
    PROVE  StackInv(tree, rep, end, start)' /\ CallInv(rep, end, start)'
<1>1. /\ ScanTypes /\ StackFits(rep, end) /\ DescentFits(rep, end)
      /\ EntriesHold(end, start, stack) /\ DescentHolds(end, start)
  BY DEF StackInv
<1>2. PICK n, v, e, s2, cs :
         /\ n = ThisNode /\ v = ThisVer /\ e = [node |-> n, ver |-> v]
         /\ s2 = Append(stack, e) /\ cs = <<CheckOf(n, v)>> \o after.checks
  OBVIOUS
<1>3. /\ pc[Scanner] = "at_node" /\ todo[Scanner] = <<>> /\ walk # "seek"
      /\ nodes[n].kind = "leaf"
      /\ stack' = s2 /\ pc' = [pc EXCEPT ![Scanner] = after.goto]
      /\ todo' = [todo EXCEPT ![Scanner] = cs] /\ torn' = torn \ {Scanner}
      /\ UNCHANGED <<opVars, rcsVars, scan, walk, after, callVars, lost>>
      /\ UNCHANGED <<root, nodes, word, map>> /\ held' = held
  BY <1>2 DEF traverse_leaf, Here, Ready, push_leaf, PlanChecks, Check, Untouched, Unread, treeVars,
              ThisNode, ThisVer, Goto
<1>4. /\ TreeFits(tree, rep, end, start) /\ Descending
      /\ IsUsed(n) /\ n \in Node /\ n \in Lock /\ Past(n, v) /\ v \in Nat
      /\ stack \in Seq(StackEntry) /\ StackPath(rep, end, stack)
      /\ stack # <<>> => /\ IsInode(Last(stack).node)
                         /\ GoodKid(rep, end, Last(stack).node, Last(stack).byte, n)
      /\ stack # <<>> /\ CurrentEntry(Last(stack)) =>
            nodes[Last(stack).node].kids[Last(stack).byte] = n
      /\ word[n] = v => n \in tree /\ start[n] <= Above(end, stack, Len(stack) + 1)
  BY <1>2, <1>3, AtNode
<1>5. IsLeaf(n) /\ ~IsInode(n) /\ nodes[n].key \in Key /\ rep[n] = nodes[n].key /\ end[n] = KeyLen
  BY <1>3, <1>4, NodeFacts
<1>6. pc'[Scanner] = after.goto /\ todo'[Scanner] = cs
  BY <1>3, ScannerAssumption DEF OnThreads, IsOnThreads
<1>7. PastChecks(cs) /\ (AllCurrent(cs) <=> word[n] = v /\ AllCurrent(after.checks))
  <2>1. PastChecks(after.checks)
    BY <1>1 DEF ScanTypes
  <2>2. /\ CheckOf(n, v) \in Checks /\ CheckOf(n, v).on = n /\ CheckOf(n, v).ver = v
        /\ Past(n, v) /\ cs = <<CheckOf(n, v)>> \o after.checks
    BY <1>2, <1>4, CheckIs
  <2> QED
    BY <2>1, <2>2, ChecksCons
<1>8. e \in StackEntry /\ e.node = n /\ e.ver = v
  BY <1>2, <1>4, LeafEntry
<1>9. s2 # <<>> /\ Last(s2) = e
  BY <1>2, <1>4, <1>8, Pushed
<1>10. top' = e /\ valid'
  BY <1>3, <1>9 DEF top, valid
<1>11. ScanTypes'
  BY <1>1, <1>3, <1>4, <1>6, <1>7, Still
     DEF ScanTypes, ScanLabels, opVars, rcsVars, callVars, Descending, fwd
<1>12. StackFits(rep, end)'
  <2>1. StackPath(rep, end, s2)
    BY <1>2, <1>4, <1>5, <1>8, PushFits
  <2>2. pc'[Scanner] # "backtrack"
    BY <1>1, <1>6 DEF ScanTypes
  <2> QED
    BY <1>3, <1>5, <1>8, <1>10, <2>1, <2>2, Still DEF StackFits
<1>13. EntriesHold(end, start, stack)'
  <2>1. EntriesHold(end, start, s2)
    <3>1. CurrentEntry(e) => start[n] <= Above(end, stack, Len(stack) + 1)
      BY <1>4, <1>8 DEF CurrentEntry
    <3> QED
      BY <1>1, <1>2, <1>4, <1>5, <1>8, <3>1, PushHolds
  <2> QED
    BY <1>3, <2>1, Still
<1>14. ~Descending'
  BY <1>1, <1>6 DEF ScanTypes, Descending
<1>15. CallInv(rep, end, start)'
  <2>0. pc'[Scanner] \in {"positioned", "step"}
    BY <1>1, <1>6 DEF ScanTypes
  <2> SUFFICES ASSUME Hopeful' PROVE CallKnows(rep, end, start)'
    BY <2>0 DEF CallInv
  <2>1. word[n] = v /\ n \in tree /\ AllCurrent(after.checks) /\ ~lost
    BY <1>3, <1>4, <1>6, <1>7, Still DEF Hopeful
  <2>2. Finds(rep, end) \/ FindsLast(rep, end)
    <3>1. Hopeful
      BY <1>3, <2>1, ChecksFew DEF Hopeful
    <3> QED
      BY <1>3, <1>4, <3>1 DEF CallInv, CallKnows
  <2>3. /\ op'[Scanner] = op[Scanner] /\ key'[Scanner] = key[Scanner]
        /\ steady' = steady /\ ever' = ever
    BY <1>3 DEF opVars, callVars
  <2>4. \A k \in steady : k \in Key /\ map[k] # Nil
    BY <1>1, <1>3 DEF ScanTypes, bound
  <2>5. ASSUME Finds(rep, end) PROVE CallKnows(rep, end, start)'
    <3>1. pc'[Scanner] = "positioned"
      BY <1>6, <2>5 DEF Finds
    <3>2. nodes[n].key \in ever
      <4>1. map[nodes[n].key] = n
        BY <1>4, <1>5, <2>1, TreeFacts DEF MapFits
      <4> QED
        BY <1>1, <1>3, <1>4, <1>5, <4>1, NodeFacts DEF ScanTypes, bound
    <3>3. Passed(nodes[n].key)
      BY <1>2, <1>5, <2>5 DEF Finds, SameTo
    <3>4. ASSUME NEW k \in steady, Passed(k)
          PROVE  k = nodes[n].key \/ Before(nodes[n].key, k, fwd)
      <4>1. stack # <<>> => \/ Through(rep, end, k, Last(stack))
                            \/ Onward(rep, end, k, Last(stack))
        BY <2>5, <3>4 DEF Finds, valid, top
      <4>2. fwd \in BOOLEAN
        BY <1>1 DEF ScanTypes
      <4> QED
        BY <1>4, <1>5, <2>1, <2>4, <4>1, <4>2, LeafReached
    <3>5. current_key' = nodes[n].key
      BY <1>3, <1>8, <1>10 DEF current_key
    <3>6. Lands'
      BY <1>3, <1>10, <2>3, <3>2, <3>3, <3>4, <3>5, OrderStill DEF Lands
    <3> QED
      BY <1>14, <3>1, <3>6 DEF CallKnows
  <2>6. ASSUME FindsLast(rep, end) PROVE CallKnows(rep, end, start)'
    <3>1. pc'[Scanner] = "step"
      BY <1>6, <2>6 DEF FindsLast
    <3>2. StepsOn(rep, end, e)
      BY <1>5, <1>8 DEF StepsOn
    <3>3. \A i \in DOMAIN s2 : StepsOn(rep, end, s2[i])
      BY <1>2, <1>4, <1>8, <2>6, <3>2, StepsPush DEF FindsLast
    <3>4. ASSUME NEW k \in steady, Passed(k) PROVE Onward(rep, end, k, e)
      <4>1. /\ fwd \in BOOLEAN /\ op[Scanner] \in {"seek", "next"} /\ key[Scanner] \in Key
            /\ k \in Key
        BY <1>1, <1>3, <1>4, <2>4, <2>6 DEF ScanTypes, FindsLast
      <4>2. PICK a, c : a = key[Scanner] /\ c = nodes[n].key
        OBVIOUS
      <4>3. a \in Bytes /\ k \in Bytes /\ c \in Bytes /\ KeyLen \in 0 .. KeyLen /\ a \in Key
        BY <1>5, <4>1, <4>2, KeyBytes, KeyAssumption
      <4>4. AheadOf(a, c, KeyLen)
        <5>1. Before(c, a, fwd)
          BY <1>2, <1>5, <2>6, <4>2 DEF FindsLast, SameTo
        <5> QED
          BY <4>1, <4>3, <5>1, BeforeIs
      <4>5. ~AheadOf(a, k, KeyLen)
        BY <3>4, <4>1, <4>2, PassedFacts
      <4>6. AheadOf(k, c, KeyLen)
        <5>1. k = a \/ AheadOf(k, a, KeyLen)
          BY <4>3, <4>5, AheadTotal, SameAll
        <5> QED
          BY <4>3, <4>4, <5>1, AheadTransitive
      <4> QED
        BY <1>5, <1>8, <4>2, <4>6 DEF Onward
    <3>5. Steps(rep, end)'
      BY <1>3, <1>10, <2>3, <3>3, <3>4, OrderStill DEF Steps
    <3> QED
      BY <1>14, <3>1, <3>5 DEF CallKnows
  <2> QED
    BY <2>2, <2>5, <2>6
<1> QED
  BY <1>11, <1>12, <1>13, <1>14, <1>15 DEF StackInv, DescentFits, DescentHolds

\* The parent's version.
LEMMA AtParent ==
    ASSUME NEW rep, NEW end, ScanTypes, DescentFits(rep, end), Descending,
           NEW p, p = at[Scanner]["parent"], NEW w, w = ver[Scanner]["parent"]
    PROVE  p \in Lock /\ w \in Nat /\ Past(p, w)
  BY DEF ScanTypes, DescentFits, Role

\* What is not behind a key that goes along an entry goes along it too, or leads beyond.
LEMMA NotBehindEntry ==
    ASSUME NEW tree, NEW rep, NEW end, NEW start, TreeFits(tree, rep, end, start), NEW e, NEW n,
           IsInode(e.node), GoodKid(rep, end, e.node, e.byte, n),
           NEW a \in Bytes, NEW k \in Bytes, Through(rep, end, a, e), ~AheadOf(a, k, KeyLen)
    PROVE  Through(rep, end, k, e) \/ Onward(rep, end, k, e)
<1>1. PICK q, b, l : q = e.node /\ b = e.byte /\ l = end[q] + 1
  OBVIOUS
<1>2. IsInode(q) /\ IsUsed(q) /\ IsUsed(n) /\ GoodKid(rep, end, q, b, n)
  BY <1>1 DEF IsInode, GoodKid
<1>3. end[q] \in Nat /\ l \in 0 .. KeyLen
  <2>1. end[q] \in 0 .. KeyLen - 1
    BY <1>2, NodeFacts
  <2> QED
    BY <1>1, <2>1, KeyAssumption
<1>4. SameTo(a, rep[n], l) /\ rep[n] \in Bytes
  BY <1>1, <1>2, <1>3, EdgeIs, NodeFacts
<1>5. SameTo(k, rep[n], l) \/ AheadOf(k, rep[n], l)
  BY <1>3, <1>4, NotBehind
<1> QED
  BY <1>1, <1>2, <1>3, <1>5, EdgeIs

\* A seek at a leaf.
LEMMA SeekLeafKeeps ==
    ASSUME NEW tree, NEW rep, NEW end, NEW start, View(tree, rep, end, start), OnThreads,
           StackInv(tree, rep, end, start), CallInv(rep, end, start), seek_leaf
    PROVE  StackInv(tree, rep, end, start)' /\ CallInv(rep, end, start)'
<1>1. /\ ScanTypes /\ StackFits(rep, end) /\ DescentFits(rep, end)
      /\ EntriesHold(end, start, stack) /\ DescentHolds(end, start)
  BY DEF StackInv
<1>2. PICK n, v, p, w, e, s2, cs, c, onward :
         /\ n = ThisNode /\ v = ThisVer /\ p = at[Scanner]["parent"] /\ w = ver[Scanner]["parent"]
         /\ e = [node |-> n, ver |-> v] /\ s2 = Append(stack, e)
         /\ cs = <<CheckOf(p, w), CheckOf(n, v)>> /\ c = nodes[n].key
         /\ onward = (\/ c = key[Scanner] /\ op[Scanner] = "next"
                      \/ Before(c, key[Scanner], fwd))
  OBVIOUS
<1>3. /\ pc[Scanner] = "at_node" /\ todo[Scanner] = <<>> /\ walk = "seek"
      /\ nodes[n].kind = "leaf"
      /\ stack' = s2 /\ pc' = [pc EXCEPT ![Scanner] = IF onward THEN "step" ELSE "positioned"]
      /\ todo' = [todo EXCEPT ![Scanner] = cs] /\ torn' = torn \ {Scanner}
      /\ lost' = (lost \/ Scanner \in torn)
      /\ UNCHANGED <<opVars, rcsVars, scan, walk, after, callVars>>
      /\ UNCHANGED <<root, nodes, word, map>> /\ held' = held
  BY <1>2 DEF seek_leaf, SeekAt, Tear, Here, Ready, push_leaf, PlanChecks, Check, Untouched, Unread,
              treeVars, ThisNode, ThisVer, Goto
<1>4. /\ TreeFits(tree, rep, end, start) /\ Descending
      /\ IsUsed(n) /\ n \in Node /\ n \in Lock /\ Past(n, v) /\ v \in Nat
      /\ stack \in Seq(StackEntry) /\ StackPath(rep, end, stack)
      /\ stack # <<>> => /\ IsInode(Last(stack).node)
                         /\ GoodKid(rep, end, Last(stack).node, Last(stack).byte, n)
      /\ stack # <<>> /\ CurrentEntry(Last(stack)) =>
            nodes[Last(stack).node].kids[Last(stack).byte] = n
      /\ word[n] = v => n \in tree /\ start[n] <= Above(end, stack, Len(stack) + 1)
  BY <1>2, <1>3, AtNode
<1>5. IsLeaf(n) /\ ~IsInode(n) /\ c \in Key /\ rep[n] = c /\ end[n] = KeyLen
  BY <1>2, <1>3, <1>4, NodeFacts
<1>6. /\ pc'[Scanner] = (IF onward THEN "step" ELSE "positioned") /\ todo'[Scanner] = cs
      /\ pc'[Scanner] \in {"step", "positioned"}
  BY <1>3, ScannerAssumption DEF OnThreads, IsOnThreads
<1>7. PastChecks(cs) /\ (AllCurrent(cs) => word[n] = v)
  <2>1. p \in Lock /\ w \in Nat /\ Past(p, w)
    BY <1>1, <1>2, <1>4, AtParent
  <2>2. /\ CheckOf(n, v) \in Checks /\ CheckOf(n, v).on = n /\ CheckOf(n, v).ver = v
        /\ CheckOf(p, w) \in Checks /\ CheckOf(p, w).on = p /\ CheckOf(p, w).ver = w
    BY <1>4, <2>1, CheckIs
  <2> QED
    BY <1>2, <1>4, <2>1, <2>2, ChecksFew
<1>8. e \in StackEntry /\ e.node = n /\ e.ver = v
  BY <1>2, <1>4, LeafEntry
<1>9. s2 # <<>> /\ Last(s2) = e
  BY <1>2, <1>4, <1>8, Pushed
<1>10. top' = e /\ valid'
  BY <1>3, <1>9 DEF top, valid
<1>11. ScanTypes'
  BY <1>1, <1>3, <1>4, <1>6, <1>7, Still
     DEF ScanTypes, ScanLabels, opVars, rcsVars, callVars, Descending, fwd
<1>12. StackFits(rep, end)'
  <2>1. StackPath(rep, end, s2)
    BY <1>2, <1>4, <1>5, <1>8, PushFits
  <2> QED
    BY <1>3, <1>5, <1>6, <1>8, <1>10, <2>1, Still DEF StackFits
<1>13. EntriesHold(end, start, stack)'
  <2>1. EntriesHold(end, start, s2)
    <3>1. CurrentEntry(e) => start[n] <= Above(end, stack, Len(stack) + 1)
      BY <1>4, <1>8 DEF CurrentEntry
    <3> QED
      BY <1>1, <1>2, <1>4, <1>5, <1>8, <3>1, PushHolds
  <2> QED
    BY <1>3, <2>1, Still
<1>14. ~Descending'
  BY <1>6 DEF Descending
<1>15. CallInv(rep, end, start)'
  <2> SUFFICES ASSUME Hopeful' PROVE CallKnows(rep, end, start)'
    BY <1>6 DEF CallInv
  <2>1. word[n] = v /\ n \in tree /\ ~lost /\ Scanner \notin torn
    BY <1>3, <1>4, <1>6, <1>7, Still DEF Hopeful
  <2>2. stack # <<>> => Through(rep, end, key[Scanner], Last(stack))
    <3>1. Hopeful
      BY <1>1, <1>3, <1>4, <2>1, ChecksFew DEF Hopeful, ScanTypes, Positioned
    <3> QED
      BY <1>3, <1>4, <3>1 DEF CallInv, CallKnows, Seeks, valid, top
  <2>3. /\ op'[Scanner] = op[Scanner] /\ key'[Scanner] = key[Scanner]
        /\ steady' = steady /\ ever' = ever
    BY <1>3 DEF opVars, callVars
  <2>4. \A k \in steady : k \in Key /\ map[k] # Nil
    BY <1>1, <1>3 DEF ScanTypes, bound
  <2>5. PICK a : a = key[Scanner]
    OBVIOUS
  <2>6. /\ fwd \in BOOLEAN /\ op[Scanner] \in {"seek", "next"} /\ key[Scanner] \in Key
        /\ a \in Bytes /\ c \in Bytes /\ KeyLen \in 0 .. KeyLen
    <3>1. fwd \in BOOLEAN /\ op[Scanner] \in {"seek", "next"} /\ key[Scanner] \in Key
      BY <1>1, <1>3, <1>4 DEF ScanTypes
    <3> QED
      BY <1>5, <2>5, <3>1, KeyBytes, KeyAssumption
  <2>7. Before(c, a, fwd) <=> AheadOf(a, c, KeyLen)
    BY <2>6, BeforeIs
  <2>8. CASE onward
    <3>1. \A i \in DOMAIN s2 : StepsOn(rep, end, s2[i])
      <4>1. StepsOn(rep, end, e)
        BY <1>5, <1>8 DEF StepsOn
      <4>2. \A i \in DOMAIN stack : StepsOn(rep, end, stack[i])
        <5>1. stack # <<>> => \A i \in DOMAIN stack : Through(rep, end, key[Scanner], stack[i])
          BY <1>4, <2>2, ThroughAll
        <5> QED
          BY <5>1 DEF StepsOn
      <4> QED
        BY <1>2, <1>4, <1>8, <4>1, <4>2, StepsPush
    <3>2. ASSUME NEW k \in steady, Passed(k) PROVE Onward(rep, end, k, e)
      <4>1. k \in Key /\ k \in Bytes
        BY <2>4, KeyBytes
      <4>2. CASE c = a /\ op[Scanner] = "next"
        BY <1>5, <1>8, <2>5, <2>6, <3>2, <4>1, <4>2, PassedFacts DEF Onward
      <4>3. CASE AheadOf(a, c, KeyLen)
        <5>1. ~AheadOf(a, k, KeyLen)
          BY <2>5, <2>6, <3>2, <4>1, PassedFacts
        <5>2. k = a \/ AheadOf(k, a, KeyLen)
          BY <2>6, <4>1, <5>1, AheadTotal, SameAll
        <5>3. AheadOf(k, c, KeyLen)
          BY <2>6, <4>1, <4>3, <5>2, AheadTransitive
        <5> QED
          BY <1>5, <1>8, <5>3 DEF Onward
      <4> QED
        BY <1>2, <2>5, <2>7, <2>8, <4>2, <4>3
    <3>3. Steps(rep, end)'
      BY <1>3, <1>10, <2>3, <3>1, <3>2, OrderStill DEF Steps
    <3> QED
      BY <1>6, <1>14, <2>8, <3>3 DEF CallKnows
  <2>9. CASE ~onward
    <3>1. ~AheadOf(a, c, KeyLen) /\ ~(c = a /\ op[Scanner] = "next")
      BY <1>2, <2>5, <2>7, <2>9
    <3>2. c \in ever
      <4>1. map[c] = n
        BY <1>2, <1>4, <1>5, <2>1, TreeFacts DEF MapFits
      <4> QED
        BY <1>1, <1>3, <1>4, <1>5, <4>1, NodeFacts DEF ScanTypes, bound
    <3>3. Passed(c)
      <4>1. c = a \/ AheadOf(c, a, KeyLen)
        BY <2>6, <3>1, AheadTotal, SameAll
      <4> QED
        BY <1>5, <2>5, <2>6, <3>1, <4>1, PassedFacts
    <3>4. ASSUME NEW k \in steady, Passed(k) PROVE k = c \/ Before(c, k, fwd)
      <4>1. k \in Key /\ map[k] # Nil /\ k \in Bytes
        BY <2>4, KeyBytes
      <4>2. ~AheadOf(a, k, KeyLen)
        BY <2>5, <2>6, <3>4, <4>1, PassedFacts
      <4>3. stack # <<>> => \/ Through(rep, end, k, Last(stack))
                            \/ Onward(rep, end, k, Last(stack))
        BY <1>4, <2>2, <2>5, <2>6, <4>1, <4>2, NotBehindEntry
      <4> QED
        BY <1>2, <1>4, <1>5, <2>1, <2>6, <4>1, <4>3, LeafReached
    <3>5. current_key' = c
      BY <1>2, <1>3, <1>8, <1>10 DEF current_key
    <3>6. Lands'
      BY <1>3, <1>10, <2>3, <3>2, <3>3, <3>4, <3>5, OrderStill DEF Lands
    <3> QED
      BY <1>6, <1>14, <2>9, <3>6 DEF CallKnows
  <2> QED
    BY <2>8, <2>9
<1> QED
  BY <1>11, <1>12, <1>13, <1>14, <1>15 DEF StackInv, DescentFits, DescentHolds

\* A key is compared with the prefix of an inode on its path.
LEMMA PrefixCompared ==
    ASSUME NEW tree, NEW rep, NEW end, NEW start, TreeFits(tree, rep, end, start),
           NEW n \in tree, IsInode(n), NEW a \in Key, SameTo(a, rep[n], start[n]),
           NEW pre, pre = nodes[n].prefix,
           NEW sh, sh = get_shared_length(pre, a, start[n])
    PROVE  /\ start[n] \in Nat /\ end[n] \in 0 .. KeyLen - 1
           /\ Len(pre) = end[n] - start[n] /\ sh \in 0 .. Len(pre)
           /\ SameTo(a, rep[n], start[n] + sh)
           /\ sh < Len(pre) =>
                 /\ start[n] + sh + 1 \in 1 .. end[n]
                 /\ ByteAt(a, start[n] + sh + 1) = a[start[n] + sh + 1]
                 /\ pre[sh + 1] = rep[n][start[n] + sh + 1]
                 /\ a[start[n] + sh + 1] # rep[n][start[n] + sh + 1]
<1>1. /\ start[n] \in Nat /\ end[n] \in 0 .. KeyLen - 1 /\ start[n] <= end[n] /\ KeyLen \in Nat
      /\ IsUsed(n)
  <2>1. IsUsed(n) /\ start[n] <= end[n]
    BY TreeFacts
  <2> QED
    BY <2>1, NodeFacts, KeyAssumption
<1>2. PICK d : d = start[n]
  OBVIOUS
<1>3. pre \in Seq(Byte)
  <2>1. nodes \in [Node -> AnyNode]
    BY DEF TreeFits, TreeTypes
  <2> QED
    BY <2>1, InodeFields
<1>4. /\ Len(pre) = end[n] - d /\ Len(pre) \in Nat
      /\ \A i \in 1 .. Len(pre) : pre[i] = rep[n][d + i]
  BY <1>1, <1>2, <1>3, TreeFacts DEF PrefixesFit
<1>5. /\ sh \in 0 .. Len(pre) /\ \A i \in 1 .. sh : pre[i] = ByteAt(a, d + i)
      /\ sh < Len(pre) => pre[sh + 1] # ByteAt(a, d + sh + 1)
  BY <1>1, <1>2, <1>3, SharedLength
<1>6. \A i \in 1 .. end[n] : ByteAt(a, i) = a[i]
  BY <1>1, KeyBytes
<1>7. ASSUME NEW j \in 1 .. d + sh PROVE a[j] = rep[n][j]
  <2>0. d \in Nat /\ sh \in Nat /\ sh <= Len(pre) /\ end[n] \in Nat
    BY <1>1, <1>2, <1>4, <1>5
  <2>1. CASE j \in 1 .. d
    BY <1>2, <2>1 DEF SameTo
  <2>2. CASE ~(j \in 1 .. d)
    <3>1. j - d \in 1 .. sh /\ j - d \in 1 .. Len(pre) /\ d + (j - d) = j /\ j \in 1 .. end[n]
      BY <1>4, <2>0, <2>2
    <3>2. pre[j - d] = ByteAt(a, j) /\ pre[j - d] = rep[n][j]
      BY <1>4, <1>5, <3>1
    <3> QED
      BY <1>6, <3>1, <3>2
  <2> QED
    BY <2>1, <2>2
<1>8. ASSUME sh < Len(pre)
      PROVE  /\ d + sh + 1 \in 1 .. end[n]
             /\ ByteAt(a, d + sh + 1) = a[d + sh + 1]
             /\ pre[sh + 1] = rep[n][d + sh + 1]
             /\ a[d + sh + 1] # rep[n][d + sh + 1]
  <2>0. PICK l \in Nat : l = Len(pre) /\ l = end[n] - d
    BY <1>4
  <2>1. /\ d + sh + 1 \in 1 .. end[n] /\ sh + 1 \in 1 .. Len(pre)
        /\ d + (sh + 1) = d + sh + 1
    <3>1. d \in Nat /\ end[n] \in Nat /\ sh \in Nat
      BY <1>1, <1>2, <1>5, <2>0
    <3>2. sh < l
      BY <1>8, <2>0
    <3> QED
      BY <2>0, <3>1, <3>2
  <2>2. pre[sh + 1] = rep[n][d + sh + 1]
    BY <1>4, <2>1
  <2>3. ByteAt(a, d + sh + 1) = a[d + sh + 1]
    BY <1>6, <2>1
  <2> QED
    BY <1>5, <1>8, <2>1, <2>2, <2>3
<1> QED
  BY <1>1, <1>2, <1>4, <1>5, <1>7, <1>8 DEF SameTo

\* A seek at an inode whose prefix differs from the key.
LEMMA SeekPrefixDiffersKeeps ==
    ASSUME NEW tree, NEW rep, NEW end, NEW start, View(tree, rep, end, start), OnThreads,
           StackInv(tree, rep, end, start), CallInv(rep, end, start), seek_prefix_differs
    PROVE  StackInv(tree, rep, end, start)' /\ CallInv(rep, end, start)'
<1>1. /\ ScanTypes /\ StackFits(rep, end) /\ DescentFits(rep, end)
      /\ EntriesHold(end, start, stack) /\ DescentHolds(end, start)
  BY DEF StackInv
<1>2. PICK n, v, p, w, cs, pre, a, sh, less :
         /\ n = ThisNode /\ v = ThisVer /\ p = at[Scanner]["parent"] /\ w = ver[Scanner]["parent"]
         /\ cs = <<CheckOf(p, w)>> /\ pre = nodes[n].prefix /\ a = key[Scanner]
         /\ sh = get_shared_length(pre, a, depth[Scanner])
         /\ less = (ByteAt(a, depth[Scanner] + sh + 1) < pre[sh + 1])
  OBVIOUS
<1>3. /\ pc[Scanner] = "at_node" /\ todo[Scanner] = <<>> /\ walk = "seek"
      /\ nodes[n].kind = "inode" /\ sh < Len(pre)
      /\ IF less = fwd
         THEN /\ walk' = Traversal(fwd)
              /\ after' = [checks |-> <<CheckOf(n, v)>>, goto |-> "positioned"]
         ELSE /\ walk' = Traversal(~fwd)
              /\ after' = [checks |-> <<CheckOf(n, v)>>, goto |-> "step"]
      /\ todo' = [todo EXCEPT ![Scanner] = cs] /\ torn' = torn \ {Scanner}
      /\ pc' = [pc EXCEPT ![Scanner] = "lock_node"]
      /\ lost' = (lost \/ Scanner \in torn)
      /\ UNCHANGED <<opVars, rcsVars, scan, stack, callVars>>
      /\ UNCHANGED <<root, nodes, word, map>> /\ held' = held
  BY <1>2 DEF seek_prefix_differs, SeekAt, Tear, Here, Ready, PlanChecks, Check, Untouched, Unread,
              treeVars, ThisNode, ThisVer, Goto, PrefixDiffers, shared, NodeOf
<1>4. /\ TreeFits(tree, rep, end, start) /\ Descending
      /\ IsUsed(n) /\ n \in Node /\ n \in Lock /\ n # Nil /\ Past(n, v) /\ v \in Nat
      /\ stack \in Seq(StackEntry) /\ StackPath(rep, end, stack)
      /\ stack # <<>> => /\ IsInode(Last(stack).node)
                         /\ GoodKid(rep, end, Last(stack).node, Last(stack).byte, n)
      /\ word[n] = v => n \in tree /\ start[n] <= Above(end, stack, Len(stack) + 1)
  BY <1>2, <1>3, AtNode
<1>5. IsInode(n)
  BY <1>3, <1>4, NodeFacts
<1>6. pc'[Scanner] = "lock_node" /\ todo'[Scanner] = cs /\ cs # <<>>
  BY <1>2, <1>3, ScannerAssumption DEF OnThreads, IsOnThreads
<1>7. /\ PastChecks(cs) /\ PastChecks(after'.checks) /\ after'.goto \in {"positioned", "step"}
      /\ AllCurrent(after'.checks) => word[n] = v
      /\ walk' \in {"left_most", "right_most"}
  <2>1. p \in Lock /\ w \in Nat /\ Past(p, w)
    BY <1>1, <1>2, <1>4, AtParent
  <2>2. /\ CheckOf(n, v) \in Checks /\ CheckOf(n, v).on = n /\ CheckOf(n, v).ver = v
        /\ CheckOf(p, w) \in Checks /\ CheckOf(p, w).on = p /\ CheckOf(p, w).ver = w
    BY <1>4, <2>1, CheckIs
  <2>3. after'.checks = <<CheckOf(n, v)>> /\ after'.goto \in {"positioned", "step"}
        /\ walk' \in {"left_most", "right_most"}
    BY <1>3 DEF Traversal
  <2> QED
    BY <1>2, <1>4, <2>1, <2>2, <2>3, ChecksFew
<1>8. ThisNode' = n /\ top' = top /\ (valid' <=> valid)
  BY <1>2, <1>3 DEF ThisNode, top, valid, rcsVars
<1>11. ScanTypes'
  BY <1>1, <1>3, <1>4, <1>6, <1>7, Still
     DEF ScanTypes, ScanLabels, opVars, rcsVars, callVars, Descending, fwd
<1>12. StackFits(rep, end)'
  BY <1>3, <1>4, <1>6, Still DEF StackFits
<1>13. EntriesHold(end, start, stack)'
  BY <1>1, <1>3, Still
<1>14. DescentFits(rep, end)'
  BY <1>1, <1>2, <1>3, <1>4, <1>6, <1>8, Still DEF DescentFits, rcsVars
<1>15. DescentHolds(end, start)'
  BY <1>1, <1>2, <1>3, <1>4, <1>6, <1>8, Still DEF DescentHolds, rcsVars
<1>16. CallInv(rep, end, start)'
  <2> SUFFICES ASSUME Hopeful' PROVE CallKnows(rep, end, start)'
    BY <1>6 DEF CallInv
  <2>1. word[n] = v /\ n \in tree /\ ~lost /\ Scanner \notin torn
    BY <1>3, <1>4, <1>6, <1>7, Still DEF Hopeful, Descending
  <2>2. /\ stack # <<>> => Through(rep, end, a, Last(stack))
        /\ start[n] = depth[Scanner]
    <3>1. Hopeful
      BY <1>1, <1>3, <1>4, <2>1, ChecksFew DEF Hopeful, ScanTypes, Positioned
    <3> QED
      BY <1>2, <1>3, <1>4, <1>5, <2>1, <3>1
         DEF CallInv, CallKnows, Seeks, valid, top, CurrentNode
  <2>3. /\ op'[Scanner] = op[Scanner] /\ key'[Scanner] = a
        /\ steady' = steady
    BY <1>2, <1>3 DEF opVars, callVars
  <2>4. \A k \in steady : k \in Key
    BY <1>1, <1>3 DEF ScanTypes, bound
  <2>6. /\ fwd \in BOOLEAN /\ op[Scanner] \in {"seek", "next"} /\ a \in Key
        /\ a \in Bytes /\ rep[n] \in Bytes /\ KeyLen \in 0 .. KeyLen /\ KeyLen \in Nat
    <3>1. fwd \in BOOLEAN /\ op[Scanner] \in {"seek", "next"} /\ a \in Key
      BY <1>1, <1>2, <1>3, <1>4 DEF ScanTypes
    <3> QED
      BY <1>4, <3>1, KeyBytes, KeyAssumption, NodeFacts
  <2>7. PICK j : j = start[n] + sh + 1
    OBVIOUS
  <2>8. /\ j \in 1 .. end[n] /\ end[n] \in Nat /\ end[n] <= KeyLen
        /\ SameTo(a, rep[n], j - 1) /\ SameTo(rep[n], a, j - 1)
        /\ a[j] # rep[n][j] /\ less = (a[j] < rep[n][j]) /\ a[j] \in Nat /\ rep[n][j] \in Nat
    <3>1. SameTo(a, rep[n], start[n])
      BY <1>4, <2>1, <2>2, ReachesNode
    <3>2. /\ start[n] \in Nat /\ end[n] \in 0 .. KeyLen - 1 /\ sh \in 0 .. Len(pre)
          /\ Len(pre) = end[n] - start[n]
          /\ SameTo(a, rep[n], start[n] + sh)
          /\ j \in 1 .. end[n] /\ ByteAt(a, j) = a[j] /\ pre[sh + 1] = rep[n][j]
          /\ a[j] # rep[n][j]
      <4>1. /\ TreeFits(tree, rep, end, start) /\ n \in tree /\ IsInode(n) /\ a \in Key
            /\ SameTo(a, rep[n], start[n]) /\ pre = nodes[n].prefix
            /\ sh = get_shared_length(pre, a, start[n])
        BY <1>2, <1>4, <1>5, <2>1, <2>2, <2>6, <3>1
      <4>2. /\ start[n] \in Nat /\ end[n] \in 0 .. KeyLen - 1 /\ sh \in 0 .. Len(pre)
            /\ Len(pre) = end[n] - start[n]
            /\ SameTo(a, rep[n], start[n] + sh)
            /\ sh < Len(pre) =>
                  /\ start[n] + sh + 1 \in 1 .. end[n]
                  /\ ByteAt(a, start[n] + sh + 1) = a[start[n] + sh + 1]
                  /\ pre[sh + 1] = rep[n][start[n] + sh + 1]
                  /\ a[start[n] + sh + 1] # rep[n][start[n] + sh + 1]
        BY <4>1, PrefixCompared
      <4> QED
        BY <1>3, <2>7, <4>2
    <3>3. j - 1 = start[n] + sh
      BY <2>7, <3>2
    <3>4. j \in 1 .. KeyLen
      BY <2>6, <3>2
    <3>5. a[j] \in Nat /\ rep[n][j] \in Nat
      BY <2>6, <3>4, ByteOrder
    <3>6. less = (a[j] < rep[n][j])
      BY <1>2, <2>2, <2>7, <3>2
    <3>7. end[n] \in Nat /\ end[n] <= KeyLen
      BY <2>6, <3>2
    <3> QED
      BY <3>2, <3>3, <3>5, <3>6, <3>7 DEF SameTo
  <2>9. CASE less = fwd
    <3>1. AheadOf(rep[n], a, end[n])
      <4>1. Further(rep[n][j], a[j])
        BY <2>6, <2>8, <2>9 DEF Further
      <4> QED
        BY <2>8, <4>1 DEF AheadOf
    <3>2. ASSUME NEW k \in Key, SameTo(k, rep[n], end[n]) PROVE Passed(k)
      <4>1. AheadOf(k, a, end[n])
        BY <2>8, <3>1, <3>2, AheadSame
      <4>2. AheadOf(k, a, KeyLen)
        BY <2>6, <2>8, <4>1, AheadLonger
      <4> QED
        BY <1>2, <2>6, <4>2, PassedFacts
    <3>3. ASSUME NEW k \in steady, Passed(k), stack # <<>>
          PROVE  Through(rep, end, k, Last(stack)) \/ Onward(rep, end, k, Last(stack))
      <4>1. k \in Key /\ k \in Bytes
        BY <2>4, KeyBytes
      <4>2. ~AheadOf(a, k, KeyLen)
        BY <1>2, <2>6, <3>3, <4>1, PassedFacts
      <4> QED
        BY <1>4, <2>2, <2>6, <3>3, <4>1, <4>2, NotBehindEntry
    <3>4. walk' = Traversal(fwd) /\ after'.goto = "positioned"
      BY <1>3, <2>9
    <3>5. Finds(rep, end)'
      BY <1>2, <1>3, <1>8, <2>3, <3>2, <3>3, <3>4, OrderStill
         DEF Finds, Traversal, top, valid
    <3> QED
      BY <1>6, <1>7, <3>5 DEF CallKnows
  <2>10. CASE less # fwd
    <3>1. AheadOf(a, rep[n], end[n])
      <4>1. Further(a[j], rep[n][j])
        BY <2>6, <2>8, <2>10 DEF Further
      <4> QED
        BY <2>8, <4>1 DEF AheadOf
    <3>2. ASSUME NEW k \in Key, SameTo(k, rep[n], end[n]) PROVE Before(k, a, fwd)
      <4>1. AheadOf(a, k, end[n])
        BY <2>8, <3>1, <3>2, AheadSame
      <4>2. AheadOf(a, k, KeyLen)
        BY <2>6, <2>8, <4>1, AheadLonger
      <4> QED
        BY <2>6, <4>2, BeforeIs, KeyBytes
    <3>3. \A i \in DOMAIN stack : StepsOn(rep, end, stack[i])
      <4>1. stack # <<>> => \A i \in DOMAIN stack : Through(rep, end, a, stack[i])
        BY <1>4, <2>2, ThroughAll
      <4> QED
        BY <1>2, <4>1 DEF StepsOn
    <3>4. walk' = Traversal(~fwd) /\ after'.goto = "step"
      BY <1>3, <2>10
    <3>5. FindsLast(rep, end)'
      BY <1>2, <1>3, <1>8, <2>3, <3>2, <3>3, <3>4, OrderStill
         DEF FindsLast, Traversal
    <3> QED
      BY <1>6, <1>7, <3>5 DEF CallKnows
  <2> QED
    BY <2>9, <2>10
<1> QED
  BY <1>11, <1>12, <1>13, <1>14, <1>15, <1>16 DEF StackInv

\* A seek at an inode whose prefix matches the key.
LEMMA SeekPrefixMatchesKeeps ==
    ASSUME NEW tree, NEW rep, NEW end, NEW start, View(tree, rep, end, start), OnThreads,
           StackInv(tree, rep, end, start), CallInv(rep, end, start), seek_prefix_matches
    PROVE  StackInv(tree, rep, end, start)' /\ CallInv(rep, end, start)'
<1>1. /\ ScanTypes /\ StackFits(rep, end) /\ DescentFits(rep, end)
      /\ EntriesHold(end, start, stack) /\ DescentHolds(end, start)
  BY DEF StackInv
<1>2. PICK n, v, pre, a, sh :
         /\ n = ThisNode /\ v = ThisVer /\ pre = nodes[n].prefix /\ a = key[Scanner]
         /\ sh = get_shared_length(pre, a, depth[Scanner])
  OBVIOUS
<1>3. /\ pc[Scanner] = "at_node" /\ todo[Scanner] = <<>> /\ walk = "seek"
      /\ nodes[n].kind = "inode" /\ sh = Len(pre)
      /\ depth' = [depth EXCEPT ![Scanner] = depth[Scanner] + sh]
      /\ pc' = [pc EXCEPT ![Scanner] = "find_child"]
      /\ torn' = torn \ {Scanner} /\ lost' = (lost \/ Scanner \in torn)
      /\ UNCHANGED <<opVars, at, ver, todo, scan, stack, walk, after, callVars>>
      /\ UNCHANGED <<root, nodes, word, map>> /\ held' = held
  BY <1>2 DEF seek_prefix_matches, SeekAt, Tear, Here, Ready, Untouched, Unread,
              treeVars, ThisNode, ThisVer, Goto, shared, NodeOf
<1>4. /\ TreeFits(tree, rep, end, start) /\ Descending
      /\ IsUsed(n) /\ n \in Node /\ n \in Lock /\ n # Nil /\ Past(n, v) /\ v \in Nat
      /\ stack \in Seq(StackEntry) /\ StackPath(rep, end, stack)
      /\ stack # <<>> => /\ IsInode(Last(stack).node)
                         /\ GoodKid(rep, end, Last(stack).node, Last(stack).byte, n)
      /\ word[n] = v => n \in tree /\ start[n] <= Above(end, stack, Len(stack) + 1)
  BY <1>2, <1>3, AtNode
<1>5. IsInode(n) /\ sh \in Nat
  <2>1. IsInode(n) /\ nodes \in [Node -> AnyNode]
    BY <1>3, <1>4, NodeFacts DEF TreeFits, TreeTypes
  <2>2. pre \in Seq(Byte)
    BY <1>2, <2>1, InodeFields
  <2> QED
    BY <1>3, <2>1, <2>2
<1>6. /\ pc'[Scanner] = "find_child" /\ todo'[Scanner] = <<>>
      /\ depth[Scanner] \in Nat /\ depth'[Scanner] = depth[Scanner] + sh
  BY <1>1, <1>3, ScannerAssumption DEF OnThreads, IsOnThreads, ScanTypes
<1>7. depth'[Scanner] \in Nat
  BY <1>5, <1>6
<1>8. ThisNode' = n /\ ThisVer' = v /\ top' = top /\ (valid' <=> valid)
  BY <1>2, <1>3 DEF ThisNode, ThisVer, top, valid
<1>11. ScanTypes'
  BY <1>1, <1>3, <1>4, <1>6, <1>7, Still
     DEF ScanTypes, ScanLabels, opVars, callVars, Descending, fwd
<1>12. StackFits(rep, end)'
  BY <1>3, <1>4, <1>6, Still DEF StackFits
<1>13. EntriesHold(end, start, stack)'
  BY <1>1, <1>3, Still
<1>14. DescentFits(rep, end)'
  BY <1>1, <1>2, <1>3, <1>4, <1>5, <1>6, <1>8, Still DEF DescentFits
<1>15. DescentHolds(end, start)'
  BY <1>1, <1>2, <1>3, <1>4, <1>6, <1>8, Still DEF DescentHolds, CurrentNode
<1>16. CallInv(rep, end, start)'
  <2> SUFFICES ASSUME Hopeful' PROVE CallKnows(rep, end, start)'
    BY <1>6 DEF CallInv
  <2>1. ~lost /\ Scanner \notin torn
    BY <1>3 DEF Hopeful
  <2>2. /\ stack # <<>> => Through(rep, end, a, Last(stack))
        /\ word[n] = v => start[n] = depth[Scanner]
    <3>1. Hopeful
      BY <1>1, <1>3, <1>4, <2>1, ChecksFew DEF Hopeful, ScanTypes, Positioned
    <3> QED
      BY <1>2, <1>3, <1>4, <1>5, <3>1
         DEF CallInv, CallKnows, Seeks, valid, top, CurrentNode
  <2>3. key'[Scanner] = a
    BY <1>2, <1>3 DEF opVars
  <2>4. a \in Key
    BY <1>1, <1>2, <1>3, <1>4 DEF ScanTypes
  <2>5. ASSUME word[n] = v PROVE depth'[Scanner] = end[n] /\ SameTo(a, rep[n], end[n])
    <3>1. SameTo(a, rep[n], start[n])
      BY <1>4, <2>2, <2>5, ReachesNode
    <3>2. /\ TreeFits(tree, rep, end, start) /\ n \in tree /\ IsInode(n) /\ a \in Key
          /\ SameTo(a, rep[n], start[n]) /\ pre = nodes[n].prefix
          /\ sh = get_shared_length(pre, a, start[n])
      BY <1>2, <1>4, <1>5, <2>2, <2>4, <2>5, <3>1
    <3>3. /\ start[n] \in Nat /\ end[n] \in 0 .. KeyLen - 1
          /\ Len(pre) = end[n] - start[n] /\ SameTo(a, rep[n], start[n] + sh)
      BY <3>2, PrefixCompared
    <3>4. start[n] + sh = end[n]
      BY <1>3, <3>3, KeyAssumption
    <3> QED
      BY <1>6, <2>2, <2>5, <3>3, <3>4
  <2>6. Seeks(rep, end, start)'
    BY <1>3, <1>6, <1>8, <2>2, <2>3, <2>5, OrderStill DEF Seeks, CurrentNode, valid, top
  <2> QED
    BY <1>3, <1>6, <2>6 DEF CallKnows
<1> QED
  BY <1>11, <1>12, <1>13, <1>14, <1>15, <1>16 DEF StackInv

\* A seek goes on to the child of the key's next byte.
LEMMA SeekChildKeeps ==
    ASSUME NEW tree, NEW rep, NEW end, NEW start, View(tree, rep, end, start), OnThreads,
           StackInv(tree, rep, end, start), CallInv(rep, end, start), seek_child
    PROVE  StackInv(tree, rep, end, start)' /\ CallInv(rep, end, start)'
<1>1. /\ ScanTypes /\ StackFits(rep, end) /\ DescentFits(rep, end)
      /\ EntriesHold(end, start, stack) /\ DescentHolds(end, start)
  BY DEF StackInv
<1>2. PICK n, v, b, c, e, s2, cs :
         /\ n = ThisNode /\ v = ThisVer /\ b = NextByte(Scanner)
         /\ c = nodes[n].kids[b] /\ e = [node |-> n, byte |-> b, ver |-> v]
         /\ s2 = Append(stack, e) /\ cs = <<CheckOf(n, v)>>
  OBVIOUS
<1>3. /\ pc[Scanner] = "find_child" /\ todo[Scanner] = <<>> /\ b \in DOMAIN nodes[n].kids
      /\ stack' = s2 /\ DescendTo(n, v, c) /\ todo' = [todo EXCEPT ![Scanner] = cs]
      /\ depth' = [depth EXCEPT ![Scanner] = depth[Scanner] + 1]
      /\ UNCHANGED <<opVars, torn, scan, walk, after, callVars, lost>>
      /\ UNCHANGED <<root, nodes, word, map>> /\ held' = held
  BY <1>2 DEF seek_child, Here, Ready, push, PlanChecks, Check, Untouched, Unread, treeVars,
              ThisNode, ThisVer, HasChild, find_child, NodeOf
<1>4. /\ TreeFits(tree, rep, end, start) /\ Descending
      /\ IsUsed(n) /\ n \in Node /\ n \in Lock /\ n # Nil /\ Past(n, v) /\ v \in Nat
      /\ stack \in Seq(StackEntry) /\ StackPath(rep, end, stack)
      /\ stack # <<>> => /\ IsInode(Last(stack).node)
                         /\ GoodKid(rep, end, Last(stack).node, Last(stack).byte, n)
      /\ stack # <<>> /\ CurrentEntry(Last(stack)) =>
            nodes[Last(stack).node].kids[Last(stack).byte] = n
      /\ word[n] = v => n \in tree /\ start[n] <= Above(end, stack, Len(stack) + 1)
  BY <1>2, <1>3, AtNode
<1>5. walk = "seek" /\ IsInode(n) /\ after = Positioned
  BY <1>1, <1>2, <1>3, <1>4 DEF ScanTypes, DescentFits
<1>6. b \in Byte /\ GoodKid(rep, end, n, b, c) /\ IsUsed(c) /\ c \in Lock /\ c # Nil
  <2>1. b \in Byte /\ GoodKid(rep, end, n, b, c)
    BY <1>2, <1>3, <1>4, <1>5, NodeFacts
  <2>2. IsUsed(c)
    BY <2>1 DEF GoodKid
  <2> QED
    BY <1>4, <2>1, <2>2, NodeFacts
<1>7. /\ todo'[Scanner] = cs /\ PastChecks(cs) /\ cs # <<>> /\ Head(cs) = CheckOf(n, v)
      /\ AllCurrent(cs) <=> word[n] = v
      /\ depth[Scanner] \in Nat /\ depth'[Scanner] = depth[Scanner] + 1
  BY <1>1, <1>2, <1>3, <1>4, <1>6, CheckIs, ChecksFew, ScannerAssumption, SMTT(30)
     DEF OnThreads, IsOnThreads, ScanTypes
<1>8. /\ pc'[Scanner] = "lock_node" /\ at'[Scanner] \in [Role -> Lock]
      /\ ver'[Scanner] \in [Role -> Nat]
  BY <1>3, <1>4, <1>6, Descended
<1>9. e \in StackEntry /\ e.node = n /\ e.byte = b /\ e.ver = v
  BY <1>2, <1>4, <1>6, InodeEntry
<1>10. s2 # <<>> /\ Last(s2) = e /\ s2 \in Seq(StackEntry)
  BY <1>2, <1>4, <1>9, Pushed
<1>11. ScanTypes'
  <2>1. depth'[Scanner] \in Nat
    BY <1>7
  <2> QED
    BY <1>1, <1>3, <1>4, <1>5, <1>7, <1>8, <2>1, Still
       DEF ScanTypes, ScanLabels, opVars, callVars, Descending, fwd
<1>12. StackFits(rep, end)'
  <2>1. StackPath(rep, end, s2)
    BY <1>2, <1>4, <1>6, <1>9, PushFits
  <2> QED
    BY <1>3, <1>8, <2>1, Still DEF StackFits
<1>13. EntriesHold(end, start, stack)'
  <2>1. EntriesHold(end, start, s2)
    <3>1. CurrentEntry(e) => start[n] <= Above(end, stack, Len(stack) + 1)
      BY <1>4, <1>9 DEF CurrentEntry
    <3> QED
      BY <1>1, <1>2, <1>3, <1>4, <1>9, <3>1, PushHolds
  <2> QED
    BY <1>3, <2>1, Still
<1>14. DescentFits(rep, end)' /\ DescentHolds(end, start)'
  <2>1. /\ UNCHANGED <<root, nodes, word, map>> /\ v \in Nat /\ c \in Lock /\ IsInode(n)
        /\ Past(n, v) /\ n \in Lock /\ DescendTo(n, v, c) /\ stack' = s2 /\ s2 # <<>>
        /\ Last(s2).node = n /\ Last(s2).byte = b /\ Last(s2).ver = v
        /\ todo'[Scanner] = cs /\ cs # <<>> /\ Head(cs) = CheckOf(n, v)
        /\ GoodKid(rep, end, n, b, c) /\ c # Nil /\ nodes[n].kids[b] = c
    BY <1>2, <1>3, <1>4, <1>5, <1>6, <1>7, <1>9, <1>10
  <2> QED
    BY <2>1, DescendFits
<1>15. CallInv(rep, end, start)'
  <2> SUFFICES ASSUME Hopeful' PROVE CallKnows(rep, end, start)'
    BY <1>8 DEF CallInv
  <2>1. word[n] = v /\ n \in tree /\ ~lost /\ Scanner \notin torn
    <3>1. AllCurrent(cs) /\ ~lost
      BY <1>3, <1>7, Still DEF Hopeful
    <3>2. word[n] = v
      BY <1>7, <3>1
    <3>3. Scanner \notin torn
      BY <1>1, <1>3 DEF ScanTypes
    <3> QED
      BY <1>4, <3>1, <3>2, <3>3
  <2>2. depth[Scanner] = end[n] /\ SameTo(key[Scanner], rep[n], end[n])
    <3>1. Hopeful
      BY <1>3, <1>4, <1>5, <2>1, ChecksFew DEF Hopeful, Positioned
    <3> QED
      BY <1>2, <1>3, <1>4, <1>5, <2>1, <3>1 DEF CallInv, CallKnows, Seeks, CurrentNode
  <2>3. key[Scanner] \in Key /\ end[n] \in 0 .. KeyLen - 1
    BY <1>1, <1>3, <1>4, <1>5, NodeFacts DEF ScanTypes
  <2>4. b = key[Scanner][end[n] + 1]
    BY <1>2, <2>2, <2>3, NextByteIs
  <2>5. /\ key'[Scanner] = key[Scanner] /\ top' = e /\ valid'
    BY <1>3, <1>10 DEF opVars, top, valid
  <2>6. Through(rep, end, key[Scanner], e)
    BY <1>9, <2>2, <2>4 DEF Through
  <2>7. depth'[Scanner] = Above(end, s2, Len(s2) + 1)
    BY <1>7, <1>9, <1>10, <2>2, AboveIs
  <2>8. Seeks(rep, end, start)'
    BY <1>3, <1>8, <2>5, <2>6, <2>7, OrderStill DEF Seeks, Above
  <2> QED
    BY <1>3, <1>5, <1>8, <2>8 DEF CallKnows
<1> QED
  BY <1>11, <1>12, <1>13, <1>14, <1>15 DEF StackInv

\* A seek goes on to the sibling of the child it does not find.
LEMMA SeekSiblingKeeps ==
    ASSUME NEW tree, NEW rep, NEW end, NEW start, View(tree, rep, end, start), OnThreads,
           StackInv(tree, rep, end, start), CallInv(rep, end, start), seek_sibling
    PROVE  StackInv(tree, rep, end, start)' /\ CallInv(rep, end, start)'
<1>1. /\ ScanTypes /\ StackFits(rep, end) /\ DescentFits(rep, end)
      /\ EntriesHold(end, start, stack) /\ DescentHolds(end, start)
  BY DEF StackInv
<1>2. PICK n, v, p, w, x, S, b, c, e, s2, cs :
         /\ n = ThisNode /\ v = ThisVer /\ p = at[Scanner]["parent"] /\ w = ver[Scanner]["parent"]
         /\ x = NextByte(Scanner) /\ S = siblings(nodes[n], x, fwd) /\ b = nearest(S, fwd)
         /\ c = nodes[n].kids[b] /\ e = [node |-> n, byte |-> b, ver |-> v]
         /\ s2 = Append(stack, e) /\ cs = <<CheckOf(n, v), CheckOf(p, w), CheckOf(n, v)>>
  OBVIOUS
<1>3. /\ pc[Scanner] = "find_child" /\ todo[Scanner] = <<>> /\ x \notin DOMAIN nodes[n].kids
      /\ S # {}
      /\ stack' = s2 /\ DescendTo(n, v, c) /\ todo' = [todo EXCEPT ![Scanner] = cs]
      /\ walk' = Traversal(fwd)
      /\ UNCHANGED <<opVars, depth, torn, scan, after, callVars, lost>>
      /\ UNCHANGED <<root, nodes, word, map>> /\ held' = held
  BY <1>2 DEF seek_sibling, Here, Ready, push, PlanChecks, Check, Untouched, Unread, treeVars,
              ThisNode, ThisVer, HasChild, NodeOf, Beyond
<1>4. /\ TreeFits(tree, rep, end, start) /\ Descending
      /\ IsUsed(n) /\ n \in Node /\ n \in Lock /\ n # Nil /\ Past(n, v) /\ v \in Nat
      /\ stack \in Seq(StackEntry) /\ StackPath(rep, end, stack)
      /\ stack # <<>> => /\ IsInode(Last(stack).node)
                         /\ GoodKid(rep, end, Last(stack).node, Last(stack).byte, n)
      /\ stack # <<>> /\ CurrentEntry(Last(stack)) =>
            nodes[Last(stack).node].kids[Last(stack).byte] = n
      /\ word[n] = v => n \in tree /\ start[n] <= Above(end, stack, Len(stack) + 1)
  BY <1>2, <1>3, AtNode
<1>5. /\ walk = "seek" /\ IsInode(n) /\ after = Positioned /\ fwd \in BOOLEAN
      /\ walk' \in {"left_most", "right_most"}
  <2>1. walk = "seek" /\ IsInode(n) /\ after = Positioned /\ fwd \in BOOLEAN
    BY <1>1, <1>2, <1>3, <1>4 DEF ScanTypes, DescentFits
  <2> QED
    BY <1>3, <2>1 DEF Traversal
<1>6. /\ b \in Byte /\ b \in S /\ b \in DOMAIN nodes[n].kids /\ GoodKid(rep, end, n, b, c)
      /\ IsUsed(c) /\ c \in Lock /\ c # Nil
      /\ \A y \in S : IF fwd THEN b <= y ELSE y <= b
  <2>1. S \subseteq DOMAIN nodes[n].kids
    BY <1>2 DEF siblings
  <2>2. S \in SUBSET Byte
    BY <1>4, <1>5, <2>1, NodeFacts
  <2>3. b \in S /\ \A y \in S : IF fwd THEN b <= y ELSE y <= b
    BY <1>2, <1>3, <1>5, <2>2, NearestIs
  <2>4. b \in Byte /\ b \in DOMAIN nodes[n].kids /\ GoodKid(rep, end, n, b, c)
    BY <1>2, <1>4, <1>5, <2>1, <2>3, NodeFacts
  <2>5. IsUsed(c)
    BY <2>4 DEF GoodKid
  <2> QED
    BY <1>4, <2>3, <2>4, <2>5, NodeFacts
<1>7. /\ todo'[Scanner] = cs /\ PastChecks(cs) /\ cs # <<>> /\ Head(cs) = CheckOf(n, v)
      /\ AllCurrent(cs) => word[n] = v
  <2>1. p \in Lock /\ w \in Nat /\ Past(p, w)
    BY <1>1, <1>2, <1>4, AtParent
  <2>2. /\ CheckOf(n, v) \in Checks /\ CheckOf(n, v).on = n /\ CheckOf(n, v).ver = v
        /\ CheckOf(p, w) \in Checks /\ CheckOf(p, w).on = p /\ CheckOf(p, w).ver = w
    BY <1>4, <2>1, CheckIs
  <2>3. todo'[Scanner] = cs /\ cs # <<>> /\ Head(cs) = CheckOf(n, v)
    BY <1>2, <1>3, ScannerAssumption DEF OnThreads, IsOnThreads
  <2> QED
    BY <1>2, <1>4, <2>1, <2>2, <2>3, ChecksFew
<1>8. /\ pc'[Scanner] = "lock_node" /\ at'[Scanner] \in [Role -> Lock]
      /\ ver'[Scanner] \in [Role -> Nat] /\ at'[Scanner]["node"] = c
  BY <1>3, <1>4, <1>6, Descended
<1>9. e \in StackEntry /\ e.node = n /\ e.byte = b /\ e.ver = v
  BY <1>2, <1>4, <1>6, InodeEntry
<1>10. s2 # <<>> /\ Last(s2) = e /\ s2 \in Seq(StackEntry)
  BY <1>2, <1>4, <1>9, Pushed
<1>11. ScanTypes'
  BY <1>1, <1>3, <1>4, <1>5, <1>7, <1>8, Still
     DEF ScanTypes, ScanLabels, opVars, callVars, Descending, fwd
<1>12. StackFits(rep, end)'
  <2>1. StackPath(rep, end, s2)
    BY <1>2, <1>4, <1>6, <1>9, PushFits
  <2> QED
    BY <1>3, <1>8, <2>1, Still DEF StackFits
<1>13. EntriesHold(end, start, stack)'
  <2>1. EntriesHold(end, start, s2)
    <3>1. CurrentEntry(e) => start[n] <= Above(end, stack, Len(stack) + 1)
      BY <1>4, <1>9 DEF CurrentEntry
    <3> QED
      BY <1>1, <1>2, <1>4, <1>6, <1>9, <3>1, PushHolds
  <2> QED
    BY <1>3, <2>1, Still
<1>14. DescentFits(rep, end)' /\ DescentHolds(end, start)'
  <2>1. /\ UNCHANGED <<root, nodes, word, map>> /\ v \in Nat /\ c \in Lock /\ IsInode(n)
        /\ Past(n, v) /\ n \in Lock /\ DescendTo(n, v, c) /\ stack' = s2 /\ s2 # <<>>
        /\ Last(s2).node = n /\ Last(s2).byte = b /\ Last(s2).ver = v
        /\ todo'[Scanner] = cs /\ cs # <<>> /\ Head(cs) = CheckOf(n, v)
        /\ GoodKid(rep, end, n, b, c) /\ c # Nil /\ nodes[n].kids[b] = c
    BY <1>2, <1>3, <1>4, <1>5, <1>6, <1>7, <1>9, <1>10
  <2> QED
    BY <2>1, DescendFits
<1>15. CallInv(rep, end, start)'
  <2> SUFFICES ASSUME Hopeful' PROVE CallKnows(rep, end, start)'
    BY <1>8 DEF CallInv
  <2>1. word[n] = v /\ n \in tree /\ ~lost /\ Scanner \notin torn
    <3>1. AllCurrent(cs) /\ ~lost
      BY <1>3, <1>7, Still DEF Hopeful
    <3>2. Scanner \notin torn
      BY <1>1, <1>3 DEF ScanTypes
    <3> QED
      BY <1>4, <1>7, <3>1, <3>2
  <2>2. PICK a, l : a = key[Scanner] /\ l = end[n]
    OBVIOUS
  <2>3. depth[Scanner] = l /\ SameTo(a, rep[n], l)
    <3>1. Hopeful
      BY <1>3, <1>4, <1>5, <2>1, ChecksFew DEF Hopeful, Positioned
    <3> QED
      BY <1>2, <1>3, <1>4, <1>5, <2>1, <2>2, <3>1 DEF CallInv, CallKnows, Seeks, CurrentNode
  <2>4. /\ op[Scanner] \in {"seek", "next"} /\ a \in Key /\ a \in Bytes /\ rep[n] \in Bytes
        /\ l \in 0 .. KeyLen - 1 /\ l \in 0 .. KeyLen /\ start[n] \in Nat /\ start[n] <= l
        /\ KeyLen \in Nat /\ l \in Nat /\ l + 1 \in Nat /\ l + 1 <= KeyLen /\ l + 1 \in 1 .. KeyLen
    <3>1. op[Scanner] \in {"seek", "next"} /\ a \in Key
      BY <1>1, <1>3, <1>4, <1>5, <2>2 DEF ScanTypes
    <3>2. l \in 0 .. KeyLen - 1 /\ start[n] \in 0 .. KeyLen /\ start[n] <= l /\ rep[n] \in Bytes
      BY <1>4, <1>5, <2>1, <2>2, NodeFacts, TreeFacts
    <3> QED
      BY <3>1, <3>2, KeyBytes, KeyAssumption
  <2>5. x = a[l + 1] /\ x \in Nat
    <3>1. x = a[l + 1] /\ x \in Byte
      BY <1>2, <2>2, <2>3, <2>4, NextByteIs
    <3> QED
      BY <3>1, KeyAssumption
  <2>6. /\ op'[Scanner] = op[Scanner] /\ key'[Scanner] = key[Scanner] /\ steady' = steady
        /\ top' = e /\ valid'
    BY <1>3, <1>10 DEF opVars, callVars, top, valid
  <2>7. ASSUME NEW k \in Key, SameTo(k, rep[c], end[c]) PROVE Passed(k)
    <3>1. SameTo(k, rep[n], l) /\ k[l + 1] = b
      BY <1>4, <1>5, <1>6, <2>2, <2>7, KidKeys
    <3>2. Further(k[l + 1], a[l + 1])
      BY <1>2, <1>6, <2>5, <3>1 DEF siblings, Further
    <3>3. SameTo(k, a, (l + 1) - 1)
      BY <2>3, <2>4, <3>1 DEF SameTo
    <3>4. AheadOf(k, a, l + 1)
      <4>1. l + 1 \in 1 .. l + 1
        BY <2>4
      <4> QED
        BY <3>2, <3>3, <4>1 DEF AheadOf
    <3>5. AheadOf(k, a, KeyLen)
      BY <2>4, <3>4, AheadLonger
    <3> QED
      BY <1>5, <2>2, <2>4, <3>5, PassedFacts
  <2>8. ASSUME NEW k \in steady, Passed(k)
        PROVE  Through(rep, end, k, e) \/ Onward(rep, end, k, e)
    <3>1. k \in Key /\ map[k] # Nil /\ k \in Bytes
      BY <1>1, <1>3, KeyBytes DEF ScanTypes, bound
    <3>2. ~AheadOf(a, k, KeyLen)
      BY <1>5, <2>2, <2>4, <2>8, <3>1, PassedFacts
    <3>3. SameTo(k, rep[n], l) \/ AheadOf(k, rep[n], l)
      BY <2>3, <2>4, <3>1, <3>2, NotBehind
    <3>4. ASSUME SameTo(k, rep[n], l) PROVE k[l + 1] = b \/ Further(k[l + 1], b)
      <4>1. SameTo(k, rep[n], start[n])
        BY <2>4, <3>4, AheadLonger
      <4>2. k[l + 1] \in DOMAIN nodes[n].kids
        BY <1>4, <1>5, <2>1, <2>2, <3>1, <4>1, BoundLeads
      <4>3. ~Further(a[l + 1], k[l + 1])
        <5>1. ASSUME Further(a[l + 1], k[l + 1]) PROVE FALSE
          <6>1. SameTo(a, k, (l + 1) - 1) /\ l + 1 \in 1 .. KeyLen
            BY <2>3, <2>4, <3>4 DEF SameTo
          <6>2. AheadOf(a, k, KeyLen)
            BY <5>1, <6>1 DEF AheadOf
          <6> QED
            BY <3>2, <6>2
        <5> QED
          BY <5>1
      <4>4. a[l + 1] # k[l + 1]
        BY <1>3, <2>5, <4>2
      <4>5. Further(k[l + 1], a[l + 1])
        BY <2>4, <3>1, <4>3, <4>4, ByteOrder
      <4>6. k[l + 1] \in S
        BY <1>2, <2>5, <4>2, <4>5 DEF siblings, Further
      <4>7. k[l + 1] \in Nat /\ b \in Nat
        BY <1>6, <2>4, <3>1, ByteOrder, KeyAssumption
      <4> QED
        BY <1>6, <4>6, <4>7 DEF Further
    <3> QED
      BY <1>5, <1>9, <2>2, <3>3, <3>4 DEF Through, Onward
  <2>9. Finds(rep, end)'
    BY <1>3, <1>5, <1>8, <2>6, <2>7, <2>8, OrderStill
       DEF Finds, ThisNode, Traversal, Positioned
  <2> QED
    BY <1>5, <1>8, <2>9 DEF CallKnows
<1> QED
  BY <1>11, <1>12, <1>13, <1>14, <1>15 DEF StackInv

\* A seek runs into a dead end.
LEMMA SeekDeadEndKeeps ==
    ASSUME NEW tree, NEW rep, NEW end, NEW start, View(tree, rep, end, start), OnThreads,
           StackInv(tree, rep, end, start), CallInv(rep, end, start), seek_dead_end
    PROVE  StackInv(tree, rep, end, start)' /\ CallInv(rep, end, start)'
<1>1. /\ ScanTypes /\ StackFits(rep, end) /\ DescentFits(rep, end)
      /\ EntriesHold(end, start, stack) /\ DescentHolds(end, start)
  BY DEF StackInv
<1>2. PICK n, v, p, w, x, cs :
         /\ n = ThisNode /\ v = ThisVer /\ p = at[Scanner]["parent"] /\ w = ver[Scanner]["parent"]
         /\ x = NextByte(Scanner) /\ cs = <<CheckOf(p, w), CheckOf(n, v)>>
  OBVIOUS
<1>3. /\ pc[Scanner] = "find_child" /\ todo[Scanner] = <<>> /\ x \notin DOMAIN nodes[n].kids
      /\ siblings(nodes[n], x, fwd) = {}
      /\ stack' = (IF stack # <<>> THEN Front(stack) ELSE stack) /\ lost' = (lost \/ stack # <<>>)
      /\ todo' = [todo EXCEPT ![Scanner] = cs] /\ pc' = [pc EXCEPT ![Scanner] = "backtrack"]
      /\ UNCHANGED <<opVars, rcsVars, torn, scan, walk, after, callVars>>
      /\ UNCHANGED <<root, nodes, word, map>> /\ held' = held
  BY <1>2 DEF seek_dead_end, Here, Ready, pop, valid, PlanChecks, Check, Untouched, Unread, treeVars,
              ThisNode, ThisVer, HasChild, NodeOf, Beyond, Goto
<1>4. /\ TreeFits(tree, rep, end, start) /\ Descending
      /\ IsUsed(n) /\ n \in Node /\ n \in Lock /\ n # Nil /\ Past(n, v) /\ v \in Nat
      /\ stack \in Seq(StackEntry) /\ StackPath(rep, end, stack)
      /\ word[n] = v => n \in tree /\ start[n] <= Above(end, stack, Len(stack) + 1)
  BY <1>2, <1>3, AtNode
<1>5. walk = "seek" /\ IsInode(n) /\ after = Positioned /\ fwd \in BOOLEAN
  BY <1>1, <1>2, <1>3, <1>4 DEF ScanTypes, DescentFits
<1>6. /\ todo'[Scanner] = cs /\ PastChecks(cs) /\ pc'[Scanner] = "backtrack"
      /\ AllCurrent(cs) => word[n] = v
  <2>1. p \in Lock /\ w \in Nat /\ Past(p, w)
    BY <1>1, <1>2, <1>4, AtParent
  <2>2. /\ CheckOf(n, v) \in Checks /\ CheckOf(n, v).on = n /\ CheckOf(n, v).ver = v
        /\ CheckOf(p, w) \in Checks /\ CheckOf(p, w).on = p /\ CheckOf(p, w).ver = w
    BY <1>4, <2>1, CheckIs
  <2>3. todo'[Scanner] = cs /\ pc'[Scanner] = "backtrack"
    BY <1>3, ScannerAssumption DEF OnThreads, IsOnThreads
  <2> QED
    BY <1>2, <1>4, <2>1, <2>2, <2>3, ChecksFew
<1>7. /\ StackPath(rep, end, stack') /\ EntriesHold(end, start, stack')
      /\ stack' # <<>> => stack # <<>> /\ IsInode(Last(stack').node)
  <2>1. CASE stack = <<>>
    BY <1>1, <1>3, <1>4, <2>1
  <2>2. CASE stack # <<>>
    BY <1>1, <1>3, <1>4, <2>2, PopFits, PopHolds
  <2> QED
    BY <2>1, <2>2
<1>8. ~Descending'
  BY <1>6 DEF Descending
<1>11. ScanTypes'
  <2>1. lost' \in BOOLEAN
    BY <1>1, <1>3 DEF ScanTypes
  <2> QED
    BY <1>1, <1>3, <1>4, <1>5, <1>6, <2>1, Still
       DEF ScanTypes, ScanLabels, opVars, rcsVars, callVars, Descending, fwd
<1>12. StackFits(rep, end)'
  BY <1>3, <1>6, <1>7, Still DEF StackFits, top, valid
<1>13. EntriesHold(end, start, stack)'
  BY <1>3, <1>7, Still
<1>14. CallInv(rep, end, start)'
  <2>0. pc'[Scanner] = "backtrack" /\ valid' => lost'
    BY <1>3, <1>7 DEF valid
  <2> SUFFICES ASSUME Hopeful' PROVE CallKnows(rep, end, start)'
    BY <2>0 DEF CallInv
  <2>1. word[n] = v /\ n \in tree /\ ~lost /\ Scanner \notin torn /\ stack = <<>>
    <3>1. AllCurrent(cs) /\ ~lost'
      BY <1>3, <1>6, Still DEF Hopeful
    <3>2. Scanner \notin torn
      BY <1>1, <1>3 DEF ScanTypes
    <3> QED
      BY <1>3, <1>4, <1>6, <3>1, <3>2
  <2>2. PICK a, l : a = key[Scanner] /\ l = end[n]
    OBVIOUS
  <2>3. depth[Scanner] = l /\ SameTo(a, rep[n], l)
    <3>1. Hopeful
      BY <1>3, <1>4, <1>5, <2>1, ChecksFew DEF Hopeful, Positioned
    <3> QED
      BY <1>2, <1>3, <1>4, <1>5, <2>1, <2>2, <3>1 DEF CallInv, CallKnows, Seeks, CurrentNode
  <2>4. /\ op[Scanner] \in {"seek", "next"} /\ a \in Key /\ a \in Bytes /\ rep[n] \in Bytes
        /\ l \in 0 .. KeyLen - 1 /\ start[n] = 0 /\ l + 1 \in 1 .. KeyLen /\ l \in Nat
    <3>1. op[Scanner] \in {"seek", "next"} /\ a \in Key
      BY <1>1, <1>3, <1>4, <1>5, <2>2 DEF ScanTypes
    <3>2. l \in 0 .. KeyLen - 1 /\ start[n] \in 0 .. KeyLen /\ rep[n] \in Bytes
      BY <1>4, <1>5, <2>1, <2>2, NodeFacts
    <3>3. start[n] <= 0
      BY <1>4, <2>1, AboveIs
    <3> QED
      BY <3>1, <3>2, <3>3, KeyBytes, KeyAssumption
  <2>5. x = a[l + 1] /\ x \in Nat
    <3>1. x = a[l + 1] /\ x \in Byte
      BY <1>2, <2>2, <2>3, <2>4, NextByteIs
    <3> QED
      BY <3>1, KeyAssumption
  <2>6. op'[Scanner] = op[Scanner] /\ key'[Scanner] = key[Scanner] /\ steady' = steady
    BY <1>3 DEF opVars, callVars
  <2>7. ASSUME NEW k \in steady, Passed(k) PROVE FALSE
    <3>1. k \in Key /\ map[k] # Nil /\ k \in Bytes
      BY <1>1, <1>3, KeyBytes DEF ScanTypes, bound
    <3>2. ~AheadOf(a, k, KeyLen)
      BY <1>5, <2>2, <2>4, <2>7, <3>1, PassedFacts
    <3>3. SameTo(k, rep[n], start[n])
      BY <2>4 DEF SameTo
    <3>4. SameTo(k, rep[n], l) /\ k[l + 1] \in DOMAIN nodes[n].kids
      BY <1>4, <1>5, <2>1, <2>2, <3>1, <3>3, BoundLeads
    <3>5. a[l + 1] # k[l + 1] /\ ~Further(k[l + 1], a[l + 1])
      BY <1>3, <2>5, <3>4 DEF siblings, Further
    <3>6. Further(a[l + 1], k[l + 1])
      BY <2>4, <3>1, <3>5, ByteOrder
    <3>7. SameTo(a, k, (l + 1) - 1)
      BY <2>3, <2>4, <3>4 DEF SameTo
    <3>8. AheadOf(a, k, KeyLen)
      BY <2>4, <3>6, <3>7 DEF AheadOf
    <3> QED
      BY <3>2, <3>8
  <2> QED
    BY <1>3, <1>6, <1>8, <2>6, <2>7, OrderStill DEF CallKnows
<1> QED
  BY <1>8, <1>11, <1>12, <1>13, <1>14 DEF StackInv, DescentFits, DescentHolds
===============================================================================
