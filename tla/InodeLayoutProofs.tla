--------------------------- MODULE InodeLayoutProofs ---------------------------
(***************************************************************************)
(* Proofs about InodeLayout for any number of byte values and any          *)
(* capacities of the classes that LayoutAssumption allows.                 *)
(***************************************************************************)
EXTENDS InodeLayout, FiniteSetTheorems, WellFoundedInduction, TLAPS

\* The arrays ks and cs of m positions hold the bytes of S in order in the first k,
\* each with its child; the other positions hold anything.
InOrder(ks, cs, m, k, S) ==
    /\ m \in Nat /\ k \in 0 .. m
    /\ ks \in [0 .. m - 1 -> Byte]
    /\ cs \in [0 .. m - 1 -> Byte \cup {Nil}]
    /\ \A i \in 0 .. k - 1 : ks[i] \in S /\ cs[i] = ks[i]
    /\ \A i, j \in 0 .. k - 1 : i < j => ks[i] < ks[j]
    /\ \A b \in S : \E i \in 0 .. k - 1 : ks[i] = b

\* child_indexes and children of an inode_48 are inverse to each other.
Paired(is, cs, S) ==
    /\ is \in [Byte -> Pos(3) \cup {Empty}]
    /\ cs \in [Pos(3) -> S \cup {Nil}]
    /\ \A b \in Byte : IF b \in S THEN is[b] # Empty /\ cs[is[b]] = b ELSE is[b] = Empty
    /\ \A i \in Pos(3) : cs[i] # Nil => is[cs[i]] = i

\* What an inode over the bytes S looks like.
Holds(n, S) ==
    /\ S \in SUBSET Byte
    /\ n.class \in 1 .. 4
    /\ Cardinality(S) \in min_size(n.class) .. Cap[n.class]
    /\ n.count = Cardinality(S) % Bytes
    /\ n.class \in {1, 2} => InOrder(n.keys, n.children, Cap[n.class], Cardinality(S), S)
    /\ n.class = 3 => Paired(n.child_indexes, n.children, S)
    /\ n.class = 4 => /\ n.children \in [Byte -> Byte \cup {Nil}]
                      /\ \A b \in Byte : n.children[b] = IF b \in S THEN b ELSE Nil

LayoutInv == node # None => Holds(node, present)

-------------------------------------------------------------------------------
(***************************************************************************)
(* Least and greatest elements, and the order of the elements of a set.    *)
(***************************************************************************)
LEMMA LeastExists ==
    ASSUME NEW S \in SUBSET Nat, S # {}
    PROVE  Least(S) \in S /\ \A y \in S : Least(S) <= y
<1>1. PICK x \in S : \A y \in S : ~(<<y, x>> \in OpToRel(<, Nat))
  BY NatLessThanWellFounded, WFMin
<1>2. OpToRel(<, Nat) = {ss \in Nat \X Nat : ss[1] < ss[2]}
  BY Zenon DEF OpToRel
<1>3. \A y \in S : ~(<<y, x>> \in {ss \in Nat \X Nat : ss[1] < ss[2]})
  BY <1>1, <1>2, Zenon
<1>4. ASSUME NEW y \in S PROVE x <= y
  <2>1. <<y, x>> \in Nat \X Nat /\ ~(<<y, x>>[1] < <<y, x>>[2])
    BY <1>3
  <2> QED
    BY <2>1
<1> QED
  BY <1>4 DEF Least

LEMMA GreatestExists ==
    ASSUME NEW m \in Nat, NEW S \in SUBSET (0 .. m), S # {}
    PROVE  Greatest(S) \in S /\ \A y \in S : Greatest(S) >= y
<1> DEFINE T == {m - x : x \in S}
<1>1. T \in SUBSET Nat /\ T # {}
  <2>1. \A x \in S : m - x \in Nat
    OBVIOUS
  <2> QED
    BY <2>1
<1>2. Least(T) \in T /\ \A y \in T : Least(T) <= y
  BY <1>1, LeastExists
<1>3. PICK x \in S : Least(T) = m - x
  BY <1>2
<1>4. ASSUME NEW y \in S PROVE x >= y
  <2>1. m - y \in T
    OBVIOUS
  <2>2. m - x <= m - y
    BY <1>2, <1>3, <2>1
  <2> QED
    BY <2>2
<1> QED
  BY <1>4 DEF Greatest

\* A part of 0 .. m - 1 that has everything below each of its elements is as long as
\* it has elements.
LEMMA InitialSegment ==
    ASSUME NEW m \in Nat, NEW A \in SUBSET (0 .. m - 1),
           \A i \in A : \A j \in 0 .. i : j \in A
    PROVE  Cardinality(A) \in 0 .. m /\ A = 0 .. Cardinality(A) - 1
<1> DEFINE p == Least((0 .. m) \ A)
<1>1. p \in (0 .. m) \ A /\ \A y \in (0 .. m) \ A : p <= y
  <2>1. (0 .. m) \ A \in SUBSET Nat /\ m \in (0 .. m) \ A
    OBVIOUS
  <2> QED
    BY <2>1, LeastExists
<1> HIDE DEF p
<1>2. \A i \in A : i \in 0 .. p - 1
  BY <1>1
<1>3. \A i \in 0 .. p - 1 : i \in A
  BY <1>1
<1>4. A = 0 .. p - 1
  BY <1>2, <1>3, Zenon
<1>5. Cardinality(0 .. p - 1) = p
  <2>1. p \in Nat /\ 0 \in Int /\ p - 1 \in Int
    BY <1>1
  <2> QED
    BY <2>1, FS_Interval
<1> QED
  BY <1>1, <1>4, <1>5

LEMMA ByteNat == Byte \subseteq Nat
BY LayoutAssumption DEF Byte

LEMMA BytesFinite ==
    ASSUME NEW S \in SUBSET Byte
    PROVE  IsFiniteSet(S) /\ Cardinality(S) \in Nat /\ Cardinality(S) <= Bytes
<1>1. Bytes \in Nat /\ Bytes > 0 /\ Bytes - 1 \in Int /\ 0 \in Int
  BY LayoutAssumption
<1>2. IsFiniteSet(0 .. Bytes - 1) /\ Cardinality(0 .. Bytes - 1) = Bytes
  BY <1>1, FS_Interval
<1> QED
  BY <1>2, FS_Subset, FS_CardinalityType DEF Byte

\* Rank numbers the elements of a set of bytes in their order, Nth is its inverse.
LEMMA RankOrder ==
    ASSUME NEW S \in SUBSET Byte, NEW b \in S
    PROVE  /\ Rank(S, b) \in 0 .. Cardinality(S) - 1
           /\ \A c \in S : b < c => Rank(S, b) < Rank(S, c)
<1> DEFINE below(x) == S \cap (0 .. x - 1)
<1>0. b \in Nat
  BY LayoutAssumption DEF Byte
<1>1. \A x \in S : /\ IsFiniteSet(below(x)) /\ Cardinality(below(x)) \in Nat
  <2> SUFFICES ASSUME NEW x \in S
               PROVE  IsFiniteSet(below(x)) /\ Cardinality(below(x)) \in Nat
    OBVIOUS
  <2>1. below(x) \in SUBSET Byte
    OBVIOUS
  <2> QED
    BY <2>1, BytesFinite
<1>2. Cardinality(below(b) \cup {b}) = Cardinality(below(b)) + 1
  <2>1. b \notin below(b)
    BY <1>0
  <2> QED
    BY <1>1, <2>1, FS_AddElement
<1>3. ASSUME NEW T \in SUBSET S, below(b) \cup {b} \subseteq T
      PROVE  Cardinality(below(b)) < Cardinality(T)
  <2>1. IsFiniteSet(T) /\ Cardinality(T) \in Nat
    BY BytesFinite
  <2>2. Cardinality(below(b) \cup {b}) <= Cardinality(T)
    BY <1>3, <2>1, FS_Subset
  <2> QED
    BY <1>1, <1>2, <2>1, <2>2
<1>4. Rank(S, b) \in 0 .. Cardinality(S) - 1
  <2>1. Cardinality(below(b)) < Cardinality(S) /\ Cardinality(S) \in Nat
    BY <1>3, BytesFinite
  <2> QED
    BY <1>1, <2>1 DEF Rank
<1>5. ASSUME NEW c \in S, b < c PROVE Rank(S, b) < Rank(S, c)
  <2>1. c \in Nat
    BY LayoutAssumption DEF Byte
  <2>2. below(b) \cup {b} \subseteq below(c)
    BY <1>0, <1>5, <2>1
  <2> QED
    BY <1>3, <2>2 DEF Rank
<1> QED
  BY <1>4, <1>5

LEMMA NthOrder ==
    ASSUME NEW S \in SUBSET Byte
    PROVE  /\ \A i \in 0 .. Cardinality(S) - 1 : Nth(S, i) \in S /\ Rank(S, Nth(S, i)) = i
           /\ \A b \in S : Nth(S, Rank(S, b)) = b
<1> DEFINE m == Cardinality(S)
           f == [b \in S |-> Rank(S, b)]
<1>1. m \in Nat /\ IsFiniteSet(S)
  BY BytesFinite
<1>2. \A b, c \in S : b # c => Rank(S, b) # Rank(S, c)
  <2> SUFFICES ASSUME NEW b \in S, NEW c \in S, b # c PROVE Rank(S, b) # Rank(S, c)
    OBVIOUS
  <2>1. b < c \/ c < b
    BY LayoutAssumption DEF Byte
  <2>2. Rank(S, b) \in Int /\ Rank(S, c) \in Int
    BY <1>1, RankOrder
  <2>3. Rank(S, b) < Rank(S, c) \/ Rank(S, c) < Rank(S, b)
    BY <2>1, RankOrder
  <2> QED
    BY <2>2, <2>3
<1>3. f \in Injection(S, 0 .. m - 1)
  BY <1>2, RankOrder DEF Injection, IsInjective
<1>4. IsFiniteSet(0 .. m - 1) /\ Cardinality(0 .. m - 1) = m
  <2>1. m - 1 \in Int /\ 0 \in Int
    BY <1>1
  <2> QED
    BY <1>1, <2>1, FS_Interval
<1>5. f \in Surjection(S, 0 .. m - 1)
  BY <1>3, <1>4, FS_Injection
<1>6. ASSUME NEW i \in 0 .. m - 1 PROVE Nth(S, i) \in S /\ Rank(S, Nth(S, i)) = i
  <2>1. \E b \in S : Rank(S, b) = i
    BY <1>5 DEF Surjection
  <2> QED
    BY <2>1 DEF Nth
<1>7. ASSUME NEW b \in S PROVE Nth(S, Rank(S, b)) = b
  <2>1. \E c \in S : Rank(S, c) = Rank(S, b)
    OBVIOUS
  <2>2. Nth(S, Rank(S, b)) \in S /\ Rank(S, Nth(S, Rank(S, b))) = Rank(S, b)
    BY <2>1 DEF Nth
  <2> QED
    BY <1>2, <2>2
<1> QED
  BY <1>6, <1>7

LEMMA NthIncreases ==
    ASSUME NEW S \in SUBSET Byte, NEW i \in 0 .. Cardinality(S) - 1,
           NEW j \in 0 .. Cardinality(S) - 1, i < j
    PROVE  Nth(S, i) < Nth(S, j)
<1>1. /\ Nth(S, i) \in S /\ Rank(S, Nth(S, i)) = i
      /\ Nth(S, j) \in S /\ Rank(S, Nth(S, j)) = j
  BY NthOrder
<1>2. Nth(S, j) < Nth(S, i) => j < i
  BY <1>1, RankOrder
<1>3. Nth(S, j) \in Nat /\ Nth(S, i) \in Nat
  BY <1>1, ByteNat
<1>4. i \in Nat /\ j \in Nat
  BY BytesFinite
<1> QED
  BY <1>1, <1>2, <1>3, <1>4

\* children_count is one byte wide.
LEMMA CountWraps ==
    /\ \A x \in 0 .. Bytes - 1 : x % Bytes = x
    /\ Bytes % Bytes = 0
    /\ (0 - 1) % Bytes = Bytes - 1
<1>1. Bytes \in Nat /\ Bytes > 0
  BY LayoutAssumption
<1> QED
  BY <1>1

-------------------------------------------------------------------------------
(***************************************************************************)
(* The sorted arrays of inode_4 and inode_16.                              *)
(***************************************************************************)
\* Position p divides the first k keys into the ones before b and the ones after b.
Divides(ks, k, b, p) ==
    /\ p \in 0 .. k
    /\ \A i \in 0 .. k - 1 : IF i < p THEN ks[i] < b ELSE b < ks[i]

LEMMA OrderedKeys ==
    ASSUME NEW ks, NEW cs, NEW m, NEW k, NEW S, InOrder(ks, cs, m, k, S)
    PROVE  /\ m \in Nat /\ k \in Nat /\ k <= m
           /\ \A i \in 0 .. m - 1 : ks[i] \in Byte /\ ks[i] \in Nat
           /\ \A i, j \in 0 .. k - 1 : i < j => ks[i] < ks[j]
           /\ \A i, j \in 0 .. k - 1 : ks[i] = ks[j] => i = j
<1>1. m \in Nat /\ k \in Nat /\ k <= m /\ \A i \in 0 .. m - 1 : ks[i] \in Byte
  BY DEF InOrder
<1>2. \A i \in 0 .. m - 1 : ks[i] \in Nat
  BY <1>1, ByteNat
<1>3. \A i, j \in 0 .. k - 1 : i < j => ks[i] < ks[j]
  BY DEF InOrder
<1>4. ASSUME NEW i \in 0 .. k - 1, NEW j \in 0 .. k - 1, ks[i] = ks[j] PROVE i = j
  <2>1. i \in 0 .. m - 1 /\ j \in 0 .. m - 1
    BY <1>1
  <2>2. ~(i < j) /\ ~(j < i)
    BY <1>2, <1>3, <1>4, <2>1
  <2> QED
    BY <1>1, <2>2
<1> QED
  BY <1>1, <1>2, <1>3, <1>4

\* get_insert_pos of inode_4 counts the keys before the new one.
LEMMA CountedPosition ==
    ASSUME NEW ks, NEW cs, NEW m, NEW k, NEW S, InOrder(ks, cs, m, k, S),
           NEW b \in Byte, b \notin S
    PROVE  Divides(ks, k, b, Cardinality({i \in 0 .. k - 1 : ks[i] <= b}))
<1> DEFINE A == {i \in 0 .. k - 1 : ks[i] <= b}
<1>0. b \in Nat
  BY ByteNat
<1>1. /\ m \in Nat /\ k \in Nat /\ k <= m
      /\ \A i \in 0 .. m - 1 : ks[i] \in Nat
      /\ \A i, j \in 0 .. k - 1 : i < j => ks[i] < ks[j]
  BY OrderedKeys
<1>2. \A i \in 0 .. k - 1 : ks[i] # b
  BY DEF InOrder
<1>3. ASSUME NEW i \in A, NEW j \in 0 .. i PROVE j \in A
  <2>1. j \in 0 .. k - 1 /\ ks[j] \in Nat /\ ks[i] \in Nat /\ ks[i] <= b /\ i \in 0 .. k - 1
    BY <1>1
  <2>2. j = i \/ j < i
    BY <1>1
  <2> QED
    BY <1>0, <1>1, <2>1, <2>2
<1>4. A \in SUBSET (0 .. k - 1)
  OBVIOUS
<1>5. Cardinality(A) \in 0 .. k /\ A = 0 .. Cardinality(A) - 1
  <2> HIDE DEF A
  <2> QED
    BY <1>1, <1>3, <1>4, InitialSegment
<1>6. ASSUME NEW i \in 0 .. k - 1
      PROVE  IF i < Cardinality(A) THEN ks[i] < b ELSE b < ks[i]
  <2>1. i \in A <=> ks[i] <= b
    OBVIOUS
  <2> HIDE DEF A
  <2>2. i \in A <=> i < Cardinality(A)
    BY <1>1, <1>5
  <2>3. ks[i] \in Nat /\ ks[i] # b
    BY <1>1, <1>2
  <2> QED
    BY <1>0, <2>1, <2>2, <2>3
<1> QED
  BY <1>5, <1>6 DEF Divides

\* get_sorted_key_array_insert_position of inode_16 finds the first key after it.
LEMMA SearchedPosition ==
    ASSUME NEW ks, NEW cs, NEW m, NEW k, NEW S, InOrder(ks, cs, m, k, S),
           NEW b \in Byte, b \notin S
    PROVE  Divides(ks, k, b, Least({i \in 0 .. k - 1 : b <= ks[i]} \cup {k}))
<1> DEFINE A == {i \in 0 .. k - 1 : b <= ks[i]} \cup {k}
           p == Least(A)
<1>0. b \in Nat
  BY ByteNat
<1>1. /\ m \in Nat /\ k \in Nat /\ k <= m
      /\ \A i \in 0 .. m - 1 : ks[i] \in Nat
      /\ \A i, j \in 0 .. k - 1 : i < j => ks[i] < ks[j]
  BY OrderedKeys
<1>2. \A i \in 0 .. k - 1 : ks[i] # b
  BY DEF InOrder
<1>3. A \in SUBSET Nat /\ A # {} /\ A \subseteq 0 .. k
  BY <1>1
<1>4. p \in A /\ \A y \in A : p <= y
  BY <1>3, LeastExists
<1>5. p \in 0 .. k
  BY <1>3, <1>4
<1>6. ASSUME NEW i \in 0 .. k - 1
      PROVE  IF i < p THEN ks[i] < b ELSE b < ks[i]
  <2>1. ks[i] \in Nat /\ ks[i] # b
    BY <1>1, <1>2
  <2>2. i < p => i \notin A
    BY <1>1, <1>4, <1>5
  <2>3. i < p => ~(b <= ks[i])
    BY <2>2
  <2>4. p < k => p \in 0 .. k - 1 /\ b <= ks[p] /\ ks[p] \in Nat
    BY <1>1, <1>4, <1>5
  <2>5. ~(i < p) => b <= ks[i]
    BY <1>0, <1>1, <1>5, <2>1, <2>4
  <2> QED
    BY <1>0, <2>1, <2>3, <2>5
<1> QED
  BY <1>5, <1>6 DEF Divides

\* Adding a child keeps the keys in order and every child with its key.
LEMMA ShiftedInOrder ==
    ASSUME NEW ks, NEW cs, NEW m, NEW k, NEW S, InOrder(ks, cs, m, k, S), k < m,
           NEW b \in Byte, NEW p, Divides(ks, k, b, p)
    PROVE  InOrder(Shifted(ks, p, k, b), Shifted(cs, p, k, b), m, k + 1, S \cup {b})
<1> DEFINE K == Shifted(ks, p, k, b)
           C == Shifted(cs, p, k, b)
<1>1. /\ m \in Nat /\ k \in Nat /\ p \in 0 .. k
      /\ ks \in [0 .. m - 1 -> Byte] /\ cs \in [0 .. m - 1 -> Byte \cup {Nil}]
  BY DEF InOrder, Divides
<1>2. /\ K \in [0 .. m - 1 -> Byte]
      /\ \A i \in 0 .. m - 1 :
            K[i] = IF i = p THEN b ELSE IF p < i /\ i <= k THEN ks[i - 1] ELSE ks[i]
  BY <1>1 DEF Shifted
<1>3. /\ C \in [0 .. m - 1 -> Byte \cup {Nil}]
      /\ \A i \in 0 .. m - 1 :
            C[i] = IF i = p THEN b ELSE IF p < i /\ i <= k THEN cs[i - 1] ELSE cs[i]
  BY <1>1 DEF Shifted
<1> HIDE DEF K, C
<1>4. /\ \A i \in 0 .. m - 1 : ks[i] \in Nat
      /\ \A i, j \in 0 .. k - 1 : i < j => ks[i] < ks[j]
      /\ b \in Nat
  BY OrderedKeys, ByteNat
<1>5. \A i \in 0 .. k - 1 : IF i < p THEN ks[i] < b ELSE b < ks[i]
  BY DEF Divides
<1>6. ASSUME NEW i \in 0 .. k
      PROVE  /\ K[i] \in S \cup {b} /\ C[i] = K[i]
             /\ IF i = p THEN K[i] = b
                ELSE IF i < p THEN i \in 0 .. k - 1 /\ K[i] = ks[i]
                ELSE i - 1 \in 0 .. k - 1 /\ K[i] = ks[i - 1]
  <2>0. i \in 0 .. m - 1
    BY <1>1
  <2>1. CASE i = p
    BY <1>2, <1>3, <2>0, <2>1
  <2>2. CASE i < p
    <3>1. i \in 0 .. k - 1
      BY <1>1, <2>2
    <3>2. K[i] = ks[i] /\ C[i] = cs[i]
      BY <1>1, <1>2, <1>3, <2>0, <2>2
    <3> QED
      BY <1>1, <2>2, <3>1, <3>2 DEF InOrder
  <2>3. CASE p < i
    <3>1. i - 1 \in 0 .. k - 1
      BY <1>1, <2>3
    <3>2. K[i] = ks[i - 1] /\ C[i] = cs[i - 1]
      BY <1>1, <1>2, <1>3, <2>0, <2>3
    <3> QED
      BY <1>1, <2>3, <3>1, <3>2 DEF InOrder
  <2> QED
    BY <1>1, <2>1, <2>2, <2>3
<1>7. ASSUME NEW i \in 0 .. k, NEW j \in 0 .. k, i < j PROVE K[i] < K[j]
  <2>1. CASE i = p
    <3>1. j - 1 \in 0 .. k - 1 /\ K[j] = ks[j - 1] /\ K[i] = b /\ ~(j - 1 < p)
      BY <1>1, <1>6, <1>7, <2>1
    <3> QED
      BY <1>5, <3>1
  <2>2. CASE j = p
    <3>1. i \in 0 .. k - 1 /\ K[i] = ks[i] /\ K[j] = b /\ i < p
      BY <1>1, <1>6, <1>7, <2>2
    <3> QED
      BY <1>5, <3>1
  <2>3. CASE j < p
    <3>1. i \in 0 .. k - 1 /\ j \in 0 .. k - 1 /\ K[i] = ks[i] /\ K[j] = ks[j]
      BY <1>1, <1>6, <1>7, <2>3
    <3> QED
      BY <1>4, <1>7, <3>1
  <2>4. CASE p < i
    <3>1. /\ i - 1 \in 0 .. k - 1 /\ j - 1 \in 0 .. k - 1 /\ i - 1 < j - 1
          /\ K[i] = ks[i - 1] /\ K[j] = ks[j - 1]
      BY <1>1, <1>6, <1>7, <2>4
    <3> QED
      BY <1>4, <3>1
  <2>5. CASE i < p /\ p < j
    <3>1. /\ i \in 0 .. k - 1 /\ j - 1 \in 0 .. k - 1 /\ ~(j - 1 < p)
          /\ K[i] = ks[i] /\ K[j] = ks[j - 1]
      BY <1>1, <1>6, <1>7, <2>5
    <3>2. ks[i] < b /\ b < ks[j - 1] /\ ks[i] \in Nat /\ ks[j - 1] \in Nat
      BY <1>1, <1>4, <1>5, <2>5, <3>1
    <3> QED
      BY <1>4, <3>1, <3>2
  <2> QED
    BY <1>1, <1>7, <2>1, <2>2, <2>3, <2>4, <2>5
<1>8. ASSUME NEW c \in S \cup {b} PROVE \E i \in 0 .. k : K[i] = c
  <2>1. CASE c = b
    BY <1>1, <1>6, <2>1
  <2>2. CASE c \in S
    <3>1. PICK i \in 0 .. k - 1 : ks[i] = c
      BY <2>2 DEF InOrder
    <3>2. i < p => i \in 0 .. k /\ K[i] = c
      BY <1>1, <1>6, <3>1
    <3>3. ~(i < p) => i + 1 \in 0 .. k /\ K[i + 1] = c
      <4>1. ~(i < p) => i + 1 \in 0 .. k /\ i + 1 # p /\ ~(i + 1 < p) /\ (i + 1) - 1 = i
        BY <1>1, <3>1
      <4> QED
        BY <1>6, <3>1, <4>1
    <3> QED
      BY <3>2, <3>3
  <2> QED
    BY <2>1, <2>2
<1>9. k + 1 \in 0 .. m /\ (k + 1) - 1 = k
  BY <1>1
<1> QED
  BY <1>1, <1>2, <1>3, <1>6, <1>7, <1>8, <1>9 DEF InOrder, K, C

\* The arrays K and C hold what ks and cs hold without position p.
Without(K, C, ks, cs, q, k, p) ==
    /\ q \in Nat /\ k - 1 <= q
    /\ K \in [0 .. q - 1 -> Byte] /\ C \in [0 .. q - 1 -> Byte \cup {Nil}]
    /\ \A i \in 0 .. k - 2 : /\ i < p => K[i] = ks[i] /\ C[i] = cs[i]
                             /\ ~(i < p) => K[i] = ks[i + 1] /\ C[i] = cs[i + 1]

\* Removing the child at position p closes the gap: what is left is in order.
LEMMA WithoutInOrder ==
    ASSUME NEW ks, NEW cs, NEW m, NEW k, NEW S, InOrder(ks, cs, m, k, S),
           NEW p \in 0 .. k - 1, NEW q, NEW K, NEW C, Without(K, C, ks, cs, q, k, p)
    PROVE  InOrder(K, C, q, k - 1, S \ {ks[p]})
<1>1. m \in Nat /\ k \in Nat /\ k <= m /\ k - 1 \in 0 .. q /\ (k - 1) - 1 = k - 2
  BY DEF InOrder, Without
<1>2. /\ \A i, j \in 0 .. k - 1 : i < j => ks[i] < ks[j]
      /\ \A i, j \in 0 .. k - 1 : ks[i] = ks[j] => i = j
  BY OrderedKeys
<1>9. \A i \in 0 .. k - 1 : ks[i] \in S /\ cs[i] = ks[i]
  BY DEF InOrder
<1> DEFINE to(i) == IF i < p THEN i ELSE i + 1
<1>3. ASSUME NEW i \in 0 .. k - 2
      PROVE  to(i) \in 0 .. k - 1 /\ to(i) # p /\ K[i] = ks[to(i)] /\ C[i] = cs[to(i)]
  BY <1>1 DEF Without
<1>4. ASSUME NEW i \in 0 .. k - 2, NEW j \in 0 .. k - 2, i < j PROVE to(i) < to(j)
  BY <1>1, <1>4
<1>5. ASSUME NEW c \in 0 .. k - 1, c # p PROVE \E i \in 0 .. k - 2 : to(i) = c
  <2>1. c < p => c \in 0 .. k - 2 /\ to(c) = c
    BY <1>1
  <2>2. ~(c < p) => c - 1 \in 0 .. k - 2 /\ to(c - 1) = c
    BY <1>1, <1>5
  <2> QED
    BY <2>1, <2>2
<1> HIDE DEF to
<1>6. \A i \in 0 .. k - 2 : K[i] \in S \ {ks[p]} /\ C[i] = K[i]
  BY <1>2, <1>3, <1>9
<1>7. \A i, j \in 0 .. k - 2 : i < j => K[i] < K[j]
  BY <1>2, <1>3, <1>4
<1>8. ASSUME NEW c \in S \ {ks[p]} PROVE \E i \in 0 .. k - 2 : K[i] = c
  <2>1. PICK j \in 0 .. k - 1 : ks[j] = c
    BY DEF InOrder
  <2>2. PICK i \in 0 .. k - 2 : to(i) = j
    BY <1>5, <2>1
  <2> QED
    BY <1>3, <2>1, <2>2
<1> QED
  BY <1>1, <1>6, <1>7, <1>8 DEF InOrder, Without

-------------------------------------------------------------------------------
(***************************************************************************)
(* What the invariant says of the counters, and of find_child.             *)
(***************************************************************************)
LEMMA Capacities ==
    /\ Bytes \in Nat /\ Bytes > 0
    /\ Cap[1] \in Nat /\ Cap[2] \in Nat /\ Cap[3] \in Nat /\ Cap[4] = Bytes
    /\ 2 < Cap[1] /\ Cap[1] + 1 < Cap[2] /\ Cap[2] + 1 < Cap[3] /\ Cap[3] + 1 < Bytes
    /\ min_size(1) = 2 /\ min_size(2) = Cap[1] + 1 /\ min_size(3) = Cap[2] + 1
    /\ min_size(4) = Cap[3] + 1
BY LayoutAssumption DEF min_size

\* Only a full inode_256 has more children than its counter says.
LEMMA CountIsSize ==
    ASSUME NEW n, NEW S, Holds(n, S)
    PROVE  /\ IsFiniteSet(S) /\ Cardinality(S) \in Nat
           /\ n.class < 4 => n.count = Cardinality(S)
           /\ n.class = 4 => n.count = IF Cardinality(S) = Bytes THEN 0 ELSE Cardinality(S)
<1>1. IsFiniteSet(S) /\ Cardinality(S) \in Nat /\ Cardinality(S) <= Bytes
  BY BytesFinite DEF Holds
<1>0. n.count = Cardinality(S) % Bytes
  BY DEF Holds
<1>2. Cardinality(S) < Bytes => n.count = Cardinality(S)
  <2>1. Cardinality(S) < Bytes => Cardinality(S) \in 0 .. Bytes - 1
    BY <1>1, Capacities
  <2> QED
    BY <1>0, <2>1, CountWraps
<1>3. Cardinality(S) = Bytes => n.count = 0
  BY <1>0, CountWraps
<1>4. n.class \in 1 .. 4 /\ Cardinality(S) <= Cap[n.class]
  BY <1>1 DEF Holds
<1>5. n.class < 4 => Cardinality(S) < Bytes
  BY <1>1, <1>4, Capacities
<1> QED
  BY <1>1, <1>2, <1>3, <1>4, <1>5, Capacities

\* The child index of a byte that has a child, and the child there.
LEMMA SortedIndex ==
    ASSUME NEW n, NEW S, Holds(n, S), n.class \in {1, 2}, NEW b \in Byte
    PROVE  /\ b \notin S => positions(n, b) = {}
           /\ b \in S => /\ positions(n, b) # {}
                         /\ child_index(n, b) \in 0 .. n.count - 1
                         /\ n.keys[child_index(n, b)] = b
                         /\ n.children[child_index(n, b)] = b
<1>1. n.count = Cardinality(S) /\ n.count \in Nat
  BY CountIsSize
<1>2. InOrder(n.keys, n.children, Cap[n.class], n.count, S)
  BY <1>1 DEF Holds
<1>3. b \notin S => positions(n, b) = {}
  BY <1>2 DEF InOrder, positions
<1>4. ASSUME b \in S
      PROVE  positions(n, b) # {} /\ Least(positions(n, b)) \in positions(n, b)
  <2>1. positions(n, b) \in SUBSET Nat
    BY <1>1 DEF positions
  <2>2. positions(n, b) # {}
    BY <1>2, <1>4 DEF InOrder, positions
  <2> QED
    BY <2>1, <2>2, LeastExists
<1>5. \A i \in positions(n, b) : i \in 0 .. n.count - 1 /\ n.keys[i] = b /\ n.children[i] = b
  BY <1>2 DEF InOrder, positions
<1> QED
  BY <1>3, <1>4, <1>5 DEF child_index

LEMMA FindInClass ==
    ASSUME NEW n, NEW S, Holds(n, S), NEW b \in Byte
    PROVE  find_child(n, b) = IF b \in S THEN b ELSE Nil
<1>1. CASE n.class \in {1, 2}
  <2>1. n.class <= 2 /\ n.class # 3 /\ n.class # 4
    BY <1>1
  <2>2. find_child(n, b) = IF positions(n, b) = {} THEN Nil
                           ELSE n.children[child_index(n, b)]
    BY <2>1 DEF find_child, get_child
  <2> QED
    BY <1>1, <2>2, SortedIndex
<1>2. CASE n.class = 3
  <2>1. find_child(n, b) = IF n.child_indexes[b] = Empty THEN Nil
                           ELSE n.children[n.child_indexes[b]]
    BY <1>2 DEF find_child, get_child, child_index
  <2> QED
    BY <1>2, <2>1 DEF Holds, Paired
<1>3. CASE n.class = 4
  <2>1. find_child(n, b) = n.children[b]
    BY <1>3 DEF find_child, get_child, child_index
  <2> QED
    BY <1>3, <2>1 DEF Holds
<1> QED
  BY <1>1, <1>2, <1>3 DEF Holds

-------------------------------------------------------------------------------
(***************************************************************************)
(* Adding a child.                                                         *)
(***************************************************************************)
\* The part of Holds that does not depend on the layout.
LEMMA SizeHolds ==
    ASSUME NEW S \in SUBSET Byte, NEW c \in 1 .. 4, NEW k, Cardinality(S) = k,
           k \in min_size(c) .. Cap[c], c # 4
    PROVE  k = Cardinality(S) % Bytes
<1>1. k \in 0 .. Bytes - 1
  BY BytesFinite, Capacities
<1> QED
  BY <1>1, CountWraps

LEMMA OneMore ==
    ASSUME NEW n, NEW S, Holds(n, S), NEW b \in Byte, b \notin S
    PROVE  S \cup {b} \in SUBSET Byte /\ Cardinality(S \cup {b}) = Cardinality(S) + 1
BY CountIsSize, FS_AddElement DEF Holds

LEMMA AddSorted ==
    ASSUME NEW n, NEW S, Holds(n, S), n.class \in {1, 2}, ~is_full(n),
           NEW b \in Byte, b \notin S
    PROVE  Holds(add_to_sorted(n, b), S \cup {b})
<1> DEFINE c == n.class
           p == IF c = 1 THEN get_insert_pos(n, b)
                ELSE get_sorted_key_array_insert_position(n, b)
           r == add_to_sorted(n, b)
<1>1. /\ n.count = Cardinality(S) /\ n.count \in Nat /\ n.count # Cap[c]
      /\ n.count \in min_size(c) .. Cap[c]
  BY CountIsSize DEF Holds, is_full, capacity
<1>2. InOrder(n.keys, n.children, Cap[c], n.count, S)
  BY <1>1 DEF Holds
<1>3. Divides(n.keys, n.count, b, p)
  BY <1>2, CountedPosition, SearchedPosition
     DEF get_insert_pos, get_sorted_key_array_insert_position
<1>4. n.count < Cap[c] /\ n.count + 1 \in min_size(c) .. Cap[c]
  BY <1>1, Capacities
<1>5. /\ r.class = c /\ r.count = n.count + 1
      /\ r.keys = Shifted(n.keys, p, n.count, b)
      /\ r.children = Shifted(n.children, p, n.count, b)
  BY DEF add_to_sorted, Sorted
<1> HIDE DEF p, r
<1>6. InOrder(r.keys, r.children, Cap[c], n.count + 1, S \cup {b})
  BY <1>2, <1>3, <1>4, <1>5, ShiftedInOrder
<1>7. S \cup {b} \in SUBSET Byte /\ Cardinality(S \cup {b}) = n.count + 1
  BY <1>1, OneMore
<1>8. r.count = Cardinality(S \cup {b}) % Bytes
  BY <1>4, <1>5, <1>7, SizeHolds
<1> QED
  BY <1>4, <1>5, <1>6, <1>7, <1>8 DEF Holds, r

\* An inode_48 that is not full has a position without a child.
LEMMA FreePosition ==
    ASSUME NEW n, NEW S, Holds(n, S), n.class = 3, Cardinality(S) < Cap[3]
    PROVE  LET F == {i \in Pos(3) : n.children[i] = Nil}
           IN  Least(F) \in F
<1> DEFINE F == {i \in Pos(3) : n.children[i] = Nil}
<1>1. Paired(n.child_indexes, n.children, S)
  BY DEF Holds
<1>2. F # {}
  <2> SUFFICES ASSUME F = {} PROVE FALSE
    OBVIOUS
  <2>1. \A i \in Pos(3) : n.children[i] \in S /\ n.child_indexes[n.children[i]] = i
    BY <1>1 DEF Paired
  <2>2. n.children \in Injection(Pos(3), S)
    BY <1>1, <2>1 DEF Injection, IsInjective, Paired
  <2>3. IsFiniteSet(S) /\ Cardinality(S) \in Nat
    BY CountIsSize
  <2>4. Cardinality(Pos(3)) <= Cardinality(S)
    BY <2>2, <2>3, FS_Injection
  <2>5. Cap[3] \in Nat /\ Cap[3] - 1 \in Int /\ 0 \in Int /\ ~(0 > Cap[3] - 1)
    BY Capacities
  <2>6. Cardinality(Pos(3)) = Cap[3]
    BY <2>5, FS_Interval DEF Pos
  <2> QED
    BY <2>3, <2>4, <2>5, <2>6
<1>3. F \in SUBSET Nat
  BY Capacities DEF Pos
<1> QED
  BY <1>2, <1>3, LeastExists

LEMMA Add48 ==
    ASSUME NEW n, NEW S, Holds(n, S), n.class = 3, ~is_full(n),
           NEW b \in Byte, b \notin S
    PROVE  Holds(add_to_48(n, b), S \cup {b})
<1> DEFINE p == Least({i \in Pos(3) : n.children[i] = Nil})
           r == add_to_48(n, b)
<1>1. /\ n.count = Cardinality(S) /\ n.count \in Nat /\ n.count # Cap[3]
      /\ n.count \in min_size(3) .. Cap[3]
  BY CountIsSize DEF Holds, is_full, capacity
<1>2. n.count < Cap[3] /\ n.count + 1 \in min_size(3) .. Cap[3]
  BY <1>1, Capacities
<1>3. p \in Pos(3) /\ n.children[p] = Nil
  BY <1>1, <1>2, FreePosition
<1>4. /\ r.class = 3 /\ r.count = n.count + 1
      /\ r.child_indexes = [n.child_indexes EXCEPT ![b] = p]
      /\ r.children = [n.children EXCEPT ![p] = b]
  BY DEF add_to_48, Indexed
<1> HIDE DEF p, r
<1>5. S \cup {b} \in SUBSET Byte /\ Cardinality(S \cup {b}) = n.count + 1
  BY <1>1, OneMore
<1>6. r.count = Cardinality(S \cup {b}) % Bytes
  BY <1>2, <1>4, <1>5, SizeHolds
<1>7. Paired(n.child_indexes, n.children, S) /\ S \in SUBSET Byte
  BY DEF Holds
<1>8. p # Empty /\ b # Nil
  BY <1>3, ByteNat, Capacities DEF Pos, Empty, Nil
<1>9. Paired(r.child_indexes, r.children, S \cup {b})
  <2>1. /\ r.child_indexes \in [Byte -> Pos(3) \cup {Empty}]
        /\ r.children \in [Pos(3) -> (S \cup {b}) \cup {Nil}]
    BY <1>3, <1>4, <1>7 DEF Paired
  <2>2. ASSUME NEW x \in Byte
        PROVE  IF x \in S \cup {b}
               THEN r.child_indexes[x] # Empty /\ r.children[r.child_indexes[x]] = x
               ELSE r.child_indexes[x] = Empty
    <3>1. CASE x = b
      BY <1>3, <1>4, <1>7, <1>8, <3>1 DEF Paired
    <3>2. CASE x # b /\ x \in S
      <4>1. n.child_indexes[x] # Empty /\ n.children[n.child_indexes[x]] = x
        BY <1>7, <3>2 DEF Paired
      <4>2. r.child_indexes[x] = n.child_indexes[x] /\ n.child_indexes[x] \in Pos(3)
        BY <1>4, <1>7, <3>2, <4>1 DEF Paired
      <4>3. x # Nil
        BY ByteNat DEF Nil
      <4>4. n.child_indexes[x] # p
        BY <1>3, <4>1, <4>3
      <4> QED
        BY <1>4, <1>7, <3>2, <4>1, <4>2, <4>4 DEF Paired
    <3>3. CASE x # b /\ x \notin S
      BY <1>4, <1>7, <3>3 DEF Paired
    <3> QED
      BY <3>1, <3>2, <3>3
  <2>3. ASSUME NEW i \in Pos(3), r.children[i] # Nil
        PROVE  r.child_indexes[r.children[i]] = i
    <3>1. CASE i = p
      BY <1>3, <1>4, <1>7, <3>1 DEF Paired
    <3>2. CASE i # p
      <4>1. r.children[i] = n.children[i] /\ n.children[i] \in S
        BY <1>4, <1>7, <2>3, <3>2 DEF Paired
      <4> QED
        BY <1>4, <1>7, <2>3, <4>1 DEF Paired
    <3> QED
      BY <3>1, <3>2
  <2> QED
    BY <2>1, <2>2, <2>3 DEF Paired
<1> QED
  BY <1>2, <1>4, <1>5, <1>6, <1>9 DEF Holds, r

LEMMA Add256 ==
    ASSUME NEW n, NEW S, Holds(n, S), n.class = 4, NEW b \in Byte, b \notin S
    PROVE  Holds(add_to_256(n, b), S \cup {b})
<1> DEFINE r == add_to_256(n, b)
<1>1. /\ r.class = 4 /\ r.count = (n.count + 1) % Bytes
      /\ r.children = [n.children EXCEPT ![b] = b]
  BY DEF add_to_256, Direct
<1> HIDE DEF r
<1>2. S \cup {b} \in SUBSET Byte /\ Cardinality(S \cup {b}) = Cardinality(S) + 1
  BY OneMore
<1>3. /\ Cardinality(S) \in Nat /\ Cardinality(S \cup {b}) <= Bytes
      /\ Cardinality(S) >= min_size(4)
  BY <1>2, BytesFinite DEF Holds
<1>4. n.count = Cardinality(S)
  BY <1>2, <1>3, CountIsSize, Capacities
<1>5. Cardinality(S \cup {b}) \in min_size(4) .. Cap[4]
  BY <1>2, <1>3, Capacities
<1>6. /\ r.children \in [Byte -> Byte \cup {Nil}]
      /\ \A x \in Byte : r.children[x] = IF x \in S \cup {b} THEN x ELSE Nil
  BY <1>1 DEF Holds
<1> QED
  BY <1>1, <1>2, <1>4, <1>5, <1>6 DEF Holds, r

LEMMA FullSize ==
    ASSUME NEW n, NEW S, Holds(n, S), is_full(n), NEW b \in Byte, b \notin S
    PROVE  /\ n.class \in 1 .. 3 /\ n.count = Cap[n.class] /\ Cardinality(S) = Cap[n.class]
           /\ S \cup {b} \in SUBSET Byte
           /\ Cardinality(S \cup {b}) = min_size(n.class + 1)
           /\ min_size(n.class + 1) \in min_size(n.class + 1) .. Cap[n.class + 1]
           /\ min_size(n.class + 1) = Cap[n.class] + 1
           /\ Cap[n.class] + 1 = Cardinality(S \cup {b}) % Bytes
<1>1. n.class \in 1 .. 3 /\ n.count = Cap[n.class] /\ Cardinality(S) = Cap[n.class]
  BY CountIsSize DEF Holds, is_full, capacity
<1>2. S \cup {b} \in SUBSET Byte /\ Cardinality(S \cup {b}) = Cap[n.class] + 1
  BY <1>1, OneMore
<1>3. /\ min_size(n.class + 1) = Cap[n.class] + 1
      /\ min_size(n.class + 1) \in min_size(n.class + 1) .. Cap[n.class + 1]
      /\ Cap[n.class] + 1 \in 0 .. Bytes - 1
  <2>1. n.class = 1 \/ n.class = 2 \/ n.class = 3
    BY <1>1
  <2> QED
    BY <2>1, Capacities
<1> QED
  BY <1>1, <1>2, <1>3, CountWraps

LEMMA Grow4 ==
    ASSUME NEW n, NEW S, Holds(n, S), n.class = 1, is_full(n),
           NEW b \in Byte, b \notin S, NEW junk \in Byte
    PROVE  Holds(grow_4(n, b, junk), S \cup {b})
<1> DEFINE K == [i \in Pos(2) |-> IF i < Cap[1] THEN n.keys[i] ELSE junk]
           C == [i \in Pos(2) |-> IF i < Cap[1] THEN n.children[i] ELSE Nil]
           p == get_insert_pos(n, b)
           r == grow_4(n, b, junk)
<1>1. /\ n.count = Cap[1] /\ Cardinality(S) = Cap[1] /\ S \cup {b} \in SUBSET Byte
      /\ Cardinality(S \cup {b}) = min_size(2) /\ min_size(2) \in min_size(2) .. Cap[2]
      /\ min_size(2) = Cap[1] + 1 /\ min_size(2) = Cardinality(S \cup {b}) % Bytes
  BY FullSize
<1>2. InOrder(n.keys, n.children, Cap[1], Cap[1], S)
  BY <1>1 DEF Holds
<1>3. Divides(n.keys, Cap[1], b, p)
  BY <1>1, <1>2, CountedPosition DEF get_insert_pos
<1>4. /\ r.class = 2 /\ r.count = min_size(2)
      /\ r.keys = Shifted(K, p, Cap[1], b)
      /\ r.children = Shifted(C, p, Cap[1], b)
  BY DEF grow_4, Sorted
<1> HIDE DEF p, r
<1>5. /\ Cap[1] \in Nat /\ Cap[2] \in Nat /\ Cap[1] < Cap[2] /\ Pos(2) = 0 .. Cap[2] - 1
      /\ Pos(1) = 0 .. Cap[1] - 1
  BY Capacities DEF Pos
<1>6. \A i \in 0 .. Cap[1] - 1 : K[i] = n.keys[i] /\ C[i] = n.children[i]
  BY <1>5
<1>7. K \in [0 .. Cap[2] - 1 -> Byte] /\ C \in [0 .. Cap[2] - 1 -> Byte \cup {Nil}]
  BY <1>2, <1>5 DEF InOrder
<1> HIDE DEF K, C
<1>8. InOrder(K, C, Cap[2], Cap[1], S)
  <2>1. \A i \in 0 .. Cap[1] - 1 : K[i] \in S /\ C[i] = K[i]
    BY <1>2, <1>6 DEF InOrder
  <2>2. \A i, j \in 0 .. Cap[1] - 1 : i < j => K[i] < K[j]
    <3>1. \A i, j \in 0 .. Cap[1] - 1 : i < j => n.keys[i] < n.keys[j]
      BY <1>2 DEF InOrder
    <3> QED
      BY <1>6, <3>1
  <2>3. \A x \in S : \E i \in 0 .. Cap[1] - 1 : K[i] = x
    BY <1>2, <1>6 DEF InOrder
  <2> QED
    BY <1>5, <1>7, <2>1, <2>2, <2>3 DEF InOrder
<1>9. Divides(K, Cap[1], b, p)
  BY <1>3, <1>6 DEF Divides
<1>10. InOrder(r.keys, r.children, Cap[2], Cap[1] + 1, S \cup {b})
  BY <1>4, <1>5, <1>8, <1>9, ShiftedInOrder
<1> QED
  BY <1>1, <1>4, <1>10 DEF Holds, r

LEMMA Grow16 ==
    ASSUME NEW n, NEW S, Holds(n, S), n.class = 2, is_full(n),
           NEW b \in Byte, b \notin S
    PROVE  Holds(grow_16(n, b), S \cup {b})
<1> DEFINE at(x) == {i \in Pos(2) : n.keys[i] = x}
           r == grow_16(n, b)
<1>1. /\ Cardinality(S) = Cap[2] /\ S \cup {b} \in SUBSET Byte
      /\ Cardinality(S \cup {b}) = min_size(3) /\ min_size(3) \in min_size(3) .. Cap[3]
      /\ min_size(3) = Cap[2] + 1 /\ min_size(3) = Cardinality(S \cup {b}) % Bytes
  BY FullSize
<1>2. InOrder(n.keys, n.children, Cap[2], Cap[2], S) /\ S \in SUBSET Byte
  BY <1>1 DEF Holds
<1>3. /\ r.class = 3 /\ r.count = min_size(3)
      /\ r.child_indexes = [x \in Byte |-> CASE x = b -> Cap[2]
                                             [] x # b /\ at(x) # {} -> Greatest(at(x))
                                             [] OTHER -> Empty]
      /\ r.children = [i \in Pos(3) |-> CASE i < Cap[2] -> n.children[i]
                                          [] i = Cap[2] -> b
                                          [] i > Cap[2] -> Nil]
  BY DEF grow_16, Indexed
<1> HIDE DEF r
<1>4. /\ Cap[2] \in Nat /\ Cap[3] \in Nat /\ Cap[2] < Cap[3]
      /\ Pos(2) = 0 .. Cap[2] - 1 /\ Pos(3) = 0 .. Cap[3] - 1
  BY Capacities DEF Pos
<1>5. ASSUME NEW x \in Byte
      PROVE  /\ x \in S => /\ at(x) # {} /\ Greatest(at(x)) \in Pos(2)
                           /\ n.keys[Greatest(at(x))] = x
             /\ x \notin S => at(x) = {}
  <2>1. x \in S => at(x) # {}
    BY <1>2, <1>4 DEF InOrder
  <2>2. at(x) # {} => Greatest(at(x)) \in at(x)
    <3>1. Cap[2] - 1 \in Nat
      BY Capacities
    <3>2. at(x) \in SUBSET (0 .. Cap[2] - 1)
      BY <1>4
    <3> HIDE DEF at
    <3> QED
      BY <3>1, <3>2, GreatestExists
  <2>3. x \notin S => at(x) = {}
    BY <1>2, <1>4 DEF InOrder
  <2> QED
    BY <2>1, <2>2, <2>3
<1>6. \A i \in Pos(2) : n.keys[i] \in S /\ n.children[i] = n.keys[i] /\ n.keys[i] # b
  BY <1>2, <1>4 DEF InOrder
<1>7. \A i, j \in Pos(2) : n.keys[i] = n.keys[j] => i = j
  BY <1>2, <1>4, OrderedKeys
<1> HIDE DEF at
<1>8. \A x \in Byte : /\ x = b => r.child_indexes[x] = Cap[2]
                      /\ x # b /\ x \in S => r.child_indexes[x] = Greatest(at(x))
                      /\ x # b /\ x \notin S => r.child_indexes[x] = Empty
  BY <1>3, <1>5
<1>9. \A i \in Pos(3) : /\ i \in Pos(2) => r.children[i] = n.children[i]
                        /\ i = Cap[2] => r.children[i] = b
                        /\ i > Cap[2] => r.children[i] = Nil
  <2> SUFFICES ASSUME NEW i \in Pos(3)
               PROVE  /\ i \in Pos(2) => r.children[i] = n.children[i]
                      /\ i = Cap[2] => r.children[i] = b
                      /\ i > Cap[2] => r.children[i] = Nil
    OBVIOUS
  <2>1. r.children[i] = CASE i < Cap[2] -> n.children[i] [] i = Cap[2] -> b [] i > Cap[2] -> Nil
    BY <1>3
  <2> QED
    BY <1>4, <2>1
<1>10. Cap[2] \in Pos(3) /\ Pos(2) \subseteq Pos(3) /\ Empty \notin Pos(3)
  BY <1>4 DEF Empty
<1>11. Paired(r.child_indexes, r.children, S \cup {b})
  <2>1. r.child_indexes \in [Byte -> Pos(3) \cup {Empty}]
    <3>1. \A x \in Byte : r.child_indexes[x] \in Pos(3) \cup {Empty}
      BY <1>5, <1>8, <1>10
    <3> QED
      BY <1>3, <3>1
  <2>2. r.children \in [Pos(3) -> (S \cup {b}) \cup {Nil}]
    <3>1. \A i \in Pos(3) : i \in Pos(2) \/ i = Cap[2] \/ i > Cap[2]
      BY <1>4
    <3>2. \A i \in Pos(3) : r.children[i] \in (S \cup {b}) \cup {Nil}
      BY <1>6, <1>9, <3>1
    <3> QED
      BY <1>3, <3>2
  <2>3. ASSUME NEW x \in Byte
        PROVE  IF x \in S \cup {b}
               THEN r.child_indexes[x] # Empty /\ r.children[r.child_indexes[x]] = x
               ELSE r.child_indexes[x] = Empty
    <3>1. CASE x = b
      BY <1>8, <1>9, <1>10, <3>1
    <3>2. CASE x # b /\ x \in S
      BY <1>5, <1>6, <1>8, <1>9, <1>10, <3>2
    <3>3. CASE x # b /\ x \notin S
      BY <1>8, <3>3
    <3> QED
      BY <3>1, <3>2, <3>3
  <2>4. ASSUME NEW i \in Pos(3), r.children[i] # Nil
        PROVE  r.child_indexes[r.children[i]] = i
    <3>1. CASE i \in Pos(2)
      <4>1. r.children[i] = n.keys[i] /\ n.keys[i] \in S /\ n.keys[i] # b
        BY <1>6, <1>9, <3>1
      <4>2. Greatest(at(n.keys[i])) = i
        BY <1>2, <1>5, <1>7, <3>1, <4>1
      <4> QED
        BY <1>2, <1>8, <4>1, <4>2
    <3>2. CASE i = Cap[2]
      BY <1>8, <1>9, <3>2
    <3>3. CASE i > Cap[2]
      BY <1>9, <2>4, <3>3
    <3> QED
      BY <1>4, <3>1, <3>2, <3>3
  <2> QED
    BY <2>1, <2>2, <2>3, <2>4 DEF Paired
<1>12. r.class = 3 /\ r.count = min_size(3)
  BY <1>3
<1>13. Holds(r, S \cup {b})
  BY <1>1, <1>11, <1>12 DEF Holds
<1> QED
  BY <1>13 DEF r

LEMMA Grow48 ==
    ASSUME NEW n, NEW S, Holds(n, S), n.class = 3, is_full(n),
           NEW b \in Byte, b \notin S
    PROVE  Holds(grow_48(n, b), S \cup {b})
<1> DEFINE r == grow_48(n, b)
<1>1. /\ S \cup {b} \in SUBSET Byte
      /\ Cardinality(S \cup {b}) = min_size(4) /\ min_size(4) \in min_size(4) .. Cap[4]
      /\ min_size(4) = Cardinality(S \cup {b}) % Bytes
  BY FullSize
<1>2. /\ r.class = 4 /\ r.count = min_size(4)
      /\ r.children = [x \in Byte |-> IF x = b THEN b ELSE get_child(n, x)]
  BY DEF grow_48, Direct
<1>3. ASSUME NEW x \in Byte PROVE get_child(n, x) = IF x \in S THEN x ELSE Nil
  <2>1. get_child(n, x) = find_child(n, x)
    BY DEF find_child, child_index
  <2> QED
    BY <2>1, FindInClass
<1> HIDE DEF r
<1>4. \A x \in Byte : r.children[x] = IF x \in S \cup {b} THEN x ELSE Nil
  BY <1>2, <1>3
<1>5. r.children \in [Byte -> Byte \cup {Nil}]
  BY <1>2, <1>4
<1> QED
  BY <1>1, <1>2, <1>4, <1>5 DEF Holds, r

-------------------------------------------------------------------------------
(***************************************************************************)
(* Removing a child.                                                       *)
(***************************************************************************)
LEMMA OneLess ==
    ASSUME NEW n, NEW S, Holds(n, S), NEW b \in S
    PROVE  S \ {b} \in SUBSET Byte /\ Cardinality(S \ {b}) = Cardinality(S) - 1
BY CountIsSize, FS_RemoveElement DEF Holds

LEMMA ClosedWithout ==
    ASSUME NEW ks, NEW cs, NEW m, NEW k, NEW S, InOrder(ks, cs, m, k, S),
           NEW p \in 0 .. k - 1
    PROVE  Without(Closed(ks, p, k), Closed(cs, p, k), ks, cs, m, k, p)
<1>1. /\ m \in Nat /\ k \in Nat /\ k <= m
      /\ ks \in [0 .. m - 1 -> Byte] /\ cs \in [0 .. m - 1 -> Byte \cup {Nil}]
  BY DEF InOrder
<1>2. Closed(ks, p, k) \in [0 .. m - 1 -> Byte]
  BY <1>1 DEF Closed
<1>3. Closed(cs, p, k) \in [0 .. m - 1 -> Byte \cup {Nil}]
  BY <1>1 DEF Closed
<1>4. ASSUME NEW i \in 0 .. k - 2
      PROVE  /\ i < p => /\ Closed(ks, p, k)[i] = ks[i]
                         /\ Closed(cs, p, k)[i] = cs[i]
             /\ ~(i < p) => /\ Closed(ks, p, k)[i] = ks[i + 1]
                            /\ Closed(cs, p, k)[i] = cs[i + 1]
  <2>1. i \in DOMAIN ks /\ i \in DOMAIN cs /\ i < k - 1 /\ (p <= i <=> ~(i < p))
    BY <1>1
  <2> QED
    BY <2>1 DEF Closed
<1> QED
  BY <1>1, <1>2, <1>3, <1>4 DEF Without

LEMMA RemoveSorted ==
    ASSUME NEW n, NEW S, Holds(n, S), n.class \in {1, 2}, ~is_min_size(n), NEW b \in S
    PROVE  Holds(remove_from_sorted(n, b), S \ {b})
<1> DEFINE c == n.class
           p == child_index(n, b)
           r == remove_from_sorted(n, b)
<1>1. /\ n.count = Cardinality(S) /\ n.count \in Nat /\ n.count # min_size(c)
      /\ n.count \in min_size(c) .. Cap[c] /\ b \in Byte
  BY CountIsSize DEF Holds, is_min_size
<1>2. InOrder(n.keys, n.children, Cap[c], n.count, S)
  BY <1>1 DEF Holds
<1>3. p \in 0 .. n.count - 1 /\ n.keys[p] = b
  BY <1>1, SortedIndex
<1>4. n.count - 1 \in min_size(c) .. Cap[c] /\ n.count - 1 <= Cap[c] /\ Cap[c] \in Nat
  BY <1>1, Capacities
<1>5. /\ r.class = c /\ r.count = n.count - 1
      /\ r.keys = Closed(n.keys, p, n.count) /\ r.children = Closed(n.children, p, n.count)
  BY DEF remove_from_sorted, Sorted
<1> HIDE DEF p, r
<1>7. Without(r.keys, r.children, n.keys, n.children, Cap[c], n.count, p)
  BY <1>2, <1>3, <1>5, ClosedWithout
<1>8. InOrder(r.keys, r.children, Cap[c], n.count - 1, S \ {b})
  BY <1>2, <1>3, <1>7, WithoutInOrder
<1>9. S \ {b} \in SUBSET Byte /\ Cardinality(S \ {b}) = n.count - 1
  BY <1>1, OneLess
<1>10. r.count = Cardinality(S \ {b}) % Bytes
  BY <1>4, <1>5, <1>9, SizeHolds
<1> QED
  BY <1>4, <1>5, <1>8, <1>9, <1>10 DEF Holds, r

LEMMA Remove48 ==
    ASSUME NEW n, NEW S, Holds(n, S), n.class = 3, ~is_min_size(n), NEW b \in S
    PROVE  Holds(remove_from_48(n, b), S \ {b})
<1> DEFINE p == n.child_indexes[b]
           r == remove_from_48(n, b)
<1>1. /\ n.count = Cardinality(S) /\ n.count \in Nat /\ n.count # min_size(3)
      /\ n.count \in min_size(3) .. Cap[3] /\ b \in Byte /\ S \in SUBSET Byte
  BY CountIsSize DEF Holds, is_min_size
<1>2. n.count - 1 \in min_size(3) .. Cap[3]
  BY <1>1, Capacities
<1>3. /\ r.class = 3 /\ r.count = n.count - 1
      /\ r.child_indexes = [n.child_indexes EXCEPT ![b] = Empty]
      /\ r.children = [n.children EXCEPT ![p] = Nil]
  BY DEF remove_from_48, Indexed
<1> HIDE DEF r
<1>4. S \ {b} \in SUBSET Byte /\ Cardinality(S \ {b}) = n.count - 1
  BY <1>1, OneLess
<1>5. r.count = Cardinality(S \ {b}) % Bytes
  BY <1>2, <1>3, <1>4, SizeHolds
<1>6. Paired(n.child_indexes, n.children, S)
  BY DEF Holds
<1>7. p \in Pos(3) /\ n.children[p] = b
  BY <1>1, <1>6 DEF Paired
<1>8. Paired(r.child_indexes, r.children, S \ {b})
  <2>1. /\ r.child_indexes \in [Byte -> Pos(3) \cup {Empty}]
        /\ r.children \in [Pos(3) -> S \cup {Nil}]
    BY <1>3, <1>6 DEF Paired
  <2>2. ASSUME NEW i \in Pos(3), r.children[i] # Nil
        PROVE  /\ r.children[i] \in S \ {b} /\ r.children[i] = n.children[i]
               /\ r.child_indexes[r.children[i]] = i
    <3>1. i # p /\ r.children[i] = n.children[i]
      BY <1>3, <1>6, <2>2 DEF Paired
    <3>2. n.children[i] \in S /\ n.child_indexes[n.children[i]] = i
      BY <1>6, <2>2, <3>1 DEF Paired
    <3>3. n.children[i] # b
      BY <3>1, <3>2
    <3> QED
      BY <1>1, <1>3, <1>6, <3>1, <3>2, <3>3 DEF Paired
  <2>3. r.children \in [Pos(3) -> (S \ {b}) \cup {Nil}]
    BY <2>1, <2>2
  <2>4. ASSUME NEW x \in Byte
        PROVE  IF x \in S \ {b}
               THEN r.child_indexes[x] # Empty /\ r.children[r.child_indexes[x]] = x
               ELSE r.child_indexes[x] = Empty
    <3>1. CASE x = b
      BY <1>3, <1>6, <3>1 DEF Paired
    <3>2. CASE x # b /\ x \in S
      <4>1. n.child_indexes[x] # Empty /\ n.children[n.child_indexes[x]] = x
        BY <1>6, <3>2 DEF Paired
      <4>2. r.child_indexes[x] = n.child_indexes[x] /\ n.child_indexes[x] \in Pos(3)
        BY <1>3, <1>6, <3>2, <4>1 DEF Paired
      <4>3. n.child_indexes[x] # p
        BY <1>7, <3>2, <4>1
      <4> QED
        BY <1>3, <1>6, <3>2, <4>1, <4>2, <4>3 DEF Paired
    <3>3. CASE x # b /\ x \notin S
      BY <1>3, <1>6, <3>3 DEF Paired
    <3> QED
      BY <3>1, <3>2, <3>3
  <2> QED
    BY <2>1, <2>2, <2>3, <2>4 DEF Paired
<1> QED
  BY <1>2, <1>3, <1>4, <1>5, <1>8 DEF Holds, r

LEMMA Remove256 ==
    ASSUME NEW n, NEW S, Holds(n, S), n.class = 4, ~is_min_size(n), NEW b \in S
    PROVE  Holds(remove_from_256(n, b), S \ {b})
<1> DEFINE r == remove_from_256(n, b)
           k == Cardinality(S)
<1>1. /\ r.class = 4 /\ r.count = (n.count - 1) % Bytes
      /\ r.children = [n.children EXCEPT ![b] = Nil]
  BY DEF remove_from_256, Direct
<1> HIDE DEF r
<1>2. S \ {b} \in SUBSET Byte /\ Cardinality(S \ {b}) = k - 1 /\ b \in Byte
  BY OneLess DEF Holds
<1>3. /\ k \in Nat /\ k <= Bytes /\ k >= min_size(4)
      /\ n.count = IF k = Bytes THEN 0 ELSE k
      /\ n.count # min_size(4)
  BY CountIsSize, BytesFinite DEF Holds, is_min_size
<1>4. k - 1 \in min_size(4) .. Cap[4] /\ k - 1 \in 0 .. Bytes - 1
  BY <1>3, Capacities
<1>5. (n.count - 1) % Bytes = (k - 1) % Bytes
  <2>1. CASE k = Bytes
    <3>1. n.count - 1 = 0 - 1 /\ k - 1 = Bytes - 1
      BY <1>3, <2>1
    <3> QED
      BY <1>4, <3>1, CountWraps
  <2>2. CASE k # Bytes
    BY <1>3, <2>2
  <2> QED
    BY <2>1, <2>2
<1>6. /\ r.children \in [Byte -> Byte \cup {Nil}]
      /\ \A x \in Byte : r.children[x] = IF x \in S \ {b} THEN x ELSE Nil
  BY <1>1 DEF Holds
<1> QED
  BY <1>1, <1>2, <1>4, <1>5, <1>6 DEF Holds, r

LEMMA MinimalSize ==
    ASSUME NEW n, NEW S, Holds(n, S), is_min_size(n), n.class > 1, NEW b \in S
    PROVE  /\ n.class \in 2 .. 4 /\ b \in Byte
           /\ Cardinality(S) = Cap[n.class - 1] + 1
           /\ S \ {b} \in SUBSET Byte
           /\ Cardinality(S \ {b}) = Cap[n.class - 1]
           /\ Cap[n.class - 1] \in min_size(n.class - 1) .. Cap[n.class - 1]
           /\ Cap[n.class - 1] = Cardinality(S \ {b}) % Bytes
<1>1. n.class \in 2 .. 4 /\ b \in Byte /\ n.count = min_size(n.class)
  BY DEF Holds, is_min_size
<1>2. /\ min_size(n.class) = Cap[n.class - 1] + 1
      /\ Cap[n.class - 1] \in min_size(n.class - 1) .. Cap[n.class - 1]
      /\ Cap[n.class - 1] \in 0 .. Bytes - 1
  <2>1. n.class = 2 \/ n.class = 3 \/ n.class = 4
    BY <1>1
  <2> QED
    BY <2>1, Capacities
<1>3. Cardinality(S) = Cap[n.class - 1] + 1
  BY <1>1, <1>2, CountIsSize
<1>4. S \ {b} \in SUBSET Byte /\ Cardinality(S \ {b}) = Cap[n.class - 1]
  BY <1>2, <1>3, OneLess
<1> QED
  BY <1>1, <1>2, <1>3, <1>4, CountWraps

LEMMA Shrink16 ==
    ASSUME NEW n, NEW S, Holds(n, S), n.class = 2, is_min_size(n), NEW b \in S
    PROVE  Holds(shrink_16(n, b), S \ {b})
<1> DEFINE p == child_index(n, b)
           r == shrink_16(n, b)
           k == Cap[1] + 1
<1>0. n.class > 1 /\ n.class - 1 = 1
  OBVIOUS
<1>1. /\ Cardinality(S) = k /\ S \ {b} \in SUBSET Byte /\ b \in Byte
      /\ Cardinality(S \ {b}) = Cap[1] /\ Cap[1] \in min_size(1) .. Cap[1]
      /\ Cap[1] = Cardinality(S \ {b}) % Bytes
  BY <1>0, MinimalSize
<1>2. InOrder(n.keys, n.children, Cap[2], k, S)
  BY <1>1 DEF Holds
<1>3. p \in 0 .. k - 1 /\ n.keys[p] = b
  BY <1>1, SortedIndex, CountIsSize
<1>4. /\ r.class = 1 /\ r.count = Cap[1]
      /\ r.keys = [i \in Pos(1) |-> IF i < p THEN n.keys[i] ELSE n.keys[i + 1]]
      /\ r.children = [i \in Pos(1) |-> IF i < p THEN n.children[i] ELSE n.children[i + 1]]
  BY DEF shrink_16, Sorted
<1> HIDE DEF p, r
<1>5. /\ Cap[1] \in Nat /\ Cap[2] \in Nat /\ k <= Cap[2] /\ Pos(1) = 0 .. Cap[1] - 1
      /\ k - 1 = Cap[1] /\ k - 2 = Cap[1] - 1
  BY Capacities DEF Pos
<1>6. Without(r.keys, r.children, n.keys, n.children, Cap[1], k, p)
  <2>1. /\ n.keys \in [0 .. Cap[2] - 1 -> Byte]
        /\ n.children \in [0 .. Cap[2] - 1 -> Byte \cup {Nil}]
    BY <1>2 DEF InOrder
  <2>2. \A i \in 0 .. Cap[1] - 1 : i \in 0 .. Cap[2] - 1 /\ i + 1 \in 0 .. Cap[2] - 1
    BY <1>5
  <2>3. r.keys \in [0 .. Cap[1] - 1 -> Byte]
    <3>1. \A i \in Pos(1) : r.keys[i] \in Byte
      BY <1>4, <1>5, <2>1, <2>2
    <3> QED
      BY <1>4, <1>5, <3>1
  <2>4. r.children \in [0 .. Cap[1] - 1 -> Byte \cup {Nil}]
    BY <1>4, <1>5, <2>1, <2>2
  <2>5. \A i \in 0 .. k - 2 :
           /\ i < p => r.keys[i] = n.keys[i] /\ r.children[i] = n.children[i]
           /\ ~(i < p) => r.keys[i] = n.keys[i + 1] /\ r.children[i] = n.children[i + 1]
    BY <1>4, <1>5
  <2> QED
    BY <1>5, <2>3, <2>4, <2>5 DEF Without
<1>7. InOrder(r.keys, r.children, Cap[1], k - 1, S \ {b})
  BY <1>2, <1>3, <1>6, WithoutInOrder
<1> QED
  BY <1>1, <1>4, <1>5, <1>7 DEF Holds, r

LEMMA MappedBytes ==
    ASSUME NEW n, NEW S, Holds(n, S), n.class \in {3, 4}
    PROVE  mapped(n) = S
<1>1. CASE n.class = 3
  BY <1>1 DEF mapped, Holds, Paired
<1>2. CASE n.class = 4
  <2>1. \A x \in Byte : n.children[x] # Nil <=> x \in S
    BY <1>2, ByteNat DEF Holds, Nil
  <2>2. S \in SUBSET Byte
    BY DEF Holds
  <2>3. mapped(n) = {x \in Byte : n.children[x] # Nil}
    BY <1>2 DEF mapped
  <2> QED
    BY <2>1, <2>2, <2>3
<1> QED
  BY <1>1, <1>2

LEMMA Shrink48 ==
    ASSUME NEW n, NEW S, Holds(n, S), n.class = 3, is_min_size(n), NEW b \in S
    PROVE  Holds(shrink_48(n, b), S \ {b})
<1> DEFINE T == S \ {b}
           r == shrink_48(n, b)
<1>0. n.class > 1 /\ n.class - 1 = 2
  OBVIOUS
<1>1. /\ T \in SUBSET Byte /\ Cardinality(T) = Cap[2] /\ Cap[2] \in min_size(2) .. Cap[2]
      /\ Cap[2] = Cardinality(T) % Bytes
  BY <1>0, MinimalSize
<1>2. Cap[2] \in Nat /\ Pos(2) = 0 .. Cap[2] - 1
  BY Capacities DEF Pos
<1>3. \A i \in Pos(2) : Nth(T, i) \in T
  BY <1>1, <1>2, NthOrder
<1>4. /\ r.class = 2 /\ r.count = Cap[2]
      /\ r.keys = [i \in Pos(2) |-> Nth(T, i)]
      /\ r.children = [i \in Pos(2) |-> get_child(n, r.keys[i])]
  BY MappedBytes DEF shrink_48, Sorted
<1> HIDE DEF r
<1>5. \A i \in Pos(2) : r.keys[i] = Nth(T, i) /\ r.children[i] = Nth(T, i)
  <2>1. ASSUME NEW x \in T PROVE get_child(n, x) = x
    <3>1. get_child(n, x) = find_child(n, x) /\ x \in Byte /\ x \in S
      BY <1>1 DEF find_child, child_index
    <3> QED
      BY <3>1, FindInClass
  <2> QED
    BY <1>3, <1>4, <2>1
<1>6. r.keys \in [0 .. Cap[2] - 1 -> Byte] /\ r.children \in [0 .. Cap[2] - 1 -> Byte \cup {Nil}]
  <2>1. \A i \in Pos(2) : r.keys[i] \in Byte /\ r.children[i] \in Byte
    BY <1>1, <1>3, <1>5
  <2> QED
    BY <1>2, <1>4, <2>1
<1>7. \A i, j \in Pos(2) : i < j => r.keys[i] < r.keys[j]
  <2> SUFFICES ASSUME NEW i \in Pos(2), NEW j \in Pos(2), i < j
               PROVE  r.keys[i] < r.keys[j]
    OBVIOUS
  <2>1. i \in 0 .. Cardinality(T) - 1 /\ j \in 0 .. Cardinality(T) - 1
    BY <1>1, <1>2
  <2>2. Nth(T, i) < Nth(T, j)
    BY <1>1, <2>1, NthIncreases
  <2> QED
    BY <1>5, <2>2
<1>8. ASSUME NEW x \in T PROVE \E i \in Pos(2) : r.keys[i] = x
  <2>1. Rank(T, x) \in Pos(2) /\ Nth(T, Rank(T, x)) = x
    BY <1>1, <1>2, RankOrder, NthOrder
  <2> QED
    BY <1>5, <2>1
<1>9. InOrder(r.keys, r.children, Cap[2], Cap[2], T)
  <2>1. Cap[2] \in 0 .. Cap[2]
    BY <1>2
  <2>2. \A i \in Pos(2) : r.keys[i] \in T /\ r.children[i] = r.keys[i]
    BY <1>3, <1>5
  <2> HIDE DEF T
  <2> QED
    BY <1>2, <1>6, <1>7, <1>8, <2>1, <2>2 DEF InOrder
<1>10. r.class = 2 /\ r.count = Cap[2]
  BY <1>4
<1>11. Holds(r, T)
  BY <1>1, <1>9, <1>10 DEF Holds
<1> QED
  BY <1>11 DEF r

LEMMA Shrink256 ==
    ASSUME NEW n, NEW S, Holds(n, S), n.class = 4, is_min_size(n), NEW b \in S
    PROVE  Holds(shrink_256(n, b), S \ {b})
<1> DEFINE T == S \ {b}
           r == shrink_256(n, b)
<1>0. n.class > 1 /\ n.class - 1 = 3
  OBVIOUS
<1>1. /\ T \in SUBSET Byte /\ Cardinality(T) = Cap[3] /\ Cap[3] \in min_size(3) .. Cap[3]
      /\ Cap[3] = Cardinality(T) % Bytes
  BY <1>0, MinimalSize
<1>2. Cap[3] \in Nat /\ Pos(3) = 0 .. Cap[3] - 1 /\ Empty \notin Pos(3)
  BY Capacities DEF Pos, Empty
<1>3. \A i \in Pos(3) : Nth(T, i) \in T /\ Rank(T, Nth(T, i)) = i
  BY <1>1, <1>2, NthOrder
<1>4. \A x \in T : Rank(T, x) \in Pos(3) /\ Nth(T, Rank(T, x)) = x
  BY <1>1, <1>2, RankOrder, NthOrder
<1>5. /\ r.class = 3 /\ r.count = Cap[3]
      /\ r.child_indexes = [x \in Byte |-> IF x \in T THEN Rank(T, x) ELSE Empty]
      /\ r.children = [i \in Pos(3) |-> n.children[Nth(T, i)]]
  BY MappedBytes DEF shrink_256, Indexed
<1> HIDE DEF r
<1>6. \A x \in T : n.children[x] = x /\ x \in Byte
  BY <1>1 DEF Holds
<1>7. \A i \in Pos(3) : r.children[i] = Nth(T, i)
  BY <1>3, <1>5, <1>6
<1>8. \A x \in Byte : r.child_indexes[x] = IF x \in T THEN Rank(T, x) ELSE Empty
  BY <1>5
<1>9. Paired(r.child_indexes, r.children, T)
  <2>1. r.child_indexes \in [Byte -> Pos(3) \cup {Empty}]
    BY <1>4, <1>5
  <2>2. r.children \in [Pos(3) -> T \cup {Nil}]
    BY <1>3, <1>5, <1>7
  <2>3. ASSUME NEW x \in Byte
        PROVE  IF x \in T THEN r.child_indexes[x] # Empty /\ r.children[r.child_indexes[x]] = x
               ELSE r.child_indexes[x] = Empty
    BY <1>2, <1>4, <1>7, <1>8
  <2>4. ASSUME NEW i \in Pos(3) PROVE r.child_indexes[r.children[i]] = i
    BY <1>3, <1>6, <1>7, <1>8
  <2> QED
    BY <2>1, <2>2, <2>3, <2>4 DEF Paired
<1>10. r.class = 3 /\ r.count = Cap[3]
  BY <1>5
<1>11. Holds(r, T)
  BY <1>1, <1>9, <1>10 DEF Holds
<1> QED
  BY <1>11 DEF r

-------------------------------------------------------------------------------
(***************************************************************************)
(* The invariant.                                                          *)
(***************************************************************************)
LEMMA CreateHolds ==
    ASSUME NEW b1 \in Byte, NEW b2 \in Byte, NEW junk \in Byte, create(b1, b2, junk)
    PROVE  Holds(node', present')
<1> DEFINE S == {b1, b2}
           lo == Least(S)
           hi == Greatest(S)
           K == [i \in Pos(1) |-> CASE i = 0 -> lo [] i = 1 -> hi [] i > 1 -> junk]
           C == [i \in Pos(1) |-> CASE i = 0 -> lo [] i = 1 -> hi [] i > 1 -> Nil]
<1>1. b1 # b2 /\ present' = S /\ node' = Sorted(1, 2, K, C)
  BY DEF create
<1>2. lo \in S /\ hi \in S /\ lo < hi
  <2>1. S \in SUBSET Nat /\ S # {} /\ b1 \in Nat /\ b2 \in Nat
    BY ByteNat
  <2>2. lo \in S /\ \A y \in S : lo <= y
    BY <2>1, LeastExists
  <2>3. Bytes \in Nat /\ S \in SUBSET (0 .. Bytes)
    BY Capacities DEF Byte
  <2>4. hi \in S /\ \A y \in S : hi >= y
    BY <2>1, <2>3, GreatestExists
  <2> HIDE DEF lo, hi
  <2> QED
    BY <1>1, <2>1, <2>2, <2>4
<1> HIDE DEF lo, hi
<1>3. Cap[1] \in Nat /\ Cap[1] > 2 /\ Pos(1) = 0 .. Cap[1] - 1
  BY Capacities DEF Pos
<1>4. \A i \in Pos(1) : i = 0 \/ i = 1 \/ i > 1
  BY <1>3
<1>5. K \in [0 .. Cap[1] - 1 -> Byte] /\ K[0] = lo /\ K[1] = hi
  BY <1>2, <1>3, <1>4
<1>6. C \in [0 .. Cap[1] - 1 -> Byte \cup {Nil}] /\ C[0] = lo /\ C[1] = hi
  BY <1>2, <1>3, <1>4
<1> HIDE DEF K, C
<1>7. 0 .. 2 - 1 = {0, 1} /\ S = {lo, hi} /\ lo \in Nat /\ hi \in Nat
  BY <1>2, ByteNat
<1>8. InOrder(K, C, Cap[1], 2, S)
  <2>1. Cap[1] \in Nat /\ 2 \in 0 .. Cap[1]
    BY <1>3
  <2>2. \A i \in {0, 1} : K[i] \in S /\ C[i] = K[i]
    BY <1>2, <1>5, <1>6
  <2>3. \A i, j \in {0, 1} : i < j => K[i] < K[j]
    BY <1>2, <1>5
  <2>4. \A x \in S : \E i \in {0, 1} : K[i] = x
    BY <1>5, <1>7
  <2> QED
    BY <1>5, <1>6, <1>7, <2>1, <2>2, <2>3, <2>4 DEF InOrder
<1>9. Cardinality(S) = 2
  <2>1. S = {b1} \cup {b2}
    OBVIOUS
  <2>2. Cardinality({b1}) = 1 /\ IsFiniteSet({b1}) /\ b2 \notin {b1}
    BY <1>1, FS_Singleton
  <2>3. Cardinality({b1} \cup {b2}) = 1 + 1
    BY <2>2, FS_AddElement
  <2> QED
    BY <2>1, <2>3
<1>10. 2 \in min_size(1) .. Cap[1] /\ 2 \in 0 .. Bytes - 1
  BY Capacities
<1>11. /\ node'.class = 1 /\ node'.count = 2
       /\ node'.keys = K /\ node'.children = C
  BY <1>1 DEF Sorted
<1>12. node'.count = Cardinality(S) % Bytes
  BY <1>9, <1>10, <1>11, CountWraps
<1>13. Holds(node', S)
  BY <1>8, <1>9, <1>10, <1>11, <1>12 DEF Holds
<1> QED
  BY <1>1, <1>13

LEMMA HoldsNode ==
    ASSUME NEW n, NEW S, Holds(n, S)
    PROVE  n # None
BY DEF Holds, None

LEMMA AddHolds ==
    ASSUME NEW n, NEW S, Holds(n, S), ~is_full(n), NEW b \in Byte, b \notin S
    PROVE  Holds(add_to_nonfull(n, b), S \cup {b})
<1>1. CASE n.class \in {1, 2}
  <2>1. add_to_nonfull(n, b) = add_to_sorted(n, b)
    BY <1>1 DEF add_to_nonfull
  <2> QED
    BY <1>1, <2>1, AddSorted
<1>2. CASE n.class = 3
  <2>1. add_to_nonfull(n, b) = add_to_48(n, b)
    BY <1>2 DEF add_to_nonfull
  <2> QED
    BY <1>2, <2>1, Add48
<1>3. CASE n.class = 4
  <2>1. add_to_nonfull(n, b) = add_to_256(n, b)
    BY <1>3 DEF add_to_nonfull
  <2> QED
    BY <1>3, <2>1, Add256
<1> QED
  BY <1>1, <1>2, <1>3 DEF Holds

LEMMA GrowHolds ==
    ASSUME NEW n, NEW S, Holds(n, S), is_full(n), NEW b \in Byte, b \notin S,
           NEW junk \in Byte
    PROVE  Holds(grow(n, b, junk), S \cup {b})
<1>1. CASE n.class = 1
  <2>1. grow(n, b, junk) = grow_4(n, b, junk)
    BY <1>1 DEF grow
  <2> QED
    BY <1>1, <2>1, Grow4
<1>2. CASE n.class = 2
  <2>1. grow(n, b, junk) = grow_16(n, b)
    BY <1>2 DEF grow
  <2> QED
    BY <1>2, <2>1, Grow16
<1>3. CASE n.class = 3
  <2>1. grow(n, b, junk) = grow_48(n, b)
    BY <1>3 DEF grow
  <2> QED
    BY <1>3, <2>1, Grow48
<1>4. n.class \in 1 .. 3
  BY FullSize
<1> QED
  BY <1>1, <1>2, <1>3, <1>4

LEMMA RemoveHolds ==
    ASSUME NEW n, NEW S, Holds(n, S), ~is_min_size(n), NEW b \in S
    PROVE  Holds(remove_child(n, b), S \ {b})
<1>1. CASE n.class \in {1, 2}
  <2>1. remove_child(n, b) = remove_from_sorted(n, b)
    BY <1>1 DEF remove_child
  <2> QED
    BY <1>1, <2>1, RemoveSorted
<1>2. CASE n.class = 3
  <2>1. remove_child(n, b) = remove_from_48(n, b)
    BY <1>2 DEF remove_child
  <2> QED
    BY <1>2, <2>1, Remove48
<1>3. CASE n.class = 4
  <2>1. remove_child(n, b) = remove_from_256(n, b)
    BY <1>3 DEF remove_child
  <2> QED
    BY <1>3, <2>1, Remove256
<1> QED
  BY <1>1, <1>2, <1>3 DEF Holds

LEMMA ShrinkHolds ==
    ASSUME NEW n, NEW S, Holds(n, S), is_min_size(n), n.class > 1, NEW b \in S
    PROVE  Holds(shrink(n, b), S \ {b})
<1>1. CASE n.class = 2
  <2>1. shrink(n, b) = shrink_16(n, b)
    BY <1>1 DEF shrink
  <2> QED
    BY <1>1, <2>1, Shrink16
<1>2. CASE n.class = 3
  <2>1. shrink(n, b) = shrink_48(n, b)
    BY <1>2 DEF shrink
  <2> QED
    BY <1>2, <2>1, Shrink48
<1>3. CASE n.class = 4
  <2>1. shrink(n, b) = shrink_256(n, b)
    BY <1>3 DEF shrink
  <2> QED
    BY <1>3, <2>1, Shrink256
<1> QED
  BY <1>1, <1>2, <1>3 DEF Holds

LEMMA LayoutInvStep ==
    ASSUME LayoutInv, [Next]_vars
    PROVE  LayoutInv'
<1>1. CASE UNCHANGED vars
  BY <1>1 DEF LayoutInv, vars
<1>2. CASE node = None /\ \E b1, b2, junk \in Byte : create(b1, b2, junk)
  BY <1>2, CreateHolds DEF LayoutInv
<1>3. ASSUME node # None, NEW b \in Byte,
             \/ add(b) \/ replace_by_larger(b)
             \/ remove(b) \/ replace_by_smaller(b) \/ leave_last_child(b)
      PROVE  LayoutInv'
  <2>0. Holds(node, present) /\ (find_child(node, b) = IF b \in present THEN b ELSE Nil)
    BY <1>3, FindInClass DEF LayoutInv
  <2>1. b # Nil
    BY ByteNat DEF Nil
  <2>2. (find_child(node, b) = Nil => b \notin present)
        /\ (find_child(node, b) # Nil => b \in present)
    BY <2>0, <2>1
  <2>3. CASE add(b)
    BY <2>0, <2>2, <2>3, AddHolds DEF add, AddsChild, LayoutInv
  <2>4. CASE replace_by_larger(b)
    <3>1. PICK junk \in Byte : node' = grow(node, b, junk)
      <4>1. 0 \in Byte
        BY Capacities DEF Byte
      <4> QED
        BY <2>4, <4>1 DEF replace_by_larger
    <3> QED
      BY <2>0, <2>2, <2>4, <3>1, GrowHolds DEF replace_by_larger, AddsChild, LayoutInv
  <2>5. CASE remove(b)
    BY <2>0, <2>2, <2>5, RemoveHolds DEF remove, RemovesChild, LayoutInv
  <2>6. CASE replace_by_smaller(b)
    BY <2>0, <2>2, <2>6, ShrinkHolds DEF replace_by_smaller, RemovesChild, LayoutInv
  <2>7. CASE leave_last_child(b)
    BY <2>7 DEF leave_last_child, LayoutInv
  <2> QED
    BY <1>3, <2>3, <2>4, <2>5, <2>6, <2>7
<1> QED
  BY <1>1, <1>2, <1>3 DEF Next

LEMMA LayoutInvariant == Spec => []LayoutInv
<1>1. Init => LayoutInv
  BY DEF Init, LayoutInv
<1>2. LayoutInv /\ [Next]_vars => LayoutInv'
  BY LayoutInvStep
<1> QED
  BY <1>1, <1>2, PTL DEF Spec

\* Whatever the sequence of additions and removals, and whatever is in the positions
\* not in use, find_child gives the child of a byte that has one and nullptr for the
\* others, in all four classes.
THEOREM ChildrenFound == Spec => []FindsChildren
<1>1. LayoutInv => FindsChildren
  BY FindInClass DEF LayoutInv, FindsChildren
<1> QED
  BY <1>1, LayoutInvariant, PTL

\* children_count counts the children modulo the width of a byte, and the class is
\* the one for their number: add_to_nonfull, grow, remove and shrink are called only
\* when is_full and is_min_size say the truth.
THEOREM ChildrenCounted == Spec => []CountsChildren
<1>1. LayoutInv => CountsChildren
  BY DEF LayoutInv, CountsChildren, Holds
<1> QED
  BY <1>1, LayoutInvariant, PTL

-------------------------------------------------------------------------------
(***************************************************************************)
(* delete_subtree and the iteration.                                       *)
(***************************************************************************)
LEMMA DeletesInClass ==
    ASSUME NEW n, NEW S, Holds(n, S)
    PROVE  /\ {n.children[i] : i \in delete_subtree(n)} = S
           /\ Cardinality(delete_subtree(n)) = Cardinality(S)
<1> DEFINE D == delete_subtree(n)
<1>0. S \in SUBSET Byte /\ IsFiniteSet(S) /\ Cardinality(S) \in Nat
  BY CountIsSize DEF Holds
<1>1. CASE n.class \in {1, 2}
  <2>1. n.count = Cardinality(S) /\ n.count \in Nat /\ n.count - 1 \in Int /\ 0 \in Int
    BY <1>1, CountIsSize
  <2>2. D = 0 .. n.count - 1
    BY <1>1 DEF delete_subtree
  <2>3. Cardinality(D) = Cardinality(S)
    BY <2>1, <2>2, FS_Interval
  <2>4. /\ \A i \in D : n.children[i] \in S
        /\ \A b \in S : \E i \in D : n.children[i] = b
    BY <1>1, <2>1, <2>2 DEF Holds, InOrder
  <2>5. {n.children[i] : i \in D} = S
    BY <2>4
  <2> QED
    BY <2>3, <2>5
<1>2. CASE n.class = 3
  <2>1. D = {i \in Pos(3) : n.children[i] # Nil}
    BY <1>2 DEF delete_subtree
  <2>2. Paired(n.child_indexes, n.children, S)
    BY <1>2 DEF Holds
  <2>3. \A b \in S : b # Nil /\ b \in Byte
    BY <1>0, ByteNat DEF Nil
  <2>4. \A b \in S : n.child_indexes[b] \in D /\ n.children[n.child_indexes[b]] = b
    BY <2>1, <2>2, <2>3 DEF Paired
  <2>5. \A i \in D : n.children[i] \in S /\ n.child_indexes[n.children[i]] = i
    BY <2>1, <2>2 DEF Paired
  <2> HIDE DEF D
  <2>6. {n.children[i] : i \in D} = S
    BY <2>4, <2>5
  <2> DEFINE f == [b \in S |-> n.child_indexes[b]]
  <2>7. f \in Injection(S, D)
    BY <2>4 DEF Injection, IsInjective
  <2>8. f \in Surjection(S, D)
    BY <2>4, <2>5 DEF Surjection
  <2>9. ExistsBijection(S, D)
    BY <2>7, <2>8 DEF ExistsBijection, Bijection
  <2> QED
    BY <1>0, <2>6, <2>9, FS_Bijection DEF D
<1>3. CASE n.class = 4
  <2>1. Pos(4) = Byte
    BY Capacities DEF Pos, Byte
  <2>2. D = {i \in Byte : n.children[i] # Nil}
    BY <1>3, <2>1 DEF delete_subtree
  <2>3. D = mapped(n)
    BY <1>3, <2>2 DEF mapped
  <2>4. D = S
    BY <1>3, <2>3, MappedBytes
  <2>5. \A b \in S : n.children[b] = b
    BY <1>0, <1>3 DEF Holds
  <2> HIDE DEF D
  <2> QED
    BY <2>4, <2>5 DEF D
<1> QED
  BY <1>1, <1>2, <1>3 DEF Holds

\* delete_subtree visits every child once: its loops over the arrays neither skip a
\* child nor visit one twice, in all four classes.
THEOREM ChildrenDeleted == Spec => []DeletesChildren
<1>1. LayoutInv => DeletesChildren
  BY DeletesInClass DEF LayoutInv, DeletesChildren
<1> QED
  BY <1>1, LayoutInvariant, PTL

\* The key byte at a child index, and the child indexes in use.
KeyAt(n, i) == IF n.class <= 2 THEN n.keys[i] ELSE i

InUse(n, S) == IF n.class <= 2 THEN 0 .. n.count - 1 ELSE S

\* Child indexes in use are ordered as their key bytes are.
LEMMA IndexesInOrder ==
    ASSUME NEW n, NEW S, Holds(n, S)
    PROVE  /\ InUse(n, S) \in SUBSET Byte
           /\ \A i \in InUse(n, S) : KeyAt(n, i) \in S /\ get_child(n, i) = KeyAt(n, i)
           /\ \A i, j \in InUse(n, S) : i <= j <=> KeyAt(n, i) <= KeyAt(n, j)
           /\ \A b \in S : \E i \in InUse(n, S) : KeyAt(n, i) = b
<1>0. S \in SUBSET Byte /\ Bytes \in Nat
  BY Capacities DEF Holds
<1>1. CASE n.class \in {1, 2}
  <2>0. n.class <= 2 /\ n.class # 3 /\ n.class # 4
    BY <1>1
  <2>1. n.count = Cardinality(S) /\ n.count \in Nat /\ n.count <= Bytes
    BY <1>0, <1>1, CountIsSize, BytesFinite
  <2>2. InOrder(n.keys, n.children, Cap[n.class], n.count, S)
    BY <1>1, <2>1 DEF Holds
  <2>3. /\ InUse(n, S) = 0 .. n.count - 1
        /\ \A i \in InUse(n, S) : KeyAt(n, i) = n.keys[i] /\ get_child(n, i) = n.children[i]
    BY <2>0 DEF InUse, KeyAt, get_child
  <2>4. /\ Cap[n.class] \in Nat /\ n.count <= Cap[n.class]
        /\ \A i \in 0 .. Cap[n.class] - 1 : n.keys[i] \in Nat
        /\ \A i, j \in 0 .. n.count - 1 : i < j => n.keys[i] < n.keys[j]
        /\ \A i, j \in 0 .. n.count - 1 : n.keys[i] = n.keys[j] => i = j
    BY <2>2, OrderedKeys
  <2>5. ASSUME NEW i \in 0 .. n.count - 1, NEW j \in 0 .. n.count - 1
        PROVE  i <= j <=> n.keys[i] <= n.keys[j]
    <3>1. n.keys[i] \in Nat /\ n.keys[j] \in Nat
      BY <2>1, <2>4
    <3>2. i < j \/ i = j \/ j < i
      BY <2>1
    <3> QED
      BY <2>1, <2>4, <3>1, <3>2
  <2>6. /\ \A i \in 0 .. n.count - 1 : n.keys[i] \in S /\ n.children[i] = n.keys[i]
        /\ \A b \in S : \E i \in 0 .. n.count - 1 : n.keys[i] = b
    BY <2>2 DEF InOrder
  <2>7. 0 .. n.count - 1 \in SUBSET Byte
    BY <1>0, <2>1 DEF Byte
  <2> QED
    BY <2>3, <2>5, <2>6, <2>7
<1>2. CASE n.class \in {3, 4}
  <2>0. ~(n.class <= 2)
    BY <1>2
  <2>1. InUse(n, S) = S /\ \A i \in S : KeyAt(n, i) = i
    BY <2>0 DEF InUse, KeyAt
  <2>2. ASSUME NEW i \in S PROVE get_child(n, i) = i
    <3>1. get_child(n, i) = find_child(n, i)
      BY <2>0 DEF find_child, child_index
    <3> QED
      BY <1>0, <3>1, FindInClass
  <2>4. ASSUME NEW i \in S, NEW j \in S PROVE i <= j <=> KeyAt(n, i) <= KeyAt(n, j)
    BY <2>1
  <2> QED
    BY <1>0, <2>1, <2>2, <2>4
<1> QED
  BY <1>1, <1>2 DEF Holds

\* The first and the last of some indexes in use have the first and the last of their
\* key bytes.
LEMMA FirstAndLast ==
    ASSUME node # None, LayoutInv, NEW I \in SUBSET InUse(node, present),
           NEW B \in SUBSET present,
           \A i \in InUse(node, present) : i \in I <=> KeyAt(node, i) \in B
    PROVE  IsFirst(FirstOf(node, I), B, TRUE) /\ IsFirst(LastOf(node, I), B, FALSE)
<1>0. Holds(node, present)
  BY DEF LayoutInv
<1>1. /\ InUse(node, present) \in SUBSET Byte /\ Bytes \in Nat
      /\ \A i \in InUse(node, present) :
            KeyAt(node, i) \in present /\ get_child(node, i) = KeyAt(node, i)
      /\ \A i, j \in InUse(node, present) : i <= j <=> KeyAt(node, i) <= KeyAt(node, j)
      /\ \A b \in present : \E i \in InUse(node, present) : KeyAt(node, i) = b
  BY <1>0, IndexesInOrder, Capacities
<1>2. CASE I = {}
  <2>1. B = {}
    BY <1>1, <1>2
  <2> QED
    BY <1>2, <2>1 DEF IsFirst, FirstOf, LastOf
<1>3. CASE I # {}
  <2>1. B # {}
    BY <1>1, <1>3
  <2>2. \A x \in B : \E i \in I : KeyAt(node, i) = x
    BY <1>1
  <2>3. I \in SUBSET Nat /\ I \in SUBSET (0 .. Bytes)
    BY <1>1 DEF Byte
  <2>4. Least(I) \in I /\ \A i \in I : Least(I) <= i
    BY <1>3, <2>3, LeastExists
  <2>5. Greatest(I) \in I /\ \A i \in I : i <= Greatest(I)
    <3>1. Greatest(I) \in I /\ \A i \in I : Greatest(I) >= i
      BY <1>1, <1>3, <2>3, GreatestExists
    <3> QED
      BY <2>3, <3>1
  <2>6. ASSUME NEW i \in I
        PROVE  /\ Entry(node, i).byte = KeyAt(node, i) /\ Entry(node, i).index = i
               /\ KeyAt(node, i) \in B /\ get_child(node, i) = KeyAt(node, i)
    BY <1>1 DEF Entry, KeyAt
  <2>7. \A x \in B : KeyAt(node, Least(I)) <= x /\ x <= KeyAt(node, Greatest(I))
    BY <1>1, <2>2, <2>4, <2>5
  <2>8. FirstOf(node, I) = Entry(node, Least(I)) /\ LastOf(node, I) = Entry(node, Greatest(I))
    BY <1>3 DEF FirstOf, LastOf
  <2>9. IsFirst(FirstOf(node, I), B, TRUE)
    BY <2>1, <2>4, <2>6, <2>7, <2>8 DEF IsFirst
  <2>10. IsFirst(LastOf(node, I), B, FALSE)
    BY <2>1, <2>5, <2>6, <2>7, <2>8 DEF IsFirst
  <2> QED
    BY <2>9, <2>10
<1> QED
  BY <1>2, <1>3

LEMMA IndexSets ==
    ASSUME NEW n, NEW S, Holds(n, S), NEW i \in Nat, NEW j \in Int, j <= Bytes - 1
    PROVE  indexes(n, i, j) = {x \in InUse(n, S) : i <= x /\ x <= j}
<1>0. S \in SUBSET Byte /\ Byte = 0 .. Bytes - 1 /\ Bytes \in Nat
  BY Capacities DEF Holds, Byte
<1>1. CASE n.class \in {1, 2}
  <2>1. n.class <= 2 /\ n.count \in Nat
    BY <1>1, CountIsSize
  <2>2. indexes(n, i, j) = i .. (IF j < n.count THEN j ELSE n.count - 1)
    BY <2>1 DEF indexes
  <2>3. InUse(n, S) = 0 .. n.count - 1
    BY <2>1 DEF InUse
  <2>4. \A x : x \in i .. (IF j < n.count THEN j ELSE n.count - 1)
               <=> x \in 0 .. n.count - 1 /\ i <= x /\ x <= j
    BY <2>1
  <2> QED
    BY <2>2, <2>3, <2>4, Zenon
<1>2. CASE n.class \in {3, 4}
  <2>1. ~(n.class <= 2) /\ InUse(n, S) = S
    BY <1>2 DEF InUse
  <2>2. \A x \in Byte : x \in S <=> IF n.class = 3 THEN n.child_indexes[x] # Empty
                                    ELSE n.children[x] # Nil
    <3>1. mapped(n) = S
      BY <1>2, MappedBytes
    <3> QED
      BY <1>2, <3>1 DEF mapped
  <2>3. indexes(n, i, j) = {x \in i .. j : IF n.class = 3 THEN n.child_indexes[x] # Empty
                                           ELSE n.children[x] # Nil}
    BY <1>2, <2>1 DEF indexes
  <2>4. i .. j \in SUBSET Byte
    BY <1>0
  <2>5. indexes(n, i, j) = {x \in i .. j : x \in S}
    BY <2>2, <2>3, <2>4
  <2>6. {x \in i .. j : x \in S} = {x \in S : i <= x /\ x <= j}
    <3>1. \A x \in S : x \in i .. j <=> i <= x /\ x <= j
      BY <1>0
    <3> QED
      BY <3>1, Zenon
  <2> QED
    BY <2>1, <2>5, <2>6
<1> QED
  BY <1>1, <1>2 DEF Holds

LEMMA IndexOfByte ==
    ASSUME NEW n, NEW S, Holds(n, S), NEW b \in S
    PROVE  child_index(n, b) \in InUse(n, S) /\ KeyAt(n, child_index(n, b)) = b
<1>0. b \in Byte
  BY DEF Holds
<1>1. CASE n.class \in {1, 2}
  BY <1>0, <1>1, SortedIndex DEF InUse, KeyAt
<1>2. CASE n.class \in {3, 4}
  BY <1>2 DEF InUse, KeyAt, child_index
<1> QED
  BY <1>1, <1>2 DEF Holds

\* The indexes on one side of a byte are the ones whose key bytes are.
LEMMA IteratesInClass ==
    ASSUME node # None, LayoutInv
    PROVE  IteratesInOrder
<1> DEFINE U == InUse(node, present)
<1>0. Holds(node, present)
  BY DEF LayoutInv
<1>1. /\ U \in SUBSET Byte /\ U \in SUBSET Nat /\ present \in SUBSET Nat
      /\ Bytes \in Nat /\ Bytes > 0 /\ present \in SUBSET Byte
      /\ \A i \in U : KeyAt(node, i) \in present /\ i <= Bytes - 1
      /\ \A i, j \in U : i <= j <=> KeyAt(node, i) <= KeyAt(node, j)
  <2>1. U \in SUBSET Byte /\ present \in SUBSET Byte
    BY <1>0, IndexesInOrder DEF Holds
  <2>2. /\ \A i \in U : KeyAt(node, i) \in present
        /\ \A i, j \in U : i <= j <=> KeyAt(node, i) <= KeyAt(node, j)
    BY <1>0, IndexesInOrder
  <2>3. \A i \in U : i <= Bytes - 1
    BY <2>1, Capacities DEF Byte
  <2> HIDE DEF U
  <2> QED
    BY <2>1, <2>2, <2>3, ByteNat, Capacities
<1>2. ASSUME NEW i \in Nat, NEW j \in Int, j <= Bytes - 1
      PROVE  indexes(node, i, j) = {x \in U : i <= x /\ x <= j}
  BY <1>0, <1>2, IndexSets
<1>3. IsFirst(begin(node), present, TRUE) /\ IsFirst(last(node), present, FALSE)
  <2>1. indexes(node, 0, Bytes - 1) = U
    <3>1. Bytes - 1 \in Int /\ Bytes - 1 <= Bytes - 1 /\ 0 \in Nat
      BY <1>1
    <3>2. \A x \in U : 0 <= x /\ x <= Bytes - 1
      BY <1>1
    <3> HIDE DEF U
    <3> QED
      BY <1>2, <3>1, <3>2
  <2>2. \A i \in U : i \in U <=> KeyAt(node, i) \in present
    BY <1>1
  <2>3. IsFirst(FirstOf(node, U), present, TRUE) /\ IsFirst(LastOf(node, U), present, FALSE)
    BY <2>2, FirstAndLast
  <2> QED
    BY <2>1, <2>3 DEF begin, last
<1>4. ASSUME NEW b \in present
      PROVE  LET i == child_index(node, b)
             IN /\ IsFirst(next(node, i), {x \in present : x > b}, TRUE)
                /\ IsFirst(prior(node, i), {x \in present : x < b}, FALSE)
  <2> DEFINE i == child_index(node, b)
  <2>1. i \in U /\ KeyAt(node, i) = b
    BY <1>0, IndexOfByte
  <2>2. i \in Nat /\ b \in Nat /\ i <= Bytes - 1
    BY <1>1, <2>1
  <2> HIDE DEF i, U
  <2>3. indexes(node, i + 1, Bytes - 1) = {x \in U : x > i}
    <3>1. i + 1 \in Nat /\ Bytes - 1 \in Int /\ Bytes - 1 <= Bytes - 1
      BY <1>1, <2>2
    <3>2. \A x \in U : i + 1 <= x /\ x <= Bytes - 1 <=> x > i
      BY <1>1, <2>2
    <3> QED
      BY <1>2, <3>1, <3>2
  <2>4. indexes(node, 0, i - 1) = {x \in U : x < i}
    <3>1. 0 \in Nat /\ i - 1 \in Int /\ i - 1 <= Bytes - 1
      BY <1>1, <2>2
    <3>2. \A x \in U : 0 <= x /\ x <= i - 1 <=> x < i
      BY <1>1, <2>2
    <3> QED
      BY <1>2, <3>1, <3>2
  <2>5. \A x \in U : /\ x > i <=> KeyAt(node, x) > b
                     /\ x < i <=> KeyAt(node, x) < b
    <3> SUFFICES ASSUME NEW x \in U
                 PROVE  (x > i <=> KeyAt(node, x) > b) /\ (x < i <=> KeyAt(node, x) < b)
      OBVIOUS
    <3>1. x \in Nat /\ KeyAt(node, x) \in Nat
      BY <1>1
    <3>2. (x <= i <=> KeyAt(node, x) <= b) /\ (i <= x <=> b <= KeyAt(node, x))
      BY <1>1, <2>1
    <3> QED
      BY <2>2, <3>1, <3>2
  <2>6. IsFirst(FirstOf(node, {x \in U : x > i}), {x \in present : x > b}, TRUE)
    <3>1. /\ {x \in U : x > i} \in SUBSET U /\ {x \in present : x > b} \in SUBSET present
          /\ \A y \in U : y \in {x \in U : x > i}
                             <=> KeyAt(node, y) \in {x \in present : x > b}
      BY <1>1, <2>5
    <3> QED
      BY <3>1, FirstAndLast DEF U
  <2>7. IsFirst(LastOf(node, {x \in U : x < i}), {x \in present : x < b}, FALSE)
    <3>1. /\ {x \in U : x < i} \in SUBSET U /\ {x \in present : x < b} \in SUBSET present
          /\ \A y \in U : y \in {x \in U : x < i}
                             <=> KeyAt(node, y) \in {x \in present : x < b}
      BY <1>1, <2>5
    <3> QED
      BY <3>1, FirstAndLast DEF U
  <2> QED
    BY <2>3, <2>4, <2>6, <2>7 DEF next, prior, i
<1>5. ASSUME NEW b \in Byte
      PROVE  /\ IsFirst(gte_key_byte(node, b), {x \in present : x >= b}, TRUE)
             /\ IsFirst(lte_key_byte(node, b), {x \in present : x <= b}, FALSE)
  <2> DEFINE G == {x \in U : KeyAt(node, x) >= b}
             L == {x \in U : KeyAt(node, x) <= b}
  <2>0. b \in Nat /\ b <= Bytes - 1
    BY ByteNat, Capacities DEF Byte
  <2>1. gte_key_byte(node, b) = FirstOf(node, G) /\ lte_key_byte(node, b) = LastOf(node, L)
    <3>1. CASE node.class <= 2
      <4>1. U = 0 .. node.count - 1 /\ \A i \in U : KeyAt(node, i) = node.keys[i]
        BY <3>1 DEF InUse, KeyAt
      <4>2. /\ G = {i \in 0 .. node.count - 1 : node.keys[i] >= b}
            /\ L = {i \in 0 .. node.count - 1 : node.keys[i] <= b}
        BY <4>1
      <4> QED
        BY <3>1, <4>2 DEF gte_key_byte, lte_key_byte
    <3>2. CASE ~(node.class <= 2)
      <4>1. \A i \in U : KeyAt(node, i) = i
        BY <3>2 DEF KeyAt
      <4>2. indexes(node, b, Bytes - 1) = {x \in U : b <= x /\ x <= Bytes - 1}
        BY <1>1, <1>2, <2>0
      <4>3. indexes(node, 0, b) = {x \in U : 0 <= x /\ x <= b}
        BY <1>1, <1>2, <2>0
      <4> HIDE DEF U
      <4>4. \A x \in U : /\ b <= x /\ x <= Bytes - 1 <=> KeyAt(node, x) >= b
                         /\ 0 <= x /\ x <= b <=> KeyAt(node, x) <= b
        BY <1>1, <2>0, <4>1
      <4>5. G = indexes(node, b, Bytes - 1) /\ L = indexes(node, 0, b)
        BY <4>2, <4>3, <4>4
      <4> QED
        BY <3>2, <4>5 DEF gte_key_byte, lte_key_byte
    <3> QED
      BY <3>1, <3>2
  <2>2. IsFirst(FirstOf(node, G), {x \in present : x >= b}, TRUE)
    <3>1. /\ G \in SUBSET U /\ {x \in present : x >= b} \in SUBSET present
          /\ \A y \in U : y \in G <=> KeyAt(node, y) \in {x \in present : x >= b}
      BY <1>1
    <3> QED
      BY <3>1, FirstAndLast
  <2>3. IsFirst(LastOf(node, L), {x \in present : x <= b}, FALSE)
    <3>1. /\ L \in SUBSET U /\ {x \in present : x <= b} \in SUBSET present
          /\ \A y \in U : y \in L <=> KeyAt(node, y) \in {x \in present : x <= b}
      BY <1>1
    <3> QED
      BY <3>1, FirstAndLast
  <2> QED
    BY <2>1, <2>2, <2>3
<1> QED
  BY <1>3, <1>4, <1>5 DEF IteratesInOrder

\* begin, last, next, prior, gte_key_byte and lte_key_byte go through the children in
\* the order of their key bytes, in all four classes.
THEOREM ChildrenInOrder == Spec => []IteratesInOrder
<1>1. LayoutInv => IteratesInOrder
  BY IteratesInClass DEF IteratesInOrder
<1> QED
  BY <1>1, LayoutInvariant, PTL
===============================================================================
