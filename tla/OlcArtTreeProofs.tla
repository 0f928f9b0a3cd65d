--------------------------- MODULE OlcArtTreeProofs ---------------------------
(***************************************************************************)
(* Proofs about the tree of OlcArt: each write section, taken on the state *)
(* that its thread believes in, leaves a tree that some labelling fits.    *)
(*                                                                         *)
(* The first lemmas are about labels and paths alone (PathsAdd to          *)
(* PathsSplit: the five ways in which an ART changes shape), the next ones *)
(* about children, sizes and the map, and the last ones take the write     *)
(* sections one by one.  WriteFits puts them together.                     *)
(***************************************************************************)
EXTENDS OlcArtShape, FiniteSetTheorems, WellFoundedInduction, TLAPS

\* The functions of a shape have the right domains and ranges on a set of nodes.
Shape(tree, rep, end, start) ==
    \A n \in tree : /\ rep[n] \in Bytes
                    /\ end[n] \in 0 .. KeyLen
                    /\ start[n] \in 0 .. KeyLen
                    /\ start[n] <= end[n]

\* A leaf is added below an inode that has no child at its byte.
LEMMA LaminarAdd ==
    ASSUME NEW tree, NEW rep, NEW end, NEW start, NEW bytes, NEW bytes2,
           NEW n, NEW leaf, NEW k,
           Shape(tree \cup {leaf}, rep, end, start),
           Laminar(tree, rep, end, start, bytes),
           n \in tree, leaf \notin tree,
           end[n] < KeyLen, k[end[n] + 1] \notin bytes[n], SameTo(k, rep[n], end[n]),
           rep[leaf] = k, end[leaf] = KeyLen, start[leaf] = end[n] + 1,
           \A m \in tree \ {n} : bytes2[m] = bytes[m],
           bytes2[n] = bytes[n] \cup {k[end[n] + 1]}
    PROVE  Laminar(tree \cup {leaf}, rep, end, start, bytes2)
<1> USE KeyAssumption DEF Shape, Laminar, Extends, SameTo
<1>1. \A m \in tree : ~Extends(rep, end, m, leaf, end[n] + 1)
  OBVIOUS
<1>2. \A m \in tree : Extends(rep, end, leaf, m, start[m]) => Extends(rep, end, leaf, m, end[m])
  <2> SUFFICES ASSUME NEW m \in tree, Extends(rep, end, leaf, m, start[m])
               PROVE  Extends(rep, end, leaf, m, end[m])
    OBVIOUS
  <2>1. CASE start[m] <= end[n]
    <3>1. Extends(rep, end, n, m, start[m])
      BY <2>1
    <3>2. Extends(rep, end, n, m, end[m])
      BY <3>1
    <3> QED
      BY <3>2
  <2>2. CASE start[m] > end[n]
    <3>1. Extends(rep, end, m, leaf, end[n] + 1)
      BY <2>2
    <3> QED
      BY <3>1, <1>1
  <2> QED
    BY <2>1, <2>2
<1>3. \A m \in tree : Extends(rep, end, leaf, m, end[m]) =>
          end[m] < end[leaf] /\ rep[leaf][end[m] + 1] \in bytes2[m]
  <2> SUFFICES ASSUME NEW m \in tree, Extends(rep, end, leaf, m, end[m])
               PROVE  end[m] < end[leaf] /\ rep[leaf][end[m] + 1] \in bytes2[m]
    OBVIOUS
  <2>1. CASE m = n
    BY <2>1
  <2>2. CASE m # n /\ end[m] <= end[n]
    <3>1. Extends(rep, end, n, m, end[m])
      BY <2>2
    <3>2. end[m] < end[n] /\ rep[n][end[m] + 1] \in bytes[m]
      BY <3>1, <2>2
    <3> QED
      BY <3>2, <2>2
  <2>3. CASE end[m] > end[n]
    <3>1. Extends(rep, end, m, leaf, end[n] + 1)
      BY <2>3
    <3> QED
      BY <3>1, <1>1
  <2> QED
    BY <2>1, <2>2, <2>3
<1>4. \A m, o \in tree : m # o /\ Extends(rep, end, m, o, end[o]) =>
          end[o] < end[m] /\ rep[m][end[o] + 1] \in bytes2[o]
  <2> SUFFICES ASSUME NEW m \in tree, NEW o \in tree, m # o, Extends(rep, end, m, o, end[o])
               PROVE  end[o] < end[m] /\ rep[m][end[o] + 1] \in bytes2[o]
    OBVIOUS
  <2> end[o] < end[m] /\ rep[m][end[o] + 1] \in bytes[o]
    OBVIOUS
  <2> QED
    OBVIOUS
<1>5. \A m \in tree : ~Extends(rep, end, m, leaf, end[leaf])
  BY <1>1
<1>6. \A m \in tree : ~Extends(rep, end, m, leaf, start[leaf])
  BY <1>1
<1> QED
  BY <1>2, <1>3, <1>4, <1>5, <1>6, SMTT(30)

\* A leaf is taken from below an inode.
LEMMA LaminarDrop ==
    ASSUME NEW tree, NEW rep, NEW end, NEW start, NEW bytes, NEW bytes2,
           NEW n, NEW leaf,
           Shape(tree, rep, end, start),
           Laminar(tree, rep, end, start, bytes),
           n \in tree, leaf \in tree, n # leaf,
           end[n] < KeyLen, SameTo(rep[leaf], rep[n], end[n]),
           end[leaf] = KeyLen, start[leaf] = end[n] + 1, bytes[leaf] = {},
           \A m \in tree \ {n, leaf} : bytes2[m] = bytes[m],
           bytes2[n] = bytes[n] \ {rep[leaf][end[n] + 1]}
    PROVE  Laminar(tree \ {leaf}, rep, end, start, bytes2)
<1> USE KeyAssumption DEF Shape, Laminar, Extends, SameTo
<1>1. \A m \in tree \ {leaf} : ~Extends(rep, end, m, leaf, end[leaf])
  OBVIOUS
<1>2. \A m \in tree \ {leaf} : ~Extends(rep, end, m, leaf, start[leaf])
  BY <1>1
<1>3. ASSUME NEW m \in tree \ {leaf}, m # n, Extends(rep, end, m, n, end[n])
      PROVE  end[n] < end[m] /\ rep[m][end[n] + 1] \in bytes2[n]
  <2>1. end[n] < end[m] /\ rep[m][end[n] + 1] \in bytes[n]
    BY <1>3
  <2>2. rep[m][end[n] + 1] # rep[leaf][end[n] + 1]
    <3> SUFFICES ASSUME rep[m][end[n] + 1] = rep[leaf][end[n] + 1]
                 PROVE  FALSE
      OBVIOUS
    <3>1. Extends(rep, end, m, leaf, start[leaf])
      BY <1>3, <2>1
    <3> QED
      BY <3>1, <1>2
  <2> QED
    BY <2>1, <2>2
<1>4. ASSUME NEW m \in tree \ {leaf}, NEW o \in tree \ {leaf}, m # o,
             Extends(rep, end, m, o, end[o])
      PROVE  end[o] < end[m] /\ rep[m][end[o] + 1] \in bytes2[o]
  <2>1. end[o] < end[m] /\ rep[m][end[o] + 1] \in bytes[o]
    BY <1>4
  <2>2. CASE o = n
    BY <2>2, <1>3, <1>4
  <2>3. CASE o # n
    BY <2>1, <2>3
  <2> QED
    BY <2>2, <2>3
<1> QED
  BY <1>4

\* A node takes the place of another that has the same label.
LEMMA LaminarReplace ==
    ASSUME NEW tree, NEW rep, NEW end, NEW start, NEW bytes, NEW bytes2,
           NEW n, NEW new,
           Shape(tree \cup {new}, rep, end, start),
           Laminar(tree, rep, end, start, bytes),
           n \in tree, new \notin tree,
           rep[new] = rep[n], end[new] = end[n], start[new] = start[n],
           \A m \in tree \ {n} : bytes2[m] = bytes[m],
           bytes2[new] = bytes[n]
    PROVE  Laminar((tree \ {n}) \cup {new}, rep, end, start, bytes2)
<1> USE KeyAssumption DEF Shape, Laminar, Extends, SameTo
<1> DEFINE old(m) == IF m = new THEN n ELSE m
<1>1. ASSUME NEW m \in (tree \ {n}) \cup {new}
      PROVE  /\ old(m) \in tree
             /\ rep[old(m)] = rep[m] /\ end[old(m)] = end[m] /\ start[old(m)] = start[m]
             /\ bytes[old(m)] = bytes2[m]
  BY <1>1
<1>2. ASSUME NEW m \in (tree \ {n}) \cup {new}, NEW o \in (tree \ {n}) \cup {new}, m # o
      PROVE  old(m) # old(o)
  BY <1>2
<1> HIDE DEF old
<1>3. ASSUME NEW m \in (tree \ {n}) \cup {new}, NEW o \in (tree \ {n}) \cup {new}
      PROVE  /\ Extends(rep, end, m, o, start[o]) => Extends(rep, end, m, o, end[o])
             /\ m # o /\ Extends(rep, end, m, o, end[o]) =>
                    end[o] < end[m] /\ rep[m][end[o] + 1] \in bytes2[o]
  <2>1. \A i : Extends(rep, end, m, o, i) <=> Extends(rep, end, old(m), old(o), i)
    BY <1>1, <1>3
  <2>2. Extends(rep, end, old(m), old(o), start[old(o)]) =>
            Extends(rep, end, old(m), old(o), end[old(o)])
    BY <1>1, <1>3
  <2>3. old(m) # old(o) /\ Extends(rep, end, old(m), old(o), end[old(o)]) =>
            end[old(o)] < end[old(m)] /\ rep[old(m)][end[old(o)] + 1] \in bytes[old(o)]
    BY <1>1, <1>3
  <2> HIDE DEF Extends
  <2> QED
    BY <1>1, <1>2, <1>3, <2>1, <2>2, <2>3
<1> QED
  BY <1>3

\* An inode with one child is merged with it.
LEMMA LaminarMerge ==
    ASSUME NEW tree, NEW rep, NEW end, NEW start, NEW start2, NEW bytes,
           NEW n, NEW child,
           Shape(tree, rep, end, start),
           Laminar(tree, rep, end, start, bytes),
           n \in tree, child \in tree, n # child,
           end[n] < end[child], SameTo(rep[child], rep[n], end[n]),
           start[child] = end[n] + 1, bytes[n] \subseteq {rep[child][end[n] + 1]},
           \A m \in tree \ {child} : start2[m] = start[m],
           start2[child] = start[n]
    PROVE  Laminar(tree \ {n}, rep, end, start2, bytes)
<1> USE KeyAssumption DEF Shape, Laminar, Extends, SameTo
<1>1. ASSUME NEW m \in tree \ {n}, Extends(rep, end, m, child, start[n])
      PROVE  Extends(rep, end, m, child, end[child])
  <2>1. Extends(rep, end, m, n, start[n])
    BY <1>1
  <2>2. Extends(rep, end, m, n, end[n])
    BY <2>1
  <2>3. end[n] < end[m] /\ rep[m][end[n] + 1] = rep[child][end[n] + 1]
    BY <2>2
  <2>4. Extends(rep, end, m, child, start[child])
    BY <2>2, <2>3
  <2> QED
    BY <2>4
<1>2. ASSUME NEW m \in tree \ {n}, NEW o \in tree \ {n}, Extends(rep, end, m, o, start2[o])
      PROVE  Extends(rep, end, m, o, end[o])
  <2>1. CASE o = child
    BY <1>1, <1>2, <2>1
  <2>2. CASE o # child
    BY <1>2, <2>2
  <2> QED
    BY <2>1, <2>2
<1> HIDE DEF Extends
<1> QED
  BY <1>2

\* An inode is put over a node, where its prefix is split.
LEMMA LaminarSplit ==
    ASSUME NEW tree, NEW rep, NEW end, NEW start, NEW start2, NEW bytes,
           NEW n, NEW new, NEW e,
           Shape(tree, rep, end, start), Shape(tree \cup {new}, rep, end, start2),
           Laminar(tree, rep, end, start, bytes),
           n \in tree, new \notin tree,
           e \in Nat, start[n] < e, e <= end[n],
           end[new] = e - 1, SameTo(rep[new], rep[n], e - 1),
           start2[new] = start[n], start2[n] = e,
           \A m \in tree \ {n} : start2[m] = start[m],
           bytes[new] = {rep[n][e]}
    PROVE  Laminar(tree \cup {new}, rep, end, start2, bytes)
<1> USE KeyAssumption DEF Shape, Laminar, Extends, SameTo
<1>1. ASSUME NEW m \in tree, Extends(rep, end, m, new, start[n])
      PROVE  Extends(rep, end, m, n, end[n])
  <2>1. Extends(rep, end, m, n, start[n])
    BY <1>1
  <2> QED
    BY <2>1
<1>2. ASSUME NEW m \in tree, Extends(rep, end, m, n, e)
      PROVE  Extends(rep, end, m, n, end[n])
  <2>1. Extends(rep, end, m, n, start[n])
    BY <1>2
  <2> QED
    BY <2>1
<1>3. ASSUME NEW o \in tree, o # n, end[o] <= end[n], end[o] >= start[n], Extends(rep, end, n, o, end[o])
      PROVE  FALSE
  <2>1. Extends(rep, end, o, n, start[n])
    BY <1>3
  <2>2. end[o] < end[n]
    BY <1>3
  <2> QED
    BY <2>1, <2>2
<1>4. ASSUME NEW o \in tree, Extends(rep, end, new, o, start2[o])
      PROVE  Extends(rep, end, new, o, end[o])
  <2>1. o # n
    BY <1>4
  <2>2. Extends(rep, end, n, o, start[o])
    BY <1>4, <2>1
  <2>3. Extends(rep, end, n, o, end[o])
    BY <2>2
  <2>4. end[o] < start[n]
    BY <1>3, <2>1, <2>3
  <2> QED
    BY <2>3, <2>4
<1>5. ASSUME NEW o \in tree, Extends(rep, end, new, o, end[o])
      PROVE  end[o] < end[new] /\ rep[new][end[o] + 1] \in bytes[o]
  <2>1. o # n
    BY <1>5
  <2>2. Extends(rep, end, n, o, end[o])
    BY <1>5
  <2>3. end[o] < start[n]
    BY <1>3, <2>1, <2>2
  <2>4. rep[n][end[o] + 1] \in bytes[o]
    BY <2>1, <2>2
  <2> QED
    BY <2>3, <2>4
<1>6. ASSUME NEW m \in tree, Extends(rep, end, m, new, start2[new])
      PROVE  Extends(rep, end, m, new, end[new])
  BY <1>1, <1>6
<1>7. ASSUME NEW m \in tree, Extends(rep, end, m, new, end[new])
      PROVE  end[new] < end[m] /\ rep[m][end[new] + 1] \in bytes[new]
  <2>1. Extends(rep, end, m, n, end[n])
    BY <1>1, <1>7
  <2> QED
    BY <2>1
<1>8. ASSUME NEW m \in tree, NEW o \in tree
      PROVE  /\ Extends(rep, end, m, o, start2[o]) => Extends(rep, end, m, o, end[o])
             /\ m # o /\ Extends(rep, end, m, o, end[o]) =>
                    end[o] < end[m] /\ rep[m][end[o] + 1] \in bytes[o]
  <2>1. CASE o = n
    BY <1>2, <2>1
  <2>2. CASE o # n
    BY <2>2
  <2> QED
    BY <2>1, <2>2
<1>9. /\ Extends(rep, end, new, new, start2[new]) => Extends(rep, end, new, new, end[new])
      /\ e - 1 \in Int
  OBVIOUS
<1> HIDE DEF Extends
<1> QED
  BY <1>4, <1>5, <1>6, <1>7, <1>8, <1>9

\* A node has one parent, at one byte, and the root has none.
LEMMA OneParent ==
    ASSUME NEW r, NEW kids, NEW tree, NEW rep, NEW end, NEW start,
           Shape(tree, rep, end, start), Paths(r, kids, tree, rep, end, start),
           NEW p \in tree, NEW b \in DOMAIN kids[p]
    PROVE  /\ kids[p][b] # r
           /\ end[p] < end[kids[p][b]]
           /\ \A q \in tree : \A c \in DOMAIN kids[q] :
                 kids[q][c] = kids[p][b] => q = p /\ c = b
<1> USE KeyAssumption DEF Shape, Paths
<1>1. /\ kids[p][b] # r
      /\ end[p] < end[kids[p][b]]
  OBVIOUS
<1>2. ASSUME NEW q \in tree, NEW c \in DOMAIN kids[q], kids[q][c] = kids[p][b]
      PROVE  q = p /\ c = b
  <2>1. end[q] = end[p] /\ c = b
    BY <1>2
  <2>2. Extends(rep, end, q, p, end[p])
    BY <1>2, <2>1, SMTT(30) DEF Extends, SameTo
  <2>3. q # p => end[p] < end[q]
    BY <2>2 DEF Laminar
  <2> QED
    BY <2>1, <2>3
<1> QED
  BY <1>1, <1>2

\* A new leaf as a child of n, at a byte that n had no child at, keeps the paths.
LEMMA PathsAdd ==
    ASSUME NEW r, NEW kids, NEW tree, NEW rep, NEW end, NEW start, NEW kids2,
           NEW n, NEW leaf, NEW k,
           Shape(tree \cup {leaf}, rep, end, start),
           Paths(r, kids, tree, rep, end, start),
           n \in tree, leaf \notin tree, leaf # Nil,
           end[n] < KeyLen, SameTo(k, rep[n], end[n]), k[end[n] + 1] \notin DOMAIN kids[n],
           rep[leaf] = k, end[leaf] = KeyLen, start[leaf] = end[n] + 1,
           \A m \in tree \ {n} : kids2[m] = kids[m],
           kids2[n] = add(kids[n], k[end[n] + 1], leaf), DOMAIN kids2[leaf] = {}
    PROVE  Paths(r, kids2, tree \cup {leaf}, rep, end, start)
<1> DEFINE tree2 == tree \cup {leaf}
<1>1. Shape(tree, rep, end, start)
  BY DEF Shape
<1>2. /\ DOMAIN kids2[n] = DOMAIN kids[n] \cup {k[end[n] + 1]}
      /\ kids2[n][k[end[n] + 1]] = leaf
      /\ \A b \in DOMAIN kids[n] : kids2[n][b] = kids[n][b]
  BY DEF add
<1>3. Laminar(tree2, rep, end, start, [m \in tree2 |-> DOMAIN kids2[m]])
  <2> DEFINE bytes == [m \in tree |-> DOMAIN kids[m]]
             bytes2 == [m \in tree2 |-> DOMAIN kids2[m]]
  <2>1. Laminar(tree, rep, end, start, bytes)
    BY DEF Paths
  <2>2. k[end[n] + 1] \notin bytes[n]
    OBVIOUS
  <2>3. \A m \in tree \ {n} : bytes2[m] = bytes[m]
    OBVIOUS
  <2>4. bytes2[n] = bytes[n] \cup {k[end[n] + 1]}
    BY <1>2
  <2> HIDE DEF bytes, bytes2
  <2>5. Laminar(tree2, rep, end, start, bytes2)
    BY <2>1, <2>2, <2>3, <2>4, LaminarAdd
  <2> QED
    BY <2>5 DEF bytes2
<1>4. \A m \in tree2 : start[m] <= end[m]
  BY DEF Shape
<1>5. ASSUME NEW m \in tree2, NEW b \in DOMAIN kids2[m]
      PROVE  /\ kids2[m][b] \in tree2
             /\ start[kids2[m][b]] = end[m] + 1
             /\ SameTo(rep[kids2[m][b]], rep[m], end[m])
             /\ rep[kids2[m][b]][end[m] + 1] = b
  <2>1. CASE m = n /\ b = k[end[n] + 1]
    BY <2>1, <1>2
  <2>2. CASE m = n /\ b # k[end[n] + 1]
    BY <2>2, <1>2 DEF Paths
  <2>3. CASE m # n
    BY <2>3, <1>5 DEF Paths
  <2> QED
    BY <2>1, <2>2, <2>3
<1>6. ASSUME NEW m \in tree2, m # r
      PROVE  \E p \in tree2 : \E b \in DOMAIN kids2[p] : kids2[p][b] = m
  <2>1. CASE m = leaf
    BY <2>1, <1>2
  <2>2. CASE m # leaf
    <3>1. PICK p \in tree : \E b \in DOMAIN kids[p] : kids[p][b] = m
      BY <2>2, <1>6 DEF Paths
    <3>2. PICK b \in DOMAIN kids[p] : kids[p][b] = m
      BY <3>1
    <3>3. b \in DOMAIN kids2[p] /\ kids2[p][b] = m
      BY <1>2, <3>2
    <3> QED
      BY <3>3
  <2> QED
    BY <2>1, <2>2
<1>7. (r = Nil => tree2 = {}) /\ (r # Nil => r \in tree2 /\ start[r] = 0)
  BY DEF Paths
<1> QED
  BY <1>3, <1>4, <1>5, <1>6, <1>7 DEF Paths

\* So does taking out a child of n that is a leaf.
LEMMA PathsDrop ==
    ASSUME NEW r, NEW kids, NEW tree, NEW rep, NEW end, NEW start, NEW kids2,
           NEW n, NEW b,
           Shape(tree, rep, end, start), Paths(r, kids, tree, rep, end, start),
           n \in tree, end[n] < KeyLen, b \in DOMAIN kids[n],
           end[kids[n][b]] = KeyLen, DOMAIN kids[kids[n][b]] = {},
           \A m \in tree \ {n} : kids2[m] = kids[m],
           kids2[n] = drop(kids[n], b)
    PROVE  Paths(r, kids2, tree \ {kids[n][b]}, rep, end, start)
<1> DEFINE leaf == kids[n][b]
           tree2 == tree \ {leaf}
<1>1. /\ leaf \in tree /\ start[leaf] = end[n] + 1 /\ SameTo(rep[leaf], rep[n], end[n])
      /\ rep[leaf][end[n] + 1] = b
  BY DEF Paths
<1>2. /\ leaf # r /\ leaf # n
      /\ \A q \in tree : \A c \in DOMAIN kids[q] : kids[q][c] = leaf => q = n /\ c = b
  <2>1. leaf # n
    BY <1>1, KeyAssumption DEF Shape
  <2> QED
    BY <2>1, OneParent
<1>3. /\ DOMAIN kids2[n] = DOMAIN kids[n] \ {b}
      /\ \A c \in DOMAIN kids[n] \ {b} : kids2[n][c] = kids[n][c]
  BY DEF drop
<1>4. DOMAIN kids[leaf] = {} /\ end[leaf] = KeyLen
  OBVIOUS
<1> HIDE DEF leaf
<1>5. Laminar(tree2, rep, end, start, [m \in tree2 |-> DOMAIN kids2[m]])
  <2> DEFINE bytes == [m \in tree |-> DOMAIN kids[m]]
             bytes2 == [m \in tree2 |-> DOMAIN kids2[m]]
  <2>1. Laminar(tree, rep, end, start, bytes)
    BY DEF Paths
  <2>2. bytes[leaf] = {}
    BY <1>1, <1>4
  <2>3. \A m \in tree \ {n, leaf} : bytes2[m] = bytes[m]
    OBVIOUS
  <2>4. bytes2[n] = bytes[n] \ {rep[leaf][end[n] + 1]}
    BY <1>1, <1>2, <1>3
  <2> HIDE DEF bytes, bytes2
  <2>5. Laminar(tree2, rep, end, start, bytes2)
    BY <2>1, <2>2, <2>3, <2>4, <1>1, <1>2, <1>4, LaminarDrop
  <2> QED
    BY <2>5 DEF bytes2
<1>6. \A m \in tree2 : start[m] <= end[m]
  BY DEF Shape
<1>7. ASSUME NEW m \in tree2, NEW c \in DOMAIN kids2[m]
      PROVE  /\ kids2[m][c] \in tree2
             /\ start[kids2[m][c]] = end[m] + 1
             /\ SameTo(rep[kids2[m][c]], rep[m], end[m])
             /\ rep[kids2[m][c]][end[m] + 1] = c
  <2>1. c \in DOMAIN kids[m] /\ kids2[m][c] = kids[m][c] /\ (m # n \/ c # b)
    BY <1>3, <1>7
  <2>2. kids[m][c] # leaf
    BY <1>2, <2>1
  <2> QED
    BY <2>1, <2>2 DEF Paths
<1>8. ASSUME NEW m \in tree2, m # r
      PROVE  \E p \in tree2 : \E c \in DOMAIN kids2[p] : kids2[p][c] = m
  <2>1. PICK p \in tree : \E c \in DOMAIN kids[p] : kids[p][c] = m
    BY <1>8 DEF Paths
  <2>2. PICK c \in DOMAIN kids[p] : kids[p][c] = m
    BY <2>1
  <2>3. p # leaf
    BY <1>4, <2>2
  <2>4. p # n \/ c # b
    BY <2>2 DEF leaf
  <2>5. c \in DOMAIN kids2[p] /\ kids2[p][c] = m
    BY <1>3, <2>2, <2>4
  <2> QED
    BY <2>3, <2>5
<1>9. (r = Nil => tree2 = {}) /\ (r # Nil => r \in tree2 /\ start[r] = 0)
  BY <1>2 DEF Paths
<1> QED
  BY <1>5, <1>6, <1>7, <1>8, <1>9 DEF Paths, leaf

\* What pointed to n, the root pointer or a slot of a node other than n, points to x.
Relink(r, kids, r2, kids2, tree, n, x) ==
    \/ r = n /\ r2 = x /\ \A m \in tree \ {n} : kids2[m] = kids[m]
    \/ /\ r # n /\ r2 = r
       /\ \E p \in tree \ {n} : \E b \in DOMAIN kids[p] :
             /\ kids[p][b] = n
             /\ kids2[p] = [kids[p] EXCEPT ![b] = x]
             /\ \A m \in tree \ {n, p} : kids2[m] = kids[m]

\* So every slot keeps its contents, but for the one that was n.
LEMMA RelinkSlots ==
    ASSUME NEW r, NEW kids, NEW tree, NEW rep, NEW end, NEW start, NEW r2, NEW kids2,
           NEW n, NEW x,
           Shape(tree, rep, end, start), Paths(r, kids, tree, rep, end, start),
           n \in tree, Relink(r, kids, r2, kids2, tree, n, x)
    PROVE  /\ \A m \in tree \ {n} :
                 /\ DOMAIN kids2[m] = DOMAIN kids[m]
                 /\ \A b \in DOMAIN kids[m] :
                       kids2[m][b] = IF kids[m][b] = n THEN x ELSE kids[m][b]
           /\ r2 = IF r = n THEN x ELSE r
           /\ r # n => \E p \in tree \ {n} : \E b \in DOMAIN kids[p] : kids[p][b] = n
<1>1. CASE r = n /\ r2 = x /\ \A m \in tree \ {n} : kids2[m] = kids[m]
  <2>1. \A m \in tree : \A b \in DOMAIN kids[m] : kids[m][b] # n
    BY <1>1, OneParent
  <2> QED
    BY <1>1, <2>1
<1>2. CASE /\ r # n /\ r2 = r
           /\ \E p \in tree \ {n} : \E b \in DOMAIN kids[p] :
                 /\ kids[p][b] = n
                 /\ kids2[p] = [kids[p] EXCEPT ![b] = x]
                 /\ \A m \in tree \ {n, p} : kids2[m] = kids[m]
  <2>1. PICK p \in tree \ {n} : \E b \in DOMAIN kids[p] :
                 /\ kids[p][b] = n
                 /\ kids2[p] = [kids[p] EXCEPT ![b] = x]
                 /\ \A m \in tree \ {n, p} : kids2[m] = kids[m]
    BY <1>2
  <2>2. PICK b \in DOMAIN kids[p] :
                 /\ kids[p][b] = n
                 /\ kids2[p] = [kids[p] EXCEPT ![b] = x]
                 /\ \A m \in tree \ {n, p} : kids2[m] = kids[m]
    BY <2>1
  <2>3. \A m \in tree : \A c \in DOMAIN kids[m] : kids[m][c] = n => m = p /\ c = b
    BY <2>2, OneParent
  <2>4. ASSUME NEW m \in tree \ {n}
        PROVE  /\ DOMAIN kids2[m] = DOMAIN kids[m]
               /\ \A c \in DOMAIN kids[m] :
                       kids2[m][c] = IF kids[m][c] = n THEN x ELSE kids[m][c]
    <3>1. CASE m = p
      BY <2>2, <2>3, <3>1
    <3>2. CASE m # p
      BY <2>2, <2>3, <3>2
    <3> QED
      BY <3>1, <3>2
  <2> QED
    BY <1>2, <2>2, <2>4
<1> QED
  BY <1>1, <1>2 DEF Relink

\* So does putting a copy of n in the place of n, which then has a new node.
LEMMA PathsReplace ==
    ASSUME NEW r, NEW kids, NEW tree, NEW rep, NEW end, NEW start, NEW r2, NEW kids2,
           NEW n, NEW new,
           Shape(tree \cup {new}, rep, end, start),
           Paths(r, kids, tree, rep, end, start),
           n \in tree, new \notin tree, Nil \notin tree, new # Nil,
           rep[new] = rep[n], end[new] = end[n], start[new] = start[n],
           Relink(r, kids, r2, kids2, tree, n, new),
           kids2[new] = kids[n]
    PROVE  Paths(r2, kids2, (tree \ {n}) \cup {new}, rep, end, start)
<1> DEFINE tree2 == (tree \ {n}) \cup {new}
<1>1. Shape(tree, rep, end, start)
  BY DEF Shape
<1>2. /\ \A m \in tree \ {n} :
            /\ DOMAIN kids2[m] = DOMAIN kids[m]
            /\ \A b \in DOMAIN kids[m] :
                  kids2[m][b] = IF kids[m][b] = n THEN new ELSE kids[m][b]
      /\ r2 = IF r = n THEN new ELSE r
      /\ r # n => \E p \in tree \ {n} : \E b \in DOMAIN kids[p] : kids[p][b] = n
  BY <1>1, RelinkSlots
<1>3. \A b \in DOMAIN kids[n] : kids[n][b] # n
  <2>1. ASSUME NEW b \in DOMAIN kids[n]
        PROVE  end[n] < end[kids[n][b]]
    BY <1>1, OneParent
  <2> QED
    BY <2>1, KeyAssumption DEF Shape
<1>4. Laminar(tree2, rep, end, start, [m \in tree2 |-> DOMAIN kids2[m]])
  <2> DEFINE bytes == [m \in tree |-> DOMAIN kids[m]]
             bytes2 == [m \in tree2 |-> DOMAIN kids2[m]]
  <2>1. Laminar(tree, rep, end, start, bytes)
    BY DEF Paths
  <2>2. \A m \in tree \ {n} : bytes2[m] = bytes[m]
    BY <1>2
  <2>3. bytes2[new] = bytes[n]
    OBVIOUS
  <2> HIDE DEF bytes, bytes2
  <2>4. Laminar(tree2, rep, end, start, bytes2)
    BY <2>1, <2>2, <2>3, LaminarReplace
  <2> QED
    BY <2>4 DEF bytes2
<1>5. \A m \in tree2 : start[m] <= end[m]
  BY DEF Shape
<1>6. ASSUME NEW m \in tree2, NEW b \in DOMAIN kids2[m]
      PROVE  /\ kids2[m][b] \in tree2
             /\ start[kids2[m][b]] = end[m] + 1
             /\ SameTo(rep[kids2[m][b]], rep[m], end[m])
             /\ rep[kids2[m][b]][end[m] + 1] = b
  <2>1. CASE m = new
    BY <1>3, <2>1, <1>6 DEF Paths
  <2>2. CASE m # new
    <3>1. m \in tree \ {n} /\ b \in DOMAIN kids[m]
      BY <2>2, <1>2, <1>6
    <3>2. /\ kids[m][b] \in tree
          /\ start[kids[m][b]] = end[m] + 1
          /\ SameTo(rep[kids[m][b]], rep[m], end[m])
          /\ rep[kids[m][b]][end[m] + 1] = b
      BY <3>1 DEF Paths
    <3> QED
      BY <3>1, <3>2, <1>2
  <2> QED
    BY <2>1, <2>2
<1>7. ASSUME NEW m \in tree2, m # r2
      PROVE  \E p \in tree2 : \E b \in DOMAIN kids2[p] : kids2[p][b] = m
  <2>1. CASE m = new
    <3>1. PICK p \in tree \ {n} : \E b \in DOMAIN kids[p] : kids[p][b] = n
      BY <1>2, <1>7, <2>1
    <3>2. PICK b \in DOMAIN kids[p] : kids[p][b] = n
      BY <3>1
    <3>3. b \in DOMAIN kids2[p] /\ kids2[p][b] = m
      BY <2>1, <3>2, <1>2
    <3> QED
      BY <3>3
  <2>2. CASE m # new
    <3>1. PICK p \in tree : \E b \in DOMAIN kids[p] : kids[p][b] = m
      BY <1>2, <1>7, <2>2 DEF Paths
    <3>2. PICK b \in DOMAIN kids[p] : kids[p][b] = m
      BY <3>1
    <3>3. CASE p = n
      BY <3>2, <3>3
    <3>4. CASE p # n
      BY <2>2, <3>2, <3>4, <1>2
    <3> QED
      BY <3>3, <3>4
  <2> QED
    BY <2>1, <2>2
<1>8. (r2 = Nil => tree2 = {}) /\ (r2 # Nil => r2 \in tree2 /\ start[r2] = 0)
  BY <1>2 DEF Paths
<1> QED
  BY <1>4, <1>5, <1>6, <1>7, <1>8 DEF Paths

\* So does taking out n when it has one child, which goes in its place; the path to
\* that child is then the one that led to n.
LEMMA PathsMerge ==
    ASSUME NEW r, NEW kids, NEW tree, NEW rep, NEW end, NEW start, NEW r2, NEW kids2,
           NEW start2, NEW n, NEW b,
           Shape(tree, rep, end, start), Shape(tree, rep, end, start2),
           Paths(r, kids, tree, rep, end, start),
           n \in tree, Nil \notin tree, DOMAIN kids[n] = {b},
           start2[kids[n][b]] = start[n],
           \A m \in tree \ {kids[n][b]} : start2[m] = start[m],
           Relink(r, kids, r2, kids2, tree, n, kids[n][b]),
           kids2[kids[n][b]] = kids[kids[n][b]]
    PROVE  Paths(r2, kids2, tree \ {n}, rep, end, start2)
<1> DEFINE child == kids[n][b]
           tree2 == tree \ {n}
<1>1. /\ \A m \in tree \ {n} :
            /\ DOMAIN kids2[m] = DOMAIN kids[m]
            /\ \A c \in DOMAIN kids[m] :
                  kids2[m][c] = IF kids[m][c] = n THEN child ELSE kids[m][c]
      /\ r2 = IF r = n THEN child ELSE r
      /\ r # n => \E p \in tree \ {n} : \E c \in DOMAIN kids[p] : kids[p][c] = n
  BY RelinkSlots
<1>2. /\ child # r /\ end[n] < end[child]
      /\ \A q \in tree : \A c \in DOMAIN kids[q] : kids[q][c] = child => q = n /\ c = b
  BY OneParent
<1>3. /\ child \in tree /\ start[child] = end[n] + 1
      /\ SameTo(rep[child], rep[n], end[n]) /\ rep[child][end[n] + 1] = b
  BY DEF Paths
<1>4. n # child
  BY <1>2, <1>3, KeyAssumption DEF Shape
<1>5. start2[child] = start[n] /\ \A m \in tree \ {child} : start2[m] = start[m]
  OBVIOUS
<1>6. kids2[child] = kids[child] /\ DOMAIN kids[n] = {b} /\ kids[n][b] = child
  OBVIOUS
<1> HIDE DEF child
<1>7. Laminar(tree2, rep, end, start2, [m \in tree2 |-> DOMAIN kids2[m]])
  <2> DEFINE bytes == [m \in tree |-> DOMAIN kids[m]]
             bytes2 == [m \in tree2 |-> DOMAIN kids2[m]]
  <2>1. Laminar(tree, rep, end, start, bytes)
    BY DEF Paths
  <2>2. bytes[n] \subseteq {rep[child][end[n] + 1]}
    BY <1>3
  <2>3. \A m \in tree2 : bytes2[m] = bytes[m]
    BY <1>1
  <2> HIDE DEF bytes, bytes2
  <2>4. Laminar(tree2, rep, end, start2, bytes)
    BY <2>1, <2>2, <1>2, <1>3, <1>4, <1>5, LaminarMerge
  <2>5. Laminar(tree2, rep, end, start2, bytes2)
    BY <2>3, <2>4 DEF Laminar
  <2> QED
    BY <2>5 DEF bytes2
<1>8. \A m \in tree2 : start2[m] <= end[m]
  BY DEF Shape
<1>9. ASSUME NEW m \in tree2, NEW c \in DOMAIN kids2[m]
      PROVE  /\ kids2[m][c] \in tree2
             /\ start2[kids2[m][c]] = end[m] + 1
             /\ SameTo(rep[kids2[m][c]], rep[m], end[m])
             /\ rep[kids2[m][c]][end[m] + 1] = c
  <2>1. m \in tree \ {n} /\ c \in DOMAIN kids[m]
    BY <1>1, <1>9
  <2>2. /\ kids[m][c] \in tree /\ kids[m][c] # child
        /\ start[kids[m][c]] = end[m] + 1
        /\ SameTo(rep[kids[m][c]], rep[m], end[m])
        /\ rep[kids[m][c]][end[m] + 1] = c
    BY <2>1, <1>2 DEF Paths
  <2>3. CASE kids[m][c] # n
    BY <2>1, <2>2, <2>3, <1>1, <1>5
  <2>4. CASE kids[m][c] = n
    <3>1. kids2[m][c] = child
      BY <2>1, <2>4, <1>1
    <3>2. end[m] + 1 <= end[n] /\ end[m] \in Int /\ end[n] \in Int
      BY <2>2, <2>4, KeyAssumption DEF Shape
    <3>3. SameTo(rep[child], rep[m], end[m]) /\ rep[child][end[m] + 1] = c
      BY <2>2, <2>4, <3>2, <1>3, KeyAssumption DEF SameTo, Shape
    <3> QED
      BY <3>1, <3>3, <2>2, <2>4, <1>3, <1>4, <1>5
  <2> QED
    BY <2>3, <2>4
<1>10. ASSUME NEW m \in tree2, m # r2
      PROVE  \E p \in tree2 : \E c \in DOMAIN kids2[p] : kids2[p][c] = m
  <2>1. CASE m = child
    <3>1. PICK p \in tree \ {n} : \E c \in DOMAIN kids[p] : kids[p][c] = n
      BY <1>1, <1>10, <2>1
    <3>2. PICK c \in DOMAIN kids[p] : kids[p][c] = n
      BY <3>1
    <3>3. c \in DOMAIN kids2[p] /\ kids2[p][c] = m
      BY <2>1, <3>2, <1>1
    <3> QED
      BY <3>3
  <2>2. CASE m # child
    <3>1. PICK p \in tree : \E c \in DOMAIN kids[p] : kids[p][c] = m
      BY <1>1, <1>10, <2>2 DEF Paths
    <3>2. PICK c \in DOMAIN kids[p] : kids[p][c] = m
      BY <3>1
    <3>3. p # n
      BY <3>2, <2>2, <1>6
    <3> QED
      BY <2>2, <3>2, <3>3, <1>1
  <2> QED
    BY <2>1, <2>2
<1>11. (r2 = Nil => tree2 = {}) /\ (r2 # Nil => r2 \in tree2 /\ start2[r2] = 0)
  BY <1>1, <1>2, <1>3, <1>4, <1>5 DEF Paths
<1> QED
  BY <1>7, <1>8, <1>9, <1>10, <1>11 DEF Paths

\* So does putting an inode on the path to n, between bytes of its label, with n as its
\* only child.
LEMMA PathsSplit ==
    ASSUME NEW r, NEW kids, NEW tree, NEW rep, NEW end, NEW start, NEW r2, NEW kids2,
           NEW start2, NEW n, NEW new, NEW e,
           Shape(tree, rep, end, start), Shape(tree \cup {new}, rep, end, start2),
           Paths(r, kids, tree, rep, end, start),
           n \in tree, new \notin tree, Nil \notin tree, new # Nil,
           e \in Nat, start[n] < e, e <= end[n],
           end[new] = e - 1, SameTo(rep[new], rep[n], e - 1),
           start2[new] = start[n], start2[n] = e,
           \A m \in tree \ {n} : start2[m] = start[m],
           Relink(r, kids, r2, kids2, tree, n, new),
           kids2[n] = kids[n], DOMAIN kids2[new] = {rep[n][e]}, kids2[new][rep[n][e]] = n
    PROVE  Paths(r2, kids2, tree \cup {new}, rep, end, start2)
<1> DEFINE tree2 == tree \cup {new}
<1>1. /\ \A m \in tree \ {n} :
            /\ DOMAIN kids2[m] = DOMAIN kids[m]
            /\ \A c \in DOMAIN kids[m] :
                  kids2[m][c] = IF kids[m][c] = n THEN new ELSE kids[m][c]
      /\ r2 = IF r = n THEN new ELSE r
      /\ r # n => \E p \in tree \ {n} : \E c \in DOMAIN kids[p] : kids[p][c] = n
  BY RelinkSlots
<1>2. \A b \in DOMAIN kids[n] : kids[n][b] # n
  <2>1. ASSUME NEW b \in DOMAIN kids[n]
        PROVE  end[n] < end[kids[n][b]]
    BY <1>1, OneParent
  <2> QED
    BY <2>1, KeyAssumption DEF Shape
<1>3. Laminar(tree2, rep, end, start2, [m \in tree2 |-> DOMAIN kids2[m]])
  <2> DEFINE bytes == [m \in tree |-> DOMAIN kids[m]]
             bytes2 == [m \in tree2 |-> DOMAIN kids2[m]]
  <2>1. Laminar(tree, rep, end, start, bytes)
    BY DEF Paths
  <2>2. \A m \in tree : bytes2[m] = bytes[m]
    BY <1>1
  <2>3. bytes2[new] = {rep[n][e]}
    OBVIOUS
  <2> HIDE DEF bytes, bytes2
  <2>4. Laminar(tree, rep, end, start, bytes2)
    BY <2>1, <2>2 DEF Laminar
  <2>5. Laminar(tree2, rep, end, start2, bytes2)
    BY <2>3, <2>4, LaminarSplit
  <2> QED
    BY <2>5 DEF bytes2
<1>4. \A m \in tree2 : start2[m] <= end[m]
  BY DEF Shape
<1>5. ASSUME NEW m \in tree2, NEW c \in DOMAIN kids2[m]
      PROVE  /\ kids2[m][c] \in tree2
             /\ start2[kids2[m][c]] = end[m] + 1
             /\ SameTo(rep[kids2[m][c]], rep[m], end[m])
             /\ rep[kids2[m][c]][end[m] + 1] = c
  <2>1. CASE m = new
    <3>1. c = rep[n][e] /\ kids2[m][c] = n /\ end[m] + 1 = e
      BY <2>1, <1>5
    <3>2. SameTo(rep[n], rep[m], end[m])
      BY <2>1 DEF SameTo
    <3> QED
      BY <3>1, <3>2
  <2>2. CASE m # new
    <3>1. m \in tree /\ c \in DOMAIN kids[m]
      BY <1>1, <1>5, <2>2
    <3>2. /\ kids[m][c] \in tree
          /\ start[kids[m][c]] = end[m] + 1
          /\ SameTo(rep[kids[m][c]], rep[m], end[m])
          /\ rep[kids[m][c]][end[m] + 1] = c
      BY <3>1 DEF Paths
    <3>3. CASE kids[m][c] # n
      BY <3>1, <3>2, <3>3, <1>1
    <3>4. CASE kids[m][c] = n
      <4>1. kids2[m][c] = new /\ start[n] = end[m] + 1
        BY <3>1, <3>2, <3>4, <1>1, <1>2
      <4>2. SameTo(rep[new], rep[m], end[m]) /\ rep[new][end[m] + 1] = c
        BY <3>1, <3>2, <3>4, <4>1, KeyAssumption DEF SameTo, Shape
      <4> QED
        BY <4>1, <4>2
    <3> QED
      BY <3>3, <3>4
  <2> QED
    BY <2>1, <2>2
<1>6. ASSUME NEW m \in tree2, m # r2
      PROVE  \E p \in tree2 : \E c \in DOMAIN kids2[p] : kids2[p][c] = m
  <2>1. CASE m = new
    <3>1. PICK p \in tree \ {n} : \E c \in DOMAIN kids[p] : kids[p][c] = n
      BY <1>1, <1>6, <2>1
    <3>2. PICK c \in DOMAIN kids[p] : kids[p][c] = n
      BY <3>1
    <3>3. c \in DOMAIN kids2[p] /\ kids2[p][c] = m
      BY <2>1, <3>2, <1>1
    <3> QED
      BY <3>3
  <2>2. CASE m = n
    BY <2>2
  <2>3. CASE m # new /\ m # n
    <3>1. PICK p \in tree : \E c \in DOMAIN kids[p] : kids[p][c] = m
      BY <1>1, <1>6, <2>3 DEF Paths
    <3>2. PICK c \in DOMAIN kids[p] : kids[p][c] = m
      BY <3>1
    <3>3. c \in DOMAIN kids2[p] /\ kids2[p][c] = m
      BY <2>3, <3>2, <1>1
    <3> QED
      BY <3>3
  <2> QED
    BY <2>1, <2>2, <2>3
<1>7. (r2 = Nil => tree2 = {}) /\ (r2 # Nil => r2 \in tree2 /\ start2[r2] = 0)
  BY <1>1 DEF Paths
<1> QED
  BY <1>3, <1>4, <1>5, <1>6, <1>7 DEF Paths

(***************************************************************************)
(* Operators of the model.                                                 *)
(***************************************************************************)
\* A set of natural numbers has a least element.
LEMMA LeastNat ==
    ASSUME NEW S \in SUBSET Nat, S # {}
    PROVE  \E x \in S : \A y \in S : x <= y
<1>1. PICK x \in S : \A y \in S : ~(<<y, x>> \in OpToRel(<, Nat))
  BY NatLessThanWellFounded, WFMin
<1>2. OpToRel(<, Nat) = {ss \in Nat \X Nat : ss[1] < ss[2]}
  BY Zenon DEF OpToRel
<1>3. \A y \in S : ~(<<y, x>> \in {ss \in Nat \X Nat : ss[1] < ss[2]})
  BY <1>1, <1>2, Zenon
<1>4. ASSUME NEW y \in S PROVE x <= y
  <2>1. <<y, x>> \in Nat \X Nat /\ ~(<<y, x>>[1] < <<y, x>>[2])
    BY <1>3
  <2> QED
    BY <2>1
<1> QED
  BY <1>4

\* The shared length is where the prefix first differs from the key, or its length.
LEMMA SharedLength ==
    ASSUME NEW p \in Seq(Byte), NEW k, NEW d \in Nat
    PROVE  LET n == get_shared_length(p, k, d)
           IN /\ n \in 0 .. Len(p)
              /\ \A i \in 1 .. n : p[i] = ByteAt(k, d + i)
              /\ n < Len(p) => p[n + 1] # ByteAt(k, d + n + 1)
<1> DEFINE S == {n \in 0 .. Len(p) : n < Len(p) => p[n + 1] # ByteAt(k, d + n + 1)}
<1>1. S \in SUBSET Nat /\ Len(p) \in S
  OBVIOUS
<1>2. PICK n \in S : \A y \in S : n <= y
  BY <1>1, LeastNat
<1>3. n \in 0 .. Len(p) /\ (n < Len(p) => p[n + 1] # ByteAt(k, d + n + 1))
  OBVIOUS
<1>4. ASSUME NEW i \in 1 .. n PROVE p[i] = ByteAt(k, d + i)
  <2>1. i - 1 \in 0 .. Len(p) /\ i - 1 < n /\ i - 1 < Len(p) /\ i - 1 + 1 = i
    BY <1>3
  <2>2. i - 1 \notin S
    BY <1>2, <2>1
  <2>3. d + (i - 1) + 1 = d + i
    OBVIOUS
  <2> QED
    BY <2>1, <2>2, <2>3
<1> HIDE DEF S
<1> QED
  BY <1>3, <1>4 DEF get_shared_length

\* Bytes of a key.
LEMMA KeyBytes ==
    ASSUME NEW k \in Key
    PROVE  /\ k \in Bytes /\ k \in Seq(Byte) /\ Len(k) = KeyLen
           /\ \A i \in 1 .. KeyLen : ByteAt(k, i) = k[i] /\ k[i] \in Byte
<1>1. k \in [1 .. KeyLen -> Byte] /\ KeyLen \in Nat
  BY KeyAssumption
<1>2. k \in Seq(Byte) /\ Len(k) = KeyLen
  BY <1>1
<1> QED
  BY <1>1, <1>2 DEF Bytes, ByteAt

\* Numbers of children.
LEMMA KidsFinite ==
    ASSUME NEW f \in Kids
    PROVE  /\ DOMAIN f \subseteq Byte /\ IsFiniteSet(DOMAIN f)
           /\ Cardinality(DOMAIN f) \in Nat /\ Cardinality(DOMAIN f) <= Cardinality(Byte)
           /\ \A b \in DOMAIN f : f[b] \in Node
<1>1. PICK S \in SUBSET Byte : f \in [S -> Node]
  BY DEF Kids
<1>2. DOMAIN f = S
  BY <1>1
<1>3. IsFiniteSet(Byte)
  BY KeyAssumption
<1>4. IsFiniteSet(S) /\ Cardinality(S) <= Cardinality(Byte)
  BY <1>3, FS_Subset
<1>5. Cardinality(S) \in Nat
  BY <1>4, FS_CardinalityType
<1> QED
  BY <1>1, <1>2, <1>4, <1>5

\* A child at one more byte.
LEMMA KidsAdd ==
    ASSUME NEW f \in Kids, NEW b \in Byte, NEW n \in Node
    PROVE  /\ add(f, b, n) \in Kids
           /\ DOMAIN add(f, b, n) = DOMAIN f \cup {b}
           /\ add(f, b, n)[b] = n
           /\ \A c \in DOMAIN f : c # b => add(f, b, n)[c] = f[c]
           /\ b \notin DOMAIN f =>
                 Cardinality(DOMAIN add(f, b, n)) = Cardinality(DOMAIN f) + 1
<1>1. DOMAIN add(f, b, n) = DOMAIN f \cup {b}
  BY DEF add
<1>2. \A c \in DOMAIN f \cup {b} : add(f, b, n)[c] = IF c = b THEN n ELSE f[c]
  BY DEF add
<1>3. DOMAIN f \cup {b} \in SUBSET Byte
  BY KidsFinite
<1>4. add(f, b, n) \in [DOMAIN f \cup {b} -> Node]
  BY KidsFinite DEF add
<1>5. add(f, b, n) \in Kids
  BY <1>3, <1>4 DEF Kids
<1>6. b \notin DOMAIN f => Cardinality(DOMAIN f \cup {b}) = Cardinality(DOMAIN f) + 1
  BY KidsFinite, FS_AddElement
<1> QED
  BY <1>1, <1>2, <1>5, <1>6

\* One child fewer.
LEMMA KidsDrop ==
    ASSUME NEW f \in Kids, NEW b \in DOMAIN f
    PROVE  /\ drop(f, b) \in Kids
           /\ DOMAIN drop(f, b) = DOMAIN f \ {b}
           /\ \A c \in DOMAIN f \ {b} : drop(f, b)[c] = f[c]
           /\ Cardinality(DOMAIN drop(f, b)) = Cardinality(DOMAIN f) - 1
<1>1. DOMAIN drop(f, b) = DOMAIN f \ {b}
  BY DEF drop
<1>2. \A c \in DOMAIN f \ {b} : drop(f, b)[c] = f[c]
  BY DEF drop
<1>3. DOMAIN f \ {b} \in SUBSET Byte
  BY KidsFinite
<1>4. drop(f, b) \in [DOMAIN f \ {b} -> Node]
  BY KidsFinite DEF drop
<1>5. drop(f, b) \in Kids
  BY <1>3, <1>4 DEF Kids
<1>6. Cardinality(DOMAIN f \ {b}) = Cardinality(DOMAIN f) - 1
  BY KidsFinite, FS_RemoveElement
<1> QED
  BY <1>1, <1>2, <1>5, <1>6

\* Another child at a byte.
LEMMA KidsSet ==
    ASSUME NEW f \in Kids, NEW b \in DOMAIN f, NEW n \in Node
    PROVE  [f EXCEPT ![b] = n] \in Kids
<1>1. PICK S \in SUBSET Byte : f \in [S -> Node]
  BY DEF Kids
<1>2. [f EXCEPT ![b] = n] \in [S -> Node]
  BY <1>1
<1> QED
  BY <1>2 DEF Kids

(***************************************************************************)
(* Nodes.                                                                  *)
(***************************************************************************)
LEMMA LeafFields ==
    ASSUME nodes \in [Node -> AnyNode], NEW n, IsLeaf(n)
    PROVE  nodes[n] = Leaf(nodes[n].key) /\ nodes[n].key \in Key
<1>1. n \in Node /\ nodes[n] \in AnyNode /\ nodes[n].kind = "leaf"
  BY DEF IsLeaf, IsUsed
<1>2. nodes[n] \in [kind : {"leaf"}, key : Key]
  BY <1>1 DEF AnyNode, Unused
<1> QED
  BY <1>2 DEF Leaf

\* The fields of an inode and their types.
LEMMA InodeFields ==
    ASSUME nodes \in [Node -> AnyNode], NEW n, IsInode(n)
    PROVE  /\ nodes[n] = Inode(nodes[n].class, nodes[n].prefix, nodes[n].kids)
           /\ nodes[n].class \in 1 .. Len(Cap)
           /\ nodes[n].prefix \in Seq(Byte)
           /\ nodes[n].kids \in Kids
           /\ n \in Node
<1>1. n \in Node /\ nodes[n] \in AnyNode /\ nodes[n].kind = "inode"
  BY DEF IsInode, IsUsed
<1>2. nodes[n] \in [kind : {"inode"}, class : 1 .. Len(Cap), prefix : Seq(Byte), kids : Kids]
  BY <1>1 DEF AnyNode, Unused
<1> QED
  BY <1>1, <1>2 DEF Inode

\* A node in use is a leaf or an inode.
LEMMA UsedKinds ==
    ASSUME nodes \in [Node -> AnyNode], NEW n, IsUsed(n)
    PROVE  (IsLeaf(n) \/ IsInode(n)) /\ ~(IsLeaf(n) /\ IsInode(n))
<1>1. n \in Node /\ nodes[n] \in AnyNode /\ nodes[n] # Unused
  BY DEF IsUsed
<1>2. nodes[n].kind \in {"leaf", "inode"}
  BY <1>1 DEF AnyNode
<1> QED
  BY <1>2 DEF IsLeaf, IsInode

\* The fields of a new leaf and of a new inode.
LEMMA NewKinds ==
    /\ \A k : Leaf(k) # Unused /\ Leaf(k).kind = "leaf" /\ Leaf(k).key = k
    /\ \A c, p, f : /\ Inode(c, p, f) # Unused /\ Inode(c, p, f).kind = "inode"
                    /\ Inode(c, p, f).class = c /\ Inode(c, p, f).prefix = p
                    /\ Inode(c, p, f).kids = f
    /\ \A k \in Key : Leaf(k) \in AnyNode
    /\ \A c \in 1 .. Len(Cap), p \in Seq(Byte), f \in Kids : Inode(c, p, f) \in AnyNode
  BY DEF Leaf, Inode, Unused, AnyNode

\* The number of nodes made so far is a natural number.
LEMMA UsedNat ==
    used \in Nat
<1>1. IsFiniteSet(Node)
  BY BoundAssumption, FS_Interval DEF Node
<1>2. IsFiniteSet({n \in Node : nodes[n] # Unused})
  BY <1>1, FS_Subset
<1> QED
  BY <1>2, FS_CardinalityType DEF used

\* Nodes are allocated one after the other.
LEMMA Allocated ==
    ASSUME NEW i \in Nat, used + i <= MaxNode,
           \A n \in Node : nodes'[n] # Unused <=> n <= used + i
    PROVE  used' = used + i
<1>1. {n \in Node : nodes'[n] # Unused} = 1 .. (used + i)
  BY UsedNat, BoundAssumption DEF Node
<1>2. Cardinality(1 .. (used + i)) = used + i
  <2>1. 1 \in Int /\ used + i \in Int
    BY UsedNat
  <2>2. Cardinality(1 .. (used + i)) = IF 1 > used + i THEN 0 ELSE (used + i) - 1 + 1
    BY <2>1, FS_Interval
  <2> QED
    BY <2>2, UsedNat
<1>3. used' = Cardinality({n \in Node : nodes'[n] # Unused})
  BY DEF used
<1> QED
  BY <1>1, <1>2, <1>3

(***************************************************************************)
(* At a commit.                                                            *)
(***************************************************************************)
LEMMA AtCommit ==
    ASSUME NEW tree, NEW rep, NEW end, NEW start, Inv(tree, rep, end, start),
           NEW t \in Thread, pc[t] \in Commits, todo[t] = <<>>
    PROVE  /\ Believes(t, tree, rep, end, start)
           /\ key[t] \in Key
           /\ \A r \in Role : Guards(pc[t], r) => Mine(t, at[t][r])
           /\ \A l : Retired(t, l) <=> \E r \in Role : Retires(pc[t], r) /\ l = at[t][r]
           /\ t \notin torn
<1>1. t \notin torn
  BY DEF Inv, ThreadTypes, Commits, Inserts, RemovesChild
<1>2. Valid(t)
  BY DEF Valid
<1>3. Believes(t, tree, rep, end, start)
  BY <1>1, <1>2 DEF Inv, Knows
<1>4. key[t] \in Key
  BY DEF Inv, ThreadTypes, Commits
<1>5. \A d, l : ~ToDo(t, d, l)
  BY DEF ToDo
<1>6. Guarding(t)
  BY DEF Inv, LockInv
<1>7. ASSUME NEW r \in Role, Guards(pc[t], r)
      PROVE  Mine(t, at[t][r])
  BY <1>5, <1>6, <1>7 DEF Guarding, Mine, Owns
<1>8. \A l : Retired(t, l) <=> \E r \in Role : Retires(pc[t], r) /\ l = at[t][r]
  BY <1>5 DEF Retired
<1> QED
  BY <1>1, <1>3, <1>4, <1>7, <1>8

\* The key byte that selects the child.
LEMMA NextByteIs ==
    ASSUME NEW t, key[t] \in Key, depth[t] \in 0 .. KeyLen - 1
    PROVE  NextByte(t) = key[t][depth[t] + 1] /\ NextByte(t) \in Byte
  BY KeyBytes, KeyAssumption DEF NextByte

\* Only the nodes of the tree matter.
LEMMA PathsSame ==
    ASSUME NEW r, NEW kids, NEW tree, NEW rep, NEW end, NEW start,
           NEW kids2, NEW rep2, NEW end2, NEW start2,
           Paths(r, kids, tree, rep, end, start),
           \A n \in tree : /\ kids2[n] = kids[n] /\ rep2[n] = rep[n]
                           /\ end2[n] = end[n] /\ start2[n] = start[n]
    PROVE  Paths(r, kids2, tree, rep2, end2, start2)
<1>1. Laminar(tree, rep2, end2, start2, [n \in tree |-> DOMAIN kids2[n]])
  BY DEF Paths, Laminar, Extends
<1>2. (r = Nil => tree = {}) /\ (r # Nil => r \in tree /\ start2[r] = 0)
  BY DEF Paths
<1>3. \A n \in tree : start2[n] <= end2[n]
  BY DEF Paths
<1>4. ASSUME NEW n \in tree, NEW b \in DOMAIN kids2[n]
      PROVE  /\ kids2[n][b] \in tree
             /\ start2[kids2[n][b]] = end2[n] + 1
             /\ SameTo(rep2[kids2[n][b]], rep2[n], end2[n])
             /\ rep2[kids2[n][b]][end2[n] + 1] = b
  BY <1>4 DEF Paths
<1>5. ASSUME NEW n \in tree, n # r
      PROVE  \E p \in tree : \E b \in DOMAIN kids2[p] : kids2[p][b] = n
  BY <1>5 DEF Paths
<1> QED
  BY <1>1, <1>2, <1>3, <1>4, <1>5 DEF Paths

\* A key that leads to an inode with no child at its next byte is not in the tree.
LEMMA NoChildNoLeaf ==
    ASSUME NEW r, NEW kids, NEW tree, NEW rep, NEW end, NEW start, NEW n, NEW k,
           Shape(tree, rep, end, start), Paths(r, kids, tree, rep, end, start),
           n \in tree, end[n] < KeyLen, SameTo(k, rep[n], end[n]),
           k[end[n] + 1] \notin DOMAIN kids[n]
    PROVE  \A m \in tree : end[m] = KeyLen => rep[m] # k
<1> SUFFICES ASSUME NEW m \in tree, end[m] = KeyLen, rep[m] = k
             PROVE  FALSE
  OBVIOUS
<1>1. Extends(rep, end, m, n, end[n]) /\ m # n
  BY KeyAssumption DEF Extends, SameTo, Shape
<1>2. rep[m][end[n] + 1] \in [o \in tree |-> DOMAIN kids[o]][n]
  BY <1>1 DEF Paths, Laminar
<1> QED
  BY <1>2

\* Nor is one that leads to a node and differs from its label.
LEMMA OtherLabelNoLeaf ==
    ASSUME NEW r, NEW kids, NEW tree, NEW rep, NEW end, NEW start, NEW n, NEW k,
           Shape(tree, rep, end, start), Paths(r, kids, tree, rep, end, start),
           n \in tree, SameTo(k, rep[n], start[n]), ~SameTo(k, rep[n], end[n])
    PROVE  \A m \in tree : end[m] = KeyLen => rep[m] # k
<1> SUFFICES ASSUME NEW m \in tree, end[m] = KeyLen, rep[m] = k
             PROVE  FALSE
  OBVIOUS
<1>1. Extends(rep, end, m, n, start[n])
  BY KeyAssumption DEF Extends, Shape
<1>2. Extends(rep, end, m, n, end[n])
  BY <1>1 DEF Paths, Laminar
<1> QED
  BY <1>2 DEF Extends

(***************************************************************************)
(* Write sections.                                                         *)
(***************************************************************************)
\* What a write section of u does to nodes that others may be reading.
Effect(u, tree, rep, end, start, tree2, rep2, end2, start2) ==
    /\ \A l \in Node : IsUsed(l) =>
          /\ IsUsed(l)'
          /\ rep2[l] = rep[l] /\ end2[l] = end[l]
          /\ nodes'[l].kind = nodes[l].kind
          /\ IsLeaf(l) => nodes'[l] = nodes[l]
          /\ IsInode(l) => nodes'[l].class = nodes[l].class
          /\ IsInode(l) /\ ~Mine(u, l) => nodes'[l].kids = nodes[l].kids
    /\ root' # root => Mine(u, Nil)
    /\ \A l \in Node :
          l \in tree2 <=> (l \in tree /\ ~Retired(u, l)) \/ (IsUsed(l)' /\ ~IsUsed(l))
    /\ \A l \in tree : ~Mine(u, l) /\ start2[l] # start[l] =>
          /\ start2[l] <= start[l]
          /\ \E p \in tree : /\ Mine(u, p) /\ IsInode(p)
                             /\ \E b \in DOMAIN nodes[p].kids : nodes[p].kids[b] = l
          /\ IsInode(l) => \A v \in Thread : AboutToRead(v, l) => v \in torn'
          /\ leave_last_child(u) /\ l = survivor(u)
    /\ torn \subseteq torn'

\* The shape of the tree as functions on its nodes.
LEMMA TreeShape ==
    ASSUME NEW tree, NEW rep, NEW end, NEW start, TreeTypes(tree, rep, end, start),
           \A n \in tree : start[n] <= end[n]
    PROVE  Shape(tree, rep, end, start) /\ Nil \notin tree
  BY DEF TreeTypes, Shape, Node, Nil

\* A child keeps fitting while labels are kept.
LEMMA GoodKidKept ==
    ASSUME NEW rep, NEW end, NEW rep2, NEW end2,
           \A l \in Node : IsUsed(l) => IsUsed(l)' /\ rep2[l] = rep[l] /\ end2[l] = end[l],
           NEW n, NEW b, NEW c, IsUsed(n), GoodKid(rep, end, n, b, c)
    PROVE  GoodKid(rep2, end2, n, b, c)'
<1>1. IsUsed(c) /\ c \in Node /\ n \in Node
  BY DEF GoodKid, IsUsed
<1>2. rep2[c] = rep[c] /\ end2[c] = end[c] /\ rep2[n] = rep[n] /\ end2[n] = end[n] /\ IsUsed(c)'
  BY <1>1
<1> QED
  BY <1>2 DEF GoodKid, SameTo

\* The map fits the tree again after a key and its leaf are inserted in both.
LEMMA MapInsert ==
    ASSUME NEW tree, NEW tree2, NEW f, NEW k \in Key,
           nodes \in [Node -> AnyNode], map \in [Key -> Lock], MapFits(tree),
           map' = [map EXCEPT ![k] = f], IsLeaf(f)', nodes'[f].key = k, f \in tree2,
           \A n \in tree : IsLeaf(n) => /\ nodes[n].key # k
                                        /\ n \in tree2 /\ nodes'[n] = nodes[n],
           \A n \in tree2 : n # f /\ IsLeaf(n)' => n \in tree /\ nodes'[n] = nodes[n]
    PROVE  MapFits(tree2)'
<1>1. ASSUME NEW n \in tree2, IsLeaf(n)'
      PROVE  map'[nodes'[n].key] = n
  <2>1. CASE n = f
    BY <2>1
  <2>2. CASE n # f
    <3>1. n \in tree /\ nodes'[n] = nodes[n]
      BY <1>1, <2>2
    <3>2. IsLeaf(n)
      BY <1>1, <3>1 DEF IsLeaf, IsUsed
    <3>3. nodes[n].key \in Key /\ nodes[n].key # k /\ map[nodes[n].key] = n
      BY <3>1, <3>2, LeafFields DEF MapFits
    <3> QED
      BY <3>1, <3>3
  <2> QED
    BY <2>1, <2>2
<1>2. ASSUME NEW q \in Key, NEW m, m = map'[q], m # Nil
      PROVE  m \in tree2 /\ IsLeaf(m)' /\ nodes'[m].key = q
  <2>1. CASE q = k
    BY <1>2, <2>1
  <2>2. CASE q # k
    <3>1. m = map[q]
      BY <1>2, <2>2
    <3>2. m \in tree /\ IsLeaf(m) /\ nodes[m].key = q
      BY <1>2, <3>1 DEF MapFits
    <3>3. m \in tree2 /\ nodes'[m] = nodes[m]
      BY <3>2
    <3>4. IsLeaf(m)'
      BY <3>2, <3>3 DEF IsLeaf, IsUsed
    <3> QED
      BY <3>2, <3>3, <3>4
  <2> QED
    BY <2>1, <2>2
<1>3. \A q \in Key : map'[q] # Nil =>
          map'[q] \in tree2 /\ IsLeaf(map[q])' /\ nodes'[map'[q]].key = q
  BY <1>2 DEF IsLeaf, IsUsed
<1> QED
  BY <1>1, <1>3 DEF MapFits

\* The map fits the tree again after a key and its leaf are taken out of both.
LEMMA MapRemove ==
    ASSUME NEW tree, NEW tree2, NEW c, NEW k \in Key,
           nodes \in [Node -> AnyNode], map \in [Key -> Lock], MapFits(tree),
           map' = [map EXCEPT ![k] = Nil], c \in tree, IsLeaf(c), nodes[c].key = k,
           \A n \in tree \ {c} : IsLeaf(n) => n \in tree2 /\ nodes'[n] = nodes[n],
           \A n \in tree2 : IsLeaf(n)' => n \in tree \ {c} /\ nodes'[n] = nodes[n]
    PROVE  MapFits(tree2)'
<1>0. map[k] = c
  BY DEF MapFits
<1>1. ASSUME NEW n \in tree2, IsLeaf(n)'
      PROVE  map'[nodes'[n].key] = n
  <2>1. n \in tree \ {c} /\ nodes'[n] = nodes[n]
    BY <1>1
  <2>2. IsLeaf(n)
    BY <1>1, <2>1 DEF IsLeaf, IsUsed
  <2>3. nodes[n].key \in Key /\ map[nodes[n].key] = n
    BY <2>1, <2>2, LeafFields DEF MapFits
  <2>4. nodes[n].key # k
    BY <1>0, <2>1, <2>3
  <2> QED
    BY <2>1, <2>3, <2>4
<1>2. ASSUME NEW q \in Key, NEW m, m = map'[q], m # Nil
      PROVE  m \in tree2 /\ IsLeaf(m)' /\ nodes'[m].key = q
  <2>1. q # k /\ m = map[q]
    BY <1>2
  <2>2. m \in tree /\ IsLeaf(m) /\ nodes[m].key = q
    BY <1>2, <2>1 DEF MapFits
  <2>3. m # c
    BY <2>1, <2>2
  <2>4. m \in tree2 /\ nodes'[m] = nodes[m]
    BY <2>2, <2>3
  <2>5. IsLeaf(m)'
    BY <2>2, <2>4 DEF IsLeaf, IsUsed
  <2> QED
    BY <2>1, <2>2, <2>4, <2>5
<1>3. \A q \in Key : map'[q] # Nil =>
          map'[q] \in tree2 /\ IsLeaf(map[q])' /\ nodes'[map'[q]].key = q
  BY <1>2 DEF IsLeaf, IsUsed
<1> QED
  BY <1>1, <1>3 DEF MapFits

\* The parts of the invariant that the write sections use.
LEMMA InvParts ==
    ASSUME NEW tree, NEW rep, NEW end, NEW start, Inv(tree, rep, end, start)
    PROVE  /\ TreeTypes(tree, rep, end, start)
           /\ LabelsFit(rep, end)
           /\ SizesFit
           /\ Paths(root, kidsOf, tree, rep, end, start)
           /\ PrefixesFit(tree, rep, end, start)
           /\ MapFits(tree)
           /\ Shape(tree, rep, end, start) /\ Nil \notin tree
           /\ \A n \in tree : IsUsed(n) /\ n \in Node
<1>1. /\ TreeTypes(tree, rep, end, start)
      /\ LabelsFit(rep, end)
      /\ SizesFit
      /\ Paths(root, kidsOf, tree, rep, end, start)
      /\ PrefixesFit(tree, rep, end, start)
      /\ MapFits(tree)
  BY DEF Inv, TreeFits
<1>2. \A n \in tree : start[n] <= end[n]
  BY <1>1 DEF Paths
<1>3. Shape(tree, rep, end, start) /\ Nil \notin tree
  BY <1>1, <1>2, TreeShape
<1>4. \A n \in tree : IsUsed(n) /\ n \in Node
  BY <1>1 DEF TreeTypes, IsUsed
<1> QED
  BY <1>1, <1>3, <1>4

(***************************************************************************)
(* One node at a time.                                                     *)
(***************************************************************************)
\* Labels are kept.
Keeps(rep, end, rep2, end2) ==
    \A l \in Node : IsUsed(l) => IsUsed(l)' /\ rep2[l] = rep[l] /\ end2[l] = end[l]

\* The part of PrefixesFit about one inode.
PrefixFits(l, rep, end, start) ==
    /\ Len(nodes[l].prefix) = end[l] - start[l]
    /\ \A i \in 1 .. Len(nodes[l].prefix) : nodes[l].prefix[i] = rep[l][start[l] + i]

\* pf is the part of the label r from s to e; kd are children of l; a node of class cl
\* may have the children kd.
PrefixIs(pf, r, s, e) == Len(pf) = e - s /\ \A i \in 1 .. Len(pf) : pf[i] = r[s + i]
\* The part of LabelsFit about the children of one inode.
GoodKids(rep, end, l, kd) == \A b \in DOMAIN kd : GoodKid(rep, end, l, b, kd[b])
\* The part of SizesFit about an inode of class cl with the children kd.
Sized(cl, kd) == Cardinality(DOMAIN kd) \in min_size(cl) .. Cap[cl]

\* What the invariant says of the node l.
NodeFits(l, tree, rep, end, start) ==
    /\ nodes[l] \in AnyNode
    /\ IsLeaf(l) => rep[l] = nodes[l].key /\ end[l] = KeyLen
    /\ IsInode(l) => end[l] < KeyLen
    /\ IsInode(l) => SizeFits(l)
    /\ IsInode(l) => \A b \in DOMAIN nodes[l].kids : GoodKid(rep, end, l, b, nodes[l].kids[b])
    /\ l \in tree /\ IsInode(l) => PrefixFits(l, rep, end, start)

\* A new leaf.
LEMMA LeafNew ==
    ASSUME NEW tree, NEW rep, NEW end, NEW start, NEW l \in Node, NEW k \in Key,
           nodes'[l] = Leaf(k), rep[l] = k, end[l] = KeyLen
    PROVE  /\ NodeFits(l, tree, rep, end, start)'
           /\ IsLeaf(l)' /\ ~IsInode(l)' /\ IsUsed(l)'
<1>1. Leaf(k) # Unused /\ Leaf(k).kind = "leaf" /\ Leaf(k).key = k /\ Leaf(k) \in AnyNode
  BY NewKinds
<1>2. IsLeaf(l)' /\ ~IsInode(l)' /\ IsUsed(l)'
  BY <1>1 DEF IsLeaf, IsInode, IsUsed
<1> QED
  BY <1>1, <1>2 DEF NodeFits

\* An inode that is new or changed.
LEMMA InodeNew ==
    ASSUME NEW tree, NEW rep, NEW end, NEW start, NEW l \in Node, NEW cl, NEW pf, NEW kd,
           nodes'[l] = Inode(cl, pf, kd),
           cl \in 1 .. Len(Cap), pf \in Seq(Byte), kd \in Kids, end[l] < KeyLen,
           Sized(cl, kd), GoodKids(rep, end, l, kd)',
           l \in tree => PrefixIs(pf, rep[l], start[l], end[l])
    PROVE  /\ NodeFits(l, tree, rep, end, start)'
           /\ IsInode(l)' /\ ~IsLeaf(l)' /\ IsUsed(l)'
<1>1. nodes'[l] # Unused /\ nodes'[l].kind = "inode" /\ nodes'[l].class = cl
      /\ nodes'[l].prefix = pf /\ nodes'[l].kids = kd /\ nodes'[l] \in AnyNode
  <2>1. /\ Inode(cl, pf, kd) # Unused /\ Inode(cl, pf, kd).kind = "inode"
        /\ Inode(cl, pf, kd).class = cl /\ Inode(cl, pf, kd).prefix = pf
        /\ Inode(cl, pf, kd).kids = kd
    BY NewKinds
  <2>2. Inode(cl, pf, kd) \in AnyNode
    BY NewKinds
  <2> QED
    BY <2>1, <2>2
<1>2. IsInode(l)' /\ ~IsLeaf(l)' /\ IsUsed(l)'
  BY <1>1 DEF IsLeaf, IsInode, IsUsed
<1>3. ASSUME NEW b \in DOMAIN nodes'[l].kids
      PROVE  GoodKid(rep, end, l, b, nodes[l].kids[b])'
  BY <1>1, <1>3 DEF GoodKids, GoodKid, IsUsed
<1>4. SizeFits(l)'
  BY <1>1 DEF SizeFits, Sized
<1>5. l \in tree => PrefixFits(l, rep, end, start)'
  BY <1>1 DEF PrefixFits, PrefixIs
<1> QED
  BY <1>1, <1>2, <1>3, <1>4, <1>5 DEF NodeFits

\* What the invariant says of all nodes it says of each.
LEMMA NodeFitsNow ==
    ASSUME NEW tree, NEW rep, NEW end, NEW start, TreeTypes(tree, rep, end, start),
           LabelsFit(rep, end), SizesFit, PrefixesFit(tree, rep, end, start), NEW l \in Node
    PROVE  NodeFits(l, tree, rep, end, start)
<1>1. nodes[l] \in AnyNode
  BY DEF TreeTypes
<1>2. /\ IsLeaf(l) => rep[l] = nodes[l].key /\ end[l] = KeyLen
      /\ IsInode(l) => end[l] < KeyLen
      /\ IsInode(l) => \A b \in DOMAIN nodes[l].kids : GoodKid(rep, end, l, b, nodes[l].kids[b])
  BY DEF LabelsFit
<1>3. IsInode(l) => SizeFits(l)
  BY DEF SizesFit
<1>4. l \in tree /\ IsInode(l) => PrefixFits(l, rep, end, start)
  BY DEF PrefixesFit, PrefixFits
<1> QED
  BY <1>1, <1>2, <1>3, <1>4 DEF NodeFits

\* A node that is not changed.
LEMMA NodeKept ==
    ASSUME NEW tree, NEW rep, NEW end, NEW start, NEW tree2, NEW rep2, NEW end2, NEW start2,
           NEW l \in Node, NodeFits(l, tree, rep, end, start), Keeps(rep, end, rep2, end2),
           nodes'[l] = nodes[l],
           l \in tree2 /\ IsInode(l) => l \in tree /\ start2[l] = start[l]
    PROVE  /\ NodeFits(l, tree2, rep2, end2, start2)'
           /\ IsLeaf(l)' <=> IsLeaf(l)
           /\ IsInode(l)' <=> IsInode(l)
           /\ IsUsed(l)' <=> IsUsed(l)
<1>1. (IsLeaf(l)' <=> IsLeaf(l)) /\ (IsInode(l)' <=> IsInode(l)) /\ (IsUsed(l)' <=> IsUsed(l))
  BY DEF IsLeaf, IsInode, IsUsed
<1>2. (IsLeaf(l) \/ IsInode(l)) => rep2[l] = rep[l] /\ end2[l] = end[l]
  BY DEF Keeps, IsLeaf, IsInode
<1>3. ASSUME IsInode(l), NEW b \in DOMAIN nodes'[l].kids
      PROVE  GoodKid(rep2, end2, l, b, nodes[l].kids[b])'
  <2>1. PICK m : m = nodes[l].kids[b]
    OBVIOUS
  <2>2. IsUsed(l) /\ GoodKid(rep, end, l, b, m)
    BY <1>3, <2>1 DEF NodeFits, IsInode
  <2>3. GoodKid(rep2, end2, l, b, m)'
    BY <2>2, GoodKidKept DEF Keeps
  <2> QED
    BY <2>1, <2>3 DEF GoodKid, IsUsed
<1>4. IsInode(l) => SizeFits(l)'
  BY DEF NodeFits, SizeFits
<1>5. l \in tree2 /\ IsInode(l) => PrefixFits(l, rep2, end2, start2)'
  BY <1>2 DEF NodeFits, PrefixFits
<1> QED
  BY <1>1, <1>2, <1>3, <1>4, <1>5 DEF NodeFits

\* The nodes fit, one by one, so the tree does.
LEMMA StepFits ==
    ASSUME NEW tree, NEW rep, NEW end, NEW start, NEW i \in Nat,
           used + i <= MaxNode,
           nodes' = [l \in Node |-> nodes'[l]],
           \A l \in Node : NodeFits(l, tree, rep, end, start)',
           \A l \in Node : IsUsed(l)' <=> l <= used + i,
           \A l \in tree : l \in Node /\ IsUsed(l)',
           rep \in [Node -> Bytes], end \in [Node -> 0 .. KeyLen],
           start \in [Node -> 0 .. KeyLen],
           root' \in Lock, map' \in [Key -> Lock],
           Paths(root, kidsOf, tree, rep, end, start)', MapFits(tree)'
    PROVE  TreeFits(tree, rep, end, start)'
<1>1. \A l \in Node : nodes'[l] # Unused <=> l <= used + i
  BY DEF IsUsed
<1>2. used' = used + i
  BY <1>1, Allocated
<1>3. tree \subseteq {l \in Node : nodes'[l] # Unused}
  BY DEF IsUsed
<1>4. nodes' \in [Node -> AnyNode]
  <2>1. \A l \in Node : nodes'[l] \in AnyNode
    BY DEF NodeFits
  <2> QED
    BY <2>1
<1>5. TreeTypes(tree, rep, end, start)'
  BY <1>1, <1>2, <1>3, <1>4 DEF TreeTypes
<1>6. LabelsFit(rep, end)'
  BY DEF LabelsFit, NodeFits
<1>7. SizesFit'
  BY DEF SizesFit, NodeFits
<1>8. PrefixesFit(tree, rep, end, start)'
  <2>1. ASSUME NEW l \in tree, IsInode(l)'
        PROVE  PrefixFits(l, rep, end, start)'
    BY <2>1 DEF NodeFits
  <2> QED
    BY <2>1 DEF PrefixesFit, PrefixFits
<1> QED
  BY <1>5, <1>6, <1>7, <1>8 DEF TreeFits

\* A node as yet unused.
LEMMA FreshNode ==
    ASSUME NEW tree, NEW rep, NEW end, NEW start, TreeTypes(tree, rep, end, start),
           NEW i \in Nat \ {0}, NEW f \in Node, f = fresh(i)
    PROVE  /\ used \in Nat /\ f = used + i /\ used + i <= MaxNode
           /\ ~IsUsed(f) /\ f \notin tree /\ f # Nil
           /\ \A m \in Node : IsUsed(m) <=> m <= used
           /\ kidsOf[f] = <<>>
<1>1. used \in Nat
  BY UsedNat
<1>2. f = used + i /\ used + i <= MaxNode
  BY <1>1, BoundAssumption DEF fresh, Node
<1>3. \A m \in Node : IsUsed(m) <=> m <= used
  BY DEF TreeTypes, IsUsed
<1>4. ~IsUsed(f) /\ f # Nil
  BY <1>1, <1>2, <1>3 DEF Nil, Node
<1>5. f \notin tree
  BY <1>4 DEF TreeTypes, IsUsed
<1>6. kidsOf[f] = <<>>
  BY <1>4 DEF IsUsed, Unused, kidsOf
<1> QED
  BY <1>1, <1>2, <1>3, <1>4, <1>5, <1>6

\* The children of nodes, now and after a step.
LEMMA KidsOfNow ==
    ASSUME NEW l \in Node
    PROVE  (IsInode(l) => kidsOf[l] = nodes[l].kids) /\ (IsLeaf(l) => kidsOf[l] = <<>>)
  BY DEF kidsOf, IsInode, IsLeaf

\* The children of a node after a step, from its kind.
LEMMA KidsOfNext ==
    ASSUME NEW kd, kd = kidsOf', NEW l \in Node
    PROVE  /\ IsInode(l)' => kd[l] = nodes'[l].kids
           /\ IsLeaf(l)' => kd[l] = <<>>
           /\ nodes'[l] = nodes[l] => kd[l] = kidsOf[l]
  BY DEF kidsOf, IsInode, IsLeaf

\* What a write section of u does to a node that is there.
Touches(u, l) ==
    /\ nodes'[l].kind = nodes[l].kind
    /\ IsLeaf(l) => nodes'[l] = nodes[l]
    /\ IsInode(l) => nodes'[l].class = nodes[l].class
    /\ IsInode(l) /\ ~Mine(u, l) => nodes'[l].kids = nodes[l].kids

\* A node that a step leaves alone is one the thread may leave alone.
LEMMA TouchesNot ==
    ASSUME NEW u, NEW l, nodes'[l] = nodes[l]
    PROVE  Touches(u, l)
  BY DEF Touches

\* The class is kept, and the children too unless the node is u's.
LEMMA TouchesInode ==
    ASSUME NEW u, NEW l, IsInode(l), NEW pf, NEW kd,
           nodes'[l] = Inode(nodes[l].class, pf, kd), Mine(u, l) \/ kd = nodes[l].kids
    PROVE  Touches(u, l)
<1>1. nodes'[l].kind = "inode" /\ nodes'[l].class = nodes[l].class /\ nodes'[l].kids = kd
  BY NewKinds
<1> QED
  BY <1>1 DEF Touches, IsInode, IsLeaf

\* Effect, from what it says of each node.
LEMMA EffectIs ==
    ASSUME NEW u, NEW tree, NEW rep, NEW end, NEW start,
           NEW tree2, NEW rep2, NEW end2, NEW start2,
           Keeps(rep, end, rep2, end2),
           \A l \in Node : IsUsed(l) => Touches(u, l),
           root' # root => Mine(u, Nil),
           \A l \in Node :
              l \in tree2 <=> (l \in tree /\ ~Retired(u, l)) \/ (IsUsed(l)' /\ ~IsUsed(l)),
           \A l \in tree : ~Mine(u, l) => start2[l] = start[l],
           torn' = torn
    PROVE  Effect(u, tree, rep, end, start, tree2, rep2, end2, start2)
  BY DEF Effect, Keeps, Touches

\* x is a name for e that the provers replace by e only where they are told to.
Is(x, e) == x = e


(***************************************************************************)
(* Sizes and children of inodes.                                           *)
(***************************************************************************)
\* The limits of a class, and how they meet those of the next one.
LEMMA CapFacts ==
    ASSUME NEW c \in 1 .. Len(Cap)
    PROVE  /\ Len(Cap) \in Nat /\ Cap[c] \in Nat /\ min_size(c) \in Nat /\ min_size(c) < Cap[c]
           /\ c < Len(Cap) => Cap[c] + 1 < Cap[c + 1] /\ min_size(c + 1) = Cap[c] + 1
           /\ c > 1 => min_size(c) = Cap[c - 1] + 1 /\ min_size(c - 1) < Cap[c - 1]
           /\ Cap[Len(Cap)] >= Cardinality(Byte) /\ Cardinality(Byte) \in Nat
<1>1. Cardinality(Byte) \in Nat
  BY KeyAssumption, FS_CardinalityType
<1>2. Len(Cap) \in Nat /\ \A i \in 1 .. Len(Cap) : Cap[i] \in Nat
  <2>1. Cap \in Seq(Nat)
    BY CapAssumption, Zenon
  <2> QED
    BY <2>1
<1>3. ASSUME NEW i \in 1 .. Len(Cap)
      PROVE  min_size(i) \in Nat /\ min_size(i) < Cap[i]
  <2>1. CASE i = 1
    BY <2>1, CapAssumption, <1>2 DEF min_size
  <2>2. CASE i # 1
    <3>1. i \in 2 .. Len(Cap) /\ i - 1 \in 1 .. Len(Cap)
      BY <1>2, <2>2
    <3>2. Cap[i] > Cap[i - 1] + 1 /\ Cap[i - 1] \in Nat
      BY <1>2, <3>1, CapAssumption
    <3> QED
      BY <1>2, <2>2, <3>2 DEF min_size
  <2> QED
    BY <2>1, <2>2
<1>4. c < Len(Cap) => Cap[c] + 1 < Cap[c + 1] /\ min_size(c + 1) = Cap[c] + 1
  <2>1. ASSUME c < Len(Cap)
        PROVE  Cap[c] + 1 < Cap[c + 1] /\ min_size(c + 1) = Cap[c] + 1
    <3>1. c + 1 \in 2 .. Len(Cap) /\ (c + 1) - 1 = c /\ c + 1 # 1
      BY <1>2, <2>1
    <3>2. Cap[c + 1] > Cap[(c + 1) - 1] + 1
      BY <3>1, CapAssumption
    <3>3. Cap[c + 1] \in Nat /\ Cap[c] \in Nat
      BY <1>2, <3>1
    <3> QED
      BY <3>1, <3>2, <3>3 DEF min_size
  <2> QED
    BY <2>1
<1>5. c > 1 => min_size(c) = Cap[c - 1] + 1 /\ min_size(c - 1) < Cap[c - 1]
  <2>1. ASSUME c > 1
        PROVE  min_size(c) = Cap[c - 1] + 1 /\ min_size(c - 1) < Cap[c - 1]
    <3>1. c - 1 \in 1 .. Len(Cap)
      BY <1>2, <2>1
    <3> QED
      BY <1>3, <2>1, <3>1 DEF min_size
  <2> QED
    BY <2>1
<1> QED
  BY <1>1, <1>2, <1>3, <1>4, <1>5, CapAssumption

\* A new child fits in an inode that is not full, and in the next class otherwise.
LEMMA SizedAdd ==
    ASSUME NEW cl \in 1 .. Len(Cap), NEW kd \in Kids, NEW b \in Byte, NEW m \in Node,
           b \notin DOMAIN kd, Sized(cl, kd), NEW kd2, kd2 = add(kd, b, m)
    PROVE  /\ ~(cl < Len(Cap) /\ Cardinality(DOMAIN kd) = Cap[cl]) => Sized(cl, kd2)
           /\ cl < Len(Cap) /\ Cardinality(DOMAIN kd) = Cap[cl] =>
                 cl + 1 \in 1 .. Len(Cap) /\ Sized(cl + 1, kd2)
<1>1. kd2 \in Kids /\ Cardinality(DOMAIN kd2) = Cardinality(DOMAIN kd) + 1
  BY KidsAdd
<1>2. Cardinality(DOMAIN kd) \in Nat /\ Cardinality(DOMAIN kd2) <= Cardinality(Byte)
  BY <1>1, KidsFinite
<1>3. /\ Len(Cap) \in Nat /\ Cap[cl] \in Nat /\ min_size(cl) \in Nat
      /\ cl < Len(Cap) => Cap[cl] + 1 < Cap[cl + 1] /\ min_size(cl + 1) = Cap[cl] + 1
      /\ Cap[Len(Cap)] >= Cardinality(Byte) /\ Cardinality(Byte) \in Nat
  BY CapFacts
<1>4. ASSUME cl < Len(Cap), Cardinality(DOMAIN kd) = Cap[cl]
      PROVE  cl + 1 \in 1 .. Len(Cap) /\ Sized(cl + 1, kd2)
  <2>1. cl + 1 \in 1 .. Len(Cap) /\ Cap[cl + 1] \in Nat
    BY <1>3, <1>4, CapAssumption, SMTT(30)
  <2> QED
    BY <1>1, <1>3, <1>4, <2>1 DEF Sized
<1>5. ASSUME ~(cl < Len(Cap) /\ Cardinality(DOMAIN kd) = Cap[cl])
      PROVE  Sized(cl, kd2)
  <2>1. Cardinality(DOMAIN kd) >= min_size(cl) /\ Cardinality(DOMAIN kd) <= Cap[cl]
    BY <1>2, <1>3 DEF Sized
  <2>2. CASE cl = Len(Cap)
    BY <1>1, <1>2, <1>3, <2>1, <2>2 DEF Sized
  <2>3. CASE cl # Len(Cap)
    BY <1>1, <1>2, <1>3, <1>5, <2>1, <2>3 DEF Sized
  <2> QED
    BY <2>2, <2>3
<1> QED
  BY <1>4, <1>5

\* An inode above its minimum may lose a child; otherwise the class below fits it.
LEMMA SizedDrop ==
    ASSUME NEW cl \in 1 .. Len(Cap), NEW kd \in Kids, NEW b \in DOMAIN kd,
           Sized(cl, kd), NEW kd2, kd2 = drop(kd, b)
    PROVE  /\ Cardinality(DOMAIN kd) # min_size(cl) => Sized(cl, kd2)
           /\ Cardinality(DOMAIN kd) = min_size(cl) /\ cl # 1 =>
                 cl - 1 \in 1 .. Len(Cap) /\ Sized(cl - 1, kd2)
<1>1. Cardinality(DOMAIN kd2) = Cardinality(DOMAIN kd) - 1 /\ Cardinality(DOMAIN kd) \in Nat
  BY KidsDrop, KidsFinite
<1>2. /\ Len(Cap) \in Nat /\ Cap[cl] \in Nat /\ min_size(cl) \in Nat
      /\ cl > 1 => min_size(cl) = Cap[cl - 1] + 1 /\ min_size(cl - 1) < Cap[cl - 1]
  BY CapFacts
<1>3. ASSUME Cardinality(DOMAIN kd) = min_size(cl), cl # 1
      PROVE  cl - 1 \in 1 .. Len(Cap) /\ Sized(cl - 1, kd2)
  <2>1. cl - 1 \in 1 .. Len(Cap) /\ cl > 1
    BY <1>2, <1>3
  <2>2. Cap[cl - 1] \in Nat /\ min_size(cl - 1) \in Nat
    BY <2>1, CapFacts
  <2> QED
    BY <1>1, <1>2, <1>3, <2>1, <2>2 DEF Sized
<1> QED
  BY <1>1, <1>2, <1>3 DEF Sized

\* The children of a new node over two others.
LEMMA PairOfKids ==
    ASSUME NEW a \in Byte, NEW b \in Byte, a # b, NEW x \in Node, NEW y \in Node,
           NEW kd, Is(kd, add(add(<<>>, a, x), b, y))
    PROVE  /\ kd \in Kids /\ DOMAIN kd = {a, b} /\ kd[a] = x /\ kd[b] = y
           /\ Sized(1, kd) /\ 1 \in 1 .. Len(Cap)
           /\ DOMAIN add(<<>>, a, x) = {a} /\ add(<<>>, a, x)[a] = x
<1>1. <<>> \in Kids /\ DOMAIN <<>> = {}
  <2>1. <<>> = [z \in {} |-> z]
    OBVIOUS
  <2>2. [z \in {} |-> z] \in [{} -> Node]
    OBVIOUS
  <2> QED
    BY <2>1, <2>2 DEF Kids
<1>2. PICK one : one = add(<<>>, a, x)
  OBVIOUS
<1>3. one \in Kids /\ DOMAIN one = {a} /\ one[a] = x
  <2>1. one \in Kids /\ DOMAIN one = DOMAIN <<>> \cup {a} /\ one[a] = x
    BY <1>1, <1>2, KidsAdd
  <2> QED
    BY <1>1, <2>1
<1>4. /\ kd \in Kids /\ DOMAIN kd = DOMAIN one \cup {b} /\ kd[b] = y
      /\ \A c \in DOMAIN one : c # b => kd[c] = one[c]
      /\ Cardinality(DOMAIN kd) = Cardinality(DOMAIN one) + 1
  <2>1. one \in Kids /\ b \notin DOMAIN one /\ kd = add(one, b, y)
    BY <1>2, <1>3 DEF Is
  <2>2. /\ add(one, b, y) \in Kids
        /\ DOMAIN add(one, b, y) = DOMAIN one \cup {b}
        /\ add(one, b, y)[b] = y
        /\ \A c \in DOMAIN one : c # b => add(one, b, y)[c] = one[c]
        /\ b \notin DOMAIN one =>
              Cardinality(DOMAIN add(one, b, y)) = Cardinality(DOMAIN one) + 1
    BY <2>1, KidsAdd
  <2> QED
    BY <2>1, <2>2
<1>5. Cardinality(DOMAIN one) = 1
  BY <1>3, FS_Singleton
<1>6. min_size(1) = 2 /\ Cap[1] \in Nat /\ 1 \in 1 .. Len(Cap)
  <2>1. Cap \in Seq(Nat) /\ Len(Cap) > 0
    BY CapAssumption, Zenon
  <2> QED
    BY <2>1 DEF min_size
<1>7. Sized(1, kd)
  BY <1>4, <1>5, <1>6, CapAssumption DEF Sized
<1> QED
  BY <1>2, <1>3, <1>4, <1>6, <1>7

\* New labels for new nodes leave the children of an inode good ones.
LEMMA GoodKidsKept ==
    ASSUME NEW tree, NEW rep, NEW end, NEW start, NEW rep2, NEW end2,
           Keeps(rep, end, rep2, end2), NEW l, IsInode(l),
           NodeFits(l, tree, rep, end, start), NEW kd, kd = nodes[l].kids
    PROVE  GoodKids(rep2, end2, l, kd)'
<1>1. ASSUME NEW b \in DOMAIN kd, NEW m, m = kd[b]
      PROVE  GoodKid(rep2, end2, l, b, m)'
  <2>1. IsUsed(l) /\ GoodKid(rep, end, l, b, m)
    BY <1>1 DEF NodeFits, IsInode
  <2> QED
    BY <2>1, GoodKidKept DEF Keeps
<1> QED
  BY <1>1 DEF GoodKids, GoodKid, IsUsed

\* Adding a good child.
LEMMA GoodKidsAdd ==
    ASSUME NEW rep, NEW end, NEW l, NEW kd, NEW b, NEW m, NEW kd2,
           GoodKids(rep, end, l, kd)', GoodKid(rep, end, l, b, m)', kd2 = add(kd, b, m)
    PROVE  GoodKids(rep, end, l, kd2)'
  BY DEF GoodKids, GoodKid, IsUsed, add

\* Taking a child out.
LEMMA GoodKidsDrop ==
    ASSUME NEW rep, NEW end, NEW l, NEW kd, NEW b, NEW kd2,
           GoodKids(rep, end, l, kd)', kd2 = drop(kd, b)
    PROVE  GoodKids(rep, end, l, kd2)'
  BY DEF GoodKids, GoodKid, IsUsed, drop

\* Putting a good child in the place of another.
LEMMA GoodKidsSet ==
    ASSUME NEW rep, NEW end, NEW l, NEW kd, NEW b, NEW m, NEW kd2,
           GoodKids(rep, end, l, kd)', GoodKid(rep, end, l, b, m)',
           kd2 = [kd EXCEPT ![b] = m]
    PROVE  GoodKids(rep, end, l, kd2)'
  BY DEF GoodKids, GoodKid, IsUsed

\* The children of an inode are good ones of a copy with the same label.
LEMMA GoodKidsMoved ==
    ASSUME NEW rep, NEW end, NEW l, NEW new, NEW kd,
           GoodKids(rep, end, l, kd)', rep[new] = rep[l], end[new] = end[l]
    PROVE  GoodKids(rep, end, new, kd)'
  BY DEF GoodKids, GoodKid, IsUsed

(***************************************************************************)
(* Write sections.                                                         *)
(***************************************************************************)
\* The invariant at a commit of t, and its nodes in their roles.
LEMMA CommitSetting ==
    ASSUME NEW tree, NEW rep, NEW end, NEW start, Inv(tree, rep, end, start),
           NEW t \in Thread, pc[t] \in Commits, todo[t] = <<>>, NEW k, k = key[t]
    PROVE  /\ k \in Key /\ k \in Bytes
           /\ nodes \in [Node -> AnyNode]
           /\ \A l \in Node : NodeFits(l, tree, rep, end, start)
           /\ \A l \in Node : IsInode(l) => end[l] \in 0 .. KeyLen - 1
           /\ rep \in [Node -> Bytes] /\ end \in [Node -> 0 .. KeyLen]
           /\ start \in [Node -> 0 .. KeyLen]
           /\ map \in [Key -> Lock] /\ root \in Lock
           /\ KeyLen \in Nat
<1>1. k \in Key
  BY AtCommit
<1>2. k \in Bytes
  BY <1>1, KeyBytes
<1>3. TreeTypes(tree, rep, end, start) /\ LabelsFit(rep, end) /\ SizesFit
      /\ PrefixesFit(tree, rep, end, start)
  BY InvParts
<1>4. \A l \in Node : NodeFits(l, tree, rep, end, start)
  BY <1>3, NodeFitsNow
<1>5. \A l \in Node : IsInode(l) => end[l] \in 0 .. KeyLen - 1
  BY <1>3, KeyAssumption DEF LabelsFit, TreeTypes
<1>6. KeyLen \in Nat
  BY KeyAssumption
<1> QED
  BY <1>1, <1>2, <1>3, <1>4, <1>5, <1>6 DEF TreeTypes

\* A key is bound to the new leaf f.
LEMMA Bound ==
    ASSUME map \in [Key -> Lock], NEW k \in Key, NEW f \in Lock, map' = [map EXCEPT ![k] = f]
    PROVE  map' \in [Key -> Lock]
  OBVIOUS

(***************************************************************************)
(* The slot that points to the node of t.                                  *)
(***************************************************************************)
LEMMA LinkFacts ==
    ASSUME NEW tree, NEW rep, NEW end, NEW start, Inv(tree, rep, end, start),
           NEW t \in Thread, OnLink(t, tree, rep, end), NEW n \in tree, NEW p, NEW k,
           n = at[t]["node"], p = at[t]["parent"], k = key[t]
    PROVE  /\ p = Nil => root = n
           /\ p # Nil => /\ p \in tree /\ p \in Node /\ IsInode(p) /\ p # n /\ root # n
                         /\ end[p] \in 0 .. KeyLen - 1 /\ SameTo(k, rep[p], end[p])
                         /\ k[end[p] + 1] \in DOMAIN nodes[p].kids
                         /\ nodes[p].kids[k[end[p] + 1]] = n
                         /\ end[p] < end[n] /\ SameTo(rep[n], rep[p], end[p])
                         /\ rep[n][end[p] + 1] = k[end[p] + 1]
                         /\ \A c \in DOMAIN nodes[p].kids :
                               nodes[p].kids[c] = n => c = k[end[p] + 1]
<1>1. /\ TreeTypes(tree, rep, end, start)
      /\ LabelsFit(rep, end)
      /\ Paths(root, kidsOf, tree, rep, end, start)
      /\ Shape(tree, rep, end, start)
      /\ \A m \in tree : IsUsed(m) /\ m \in Node
  BY InvParts
<1>2. Linked(tree, rep, end, k, p, n)
  BY DEF OnLink
<1>3. ASSUME p # Nil
      PROVE  /\ p \in tree /\ p \in Node /\ IsInode(p) /\ p # n /\ root # n
             /\ end[p] \in 0 .. KeyLen - 1 /\ SameTo(k, rep[p], end[p])
             /\ k[end[p] + 1] \in DOMAIN nodes[p].kids
             /\ nodes[p].kids[k[end[p] + 1]] = n
             /\ end[p] < end[n] /\ SameTo(rep[n], rep[p], end[p])
             /\ rep[n][end[p] + 1] = k[end[p] + 1]
             /\ \A c \in DOMAIN nodes[p].kids : nodes[p].kids[c] = n => c = k[end[p] + 1]
  <2>1. /\ p \in tree /\ p \in Node /\ IsInode(p) /\ SameTo(k, rep[p], end[p])
        /\ k[end[p] + 1] \in DOMAIN nodes[p].kids
        /\ nodes[p].kids[k[end[p] + 1]] = n
    BY <1>1, <1>2, <1>3 DEF Linked
  <2>2. end[p] \in 0 .. KeyLen - 1
    BY <1>1, <2>1, KeyAssumption DEF LabelsFit, TreeTypes
  <2>3. PICK b : b = k[end[p] + 1]
    OBVIOUS
  <2>4. GoodKid(rep, end, p, b, n)
    BY <1>1, <2>1, <2>3 DEF LabelsFit
  <2>5. end[p] < end[n] /\ SameTo(rep[n], rep[p], end[p]) /\ rep[n][end[p] + 1] = b
    BY <2>4 DEF GoodKid
  <2>6. \A c \in DOMAIN nodes[p].kids : nodes[p].kids[c] = n => rep[n][end[p] + 1] = c
    BY <1>1, <2>1 DEF LabelsFit, GoodKid
  <2>7. root # n
    <3>1. kidsOf[p] = nodes[p].kids
      BY <2>1, KidsOfNow
    <3>2. b \in DOMAIN kidsOf[p] /\ kidsOf[p][b] = n
      BY <2>1, <2>3, <3>1
    <3>3. kidsOf[p][b] # root
      BY <1>1, <2>1, <3>2, OneParent
    <3> QED
      BY <3>2, <3>3
  <2>8. p # n
    BY <1>1, <2>5 DEF Shape
  <2> QED
    BY <2>1, <2>2, <2>3, <2>5, <2>6, <2>7, <2>8
<1> QED
  BY <1>2, <1>3 DEF Linked

\* b is the one slot of kp that holds n.
OnlySlot(kp, b, n) ==
    b \in DOMAIN kp /\ kp[b] = n /\ \A c \in DOMAIN kp : kp[c] = n => c = b

\* Storing the pointer to x in the root pointer or in the parent, by cases.
LEMMA SetParent ==
    ASSUME NEW tree, NEW rep, NEW end, NEW start, TreeTypes(tree, rep, end, start),
           NEW t, NEW nd, NEW x, NEW n, NEW p, NEW b, NEW kp, NEW kp2,
           SetInParent(t, nd, x), Is(nd, [l \in Node |-> nd[l]]),
           Is(n, at[t]["node"]), Is(p, at[t]["parent"]),
           p # Nil => nd[p] = nodes[p] /\ IsInode(p) /\ OnlySlot(kp, b, n),
           Is(kp, nodes[p].kids), Is(kp2, [kp EXCEPT ![b] = x])
    PROVE  /\ p = Nil => Is(root', x) /\ Is(nodes', nd)
           /\ p # Nil => Is(root', root)
           /\ p # Nil => Is(nodes', [nd EXCEPT ![p] =
                                       Inode(nodes[p].class, nodes[p].prefix, kp2)])
<1>1. p = Nil => root' = x /\ nodes' = nd
  BY DEF SetInParent, Is
<1>2. ASSUME p # Nil
      PROVE  /\ root' = root
             /\ nodes' = [nd EXCEPT ![p] = Inode(nodes[p].class, nodes[p].prefix, kp2)]
  <2>1. (CHOOSE c \in DOMAIN nd[p].kids : nd[p].kids[c] = n) = b
    BY <1>2 DEF Is, OnlySlot
  <2>2. root' = root /\ nodes' = [nd EXCEPT ![p].kids[b] = x]
    BY <1>2, <2>1 DEF SetInParent, Is
  <2>3. p \in Node /\ nodes[p] = Inode(nodes[p].class, nodes[p].prefix, nodes[p].kids)
    BY <1>2, InodeFields DEF TreeTypes
  <2>4. nodes' = [nd EXCEPT ![p] = [nd[p] EXCEPT !.kids = [nd[p].kids EXCEPT ![b] = x]]]
    BY <1>2, <2>2, <2>3 DEF Is
  <2>5. [nd[p] EXCEPT !.kids = [nd[p].kids EXCEPT ![b] = x]]
          = Inode(nodes[p].class, nodes[p].prefix, kp2)
    BY <1>2, <2>3 DEF Inode, Is
  <2> QED
    BY <2>2, <2>4, <2>5
<1> QED
  BY <1>1, <1>2 DEF Is

\* The parent, with x in the slot.
LEMMA ParentFits ==
    ASSUME NEW tree, NEW rep, NEW end, NEW start, NEW tree2, NEW rep2, NEW end2, NEW start2,
           NEW p, NEW b, NEW x \in Node, NEW kp, NEW kp2,
           TreeTypes(tree, rep, end, start), IsInode(p),
           NodeFits(p, tree, rep, end, start), Keeps(rep, end, rep2, end2),
           p \in tree, Is(start2[p], start[p]),
           Is(kp, nodes[p].kids), b \in DOMAIN kp, Is(kp2, [kp EXCEPT ![b] = x]),
           Is(nodes'[p], Inode(nodes[p].class, nodes[p].prefix, kp2)),
           GoodKid(rep2, end2, p, b, x)'
    PROVE  /\ NodeFits(p, tree2, rep2, end2, start2)'
           /\ IsInode(p)' /\ ~IsLeaf(p)' /\ IsUsed(p)'
<1>1. PICK cl, pf : cl = nodes[p].class /\ pf = nodes[p].prefix
  OBVIOUS
<1>2. p \in Node /\ cl \in 1 .. Len(Cap) /\ pf \in Seq(Byte) /\ kp \in Kids
  BY <1>1, InodeFields DEF Is, TreeTypes
<1>3. kp2 \in Kids /\ DOMAIN kp2 = DOMAIN kp
  BY <1>2, KidsSet DEF Is
<1>4. rep2[p] = rep[p] /\ end2[p] = end[p]
  BY <1>2 DEF Keeps, IsInode
<1>5. end2[p] < KeyLen
  BY <1>4 DEF NodeFits
<1>6. Sized(cl, kp2)
  BY <1>1, <1>3 DEF NodeFits, SizeFits, Sized, Is
<1>7. GoodKids(rep2, end2, p, kp)'
  BY GoodKidsKept DEF Is
<1>8. GoodKids(rep2, end2, p, kp2)'
  BY <1>7, GoodKidsSet DEF Is
<1>9. PrefixIs(pf, rep2[p], start2[p], end2[p])
  BY <1>1, <1>4 DEF NodeFits, PrefixFits, PrefixIs, Is
<1>10. nodes'[p] = Inode(cl, pf, kp2)
  BY <1>1 DEF Is
<1> QED
  <2>1. p \in Node /\ cl \in 1 .. Len(Cap) /\ pf \in Seq(Byte) /\ kp2 \in Kids
        /\ (p \in tree2 => PrefixIs(pf, rep2[p], start2[p], end2[p]))
    BY <1>2, <1>3, <1>9
  <2>2. NodeFits(p, tree2, rep2, end2, start2)' /\ IsInode(p)' /\ ~IsLeaf(p)' /\ IsUsed(p)'
    BY <2>1, <1>5, <1>6, <1>8, <1>10, InodeNew
  <2> QED
    BY <2>2

\* Adding a leaf to an inode that has room.
LEMMA AddToNonfullFits ==
    ASSUME NEW tree, NEW rep, NEW end, NEW start, Inv(tree, rep, end, start),
           NEW t \in Thread, add_to_nonfull(t),
           NEW n, Is(n, at[t]["node"]), NEW f, Is(f, fresh(1)), NEW k, Is(k, key[t]),
           NEW tree2, Is(tree2, tree \cup {f}),
           NEW rep2, Is(rep2, [rep EXCEPT ![f] = k]),
           NEW end2, Is(end2, [end EXCEPT ![f] = KeyLen]),
           NEW start2, Is(start2, [start EXCEPT ![f] = end[n] + 1])
    PROVE  /\ TreeFits(tree2, rep2, end2, start2)'
           /\ Effect(t, tree, rep, end, start, tree2, rep2, end2, start2)
<1>at. n = at[t]["node"] /\ f = fresh(1) /\ k = key[t]
  BY DEF Is
<1>new. tree2 = tree \cup {f}
  BY DEF Is
<1>1. /\ TreeTypes(tree, rep, end, start)
      /\ LabelsFit(rep, end)
      /\ Paths(root, kidsOf, tree, rep, end, start)
      /\ MapFits(tree)
      /\ Shape(tree, rep, end, start)
      /\ \A m \in tree : IsUsed(m) /\ m \in Node
  BY InvParts
<1>2. /\ pc[t] = "add_to_nonfull" /\ pc[t] \in Commits /\ todo[t] = <<>> /\ f \in Node
      /\ nodes' = [WithLeaf(t) EXCEPT ![n].kids = add(@, NextByte(t), f)]
      /\ map' = [map EXCEPT ![k] = f] /\ root' = root /\ torn' = torn
  BY <1>at DEF add_to_nonfull, WriteSection, Ready, Bind, Rebind, Commits
<1>3. /\ k \in Key /\ k \in Bytes
      /\ nodes \in [Node -> AnyNode]
      /\ \A l \in Node : NodeFits(l, tree, rep, end, start)
      /\ \A l \in Node : IsInode(l) => end[l] \in 0 .. KeyLen - 1
      /\ rep \in [Node -> Bytes] /\ end \in [Node -> 0 .. KeyLen]
      /\ start \in [Node -> 0 .. KeyLen]
      /\ map \in [Key -> Lock] /\ root \in Lock
      /\ KeyLen \in Nat
  BY <1>2, <1>at, CommitSetting
<1>4. /\ n \in tree /\ n \in Node /\ depth[t] = end[n] /\ SameTo(k, rep[n], end[n])
      /\ k[end[n] + 1] \notin DOMAIN nodes[n].kids /\ ~is_full(nodes[n])
      /\ Mine(t, n) /\ \A l : ~Retired(t, l)
  <2>1. /\ Believes(t, tree, rep, end, start)
        /\ \A r \in Role : Guards(pc[t], r) => Mine(t, at[t][r])
        /\ \A l : Retired(t, l) <=> \E r \in Role : Retires(pc[t], r) /\ l = at[t][r]
    BY <1>2, AtCommit
  <2>2. Mine(t, n) /\ \A l : ~Retired(t, l)
    BY <1>2, <1>at, <2>1 DEF Guards, Retires, RemovesChild, Role
  <2> QED
    BY <1>1, <1>2, <1>at, <2>1, <2>2 DEF Believes, PastPrefix
<1>5. IsInode(n)
  BY <1>2, <1>at DEF Inv, ThreadTypes, HasInode
<1>6. /\ used \in Nat /\ f = used + 1 /\ used + 1 <= MaxNode
      /\ ~IsUsed(f) /\ f \notin tree /\ f # Nil
      /\ \A m \in Node : IsUsed(m) <=> m <= used
      /\ kidsOf[f] = <<>>
  BY <1>1, <1>2, <1>at, FreshNode
<1>7. end[n] \in 0 .. KeyLen - 1 /\ end[n] < KeyLen /\ n # f /\ f \in Lock
  BY <1>2, <1>3, <1>4, <1>5, <1>6 DEF Lock, Node
<1>8. PICK b : b = k[end[n] + 1]
  OBVIOUS
<1>9. NextByte(t) = b /\ b \in Byte /\ b \notin DOMAIN nodes[n].kids
  BY <1>3, <1>4, <1>7, <1>8, <1>at, NextByteIs
<1>10. PICK cl, pf, kn, kn2 : /\ cl = nodes[n].class /\ pf = nodes[n].prefix
                              /\ kn = nodes[n].kids /\ kn2 = add(kn, b, f)
  OBVIOUS
<1>11. nodes[n] = Inode(cl, pf, kn) /\ cl \in 1 .. Len(Cap) /\ pf \in Seq(Byte) /\ kn \in Kids
  BY <1>3, <1>5, <1>10, InodeFields
<1>12. /\ kn2 \in Kids /\ DOMAIN kn2 = DOMAIN kn \cup {b} /\ kn2[b] = f
       /\ \A c \in DOMAIN kn : c # b => kn2[c] = kn[c]
       /\ Cardinality(DOMAIN kn2) = Cardinality(DOMAIN kn) + 1
  <2>1. f \in Node /\ b \in Byte /\ kn \in Kids /\ b \notin DOMAIN kn /\ kn2 = add(kn, b, f)
    BY <1>2, <1>9, <1>10, <1>11
  <2>2. /\ add(kn, b, f) \in Kids
        /\ DOMAIN add(kn, b, f) = DOMAIN kn \cup {b}
        /\ add(kn, b, f)[b] = f
        /\ \A c \in DOMAIN kn : c # b => add(kn, b, f)[c] = kn[c]
        /\ b \notin DOMAIN kn =>
              Cardinality(DOMAIN add(kn, b, f)) = Cardinality(DOMAIN kn) + 1
    BY <2>1, KidsAdd
  <2> QED
    BY <2>1, <2>2
<1>13. /\ nodes'[f] = Leaf(k)
       /\ nodes'[n] = Inode(cl, pf, kn2)
       /\ \A l \in Node \ {n, f} : nodes'[l] = nodes[l]
       /\ nodes' = [l \in Node |-> nodes'[l]]
  <2>1. WithLeaf(t) = [nodes EXCEPT ![f] = Leaf(k)]
    BY <1>at DEF WithLeaf
  <2>2. nodes' = [[nodes EXCEPT ![f] = Leaf(k)] EXCEPT ![n].kids = kn2]
    BY <1>2, <1>3, <1>4, <1>7, <1>9, <1>10, <2>1
  <2>3. nodes'[n] = [nodes[n] EXCEPT !.kids = kn2]
    BY <1>3, <1>4, <1>7, <2>2
  <2>4. nodes'[n] = Inode(cl, pf, kn2)
    BY <1>11, <2>3 DEF Inode
  <2> QED
    BY <1>2, <1>3, <1>4, <1>7, <2>2, <2>4
<1>14. /\ rep2[f] = k /\ end2[f] = KeyLen /\ start2[f] = end[n] + 1
       /\ \A m \in tree : start2[m] = start[m] /\ rep2[m] = rep[m] /\ end2[m] = end[m]
       /\ rep2 \in [Node -> Bytes] /\ end2 \in [Node -> 0 .. KeyLen]
       /\ start2 \in [Node -> 0 .. KeyLen]
       /\ \A l \in Node : IsUsed(l) => rep2[l] = rep[l] /\ end2[l] = end[l]
  BY <1>1, <1>2, <1>3, <1>6, <1>7 DEF Is
<1>15. /\ NodeFits(f, tree2, rep2, end2, start2)'
       /\ IsLeaf(f)' /\ ~IsInode(f)' /\ IsUsed(f)' /\ nodes'[f].key = k
  <2>1. f \in Node /\ k \in Key /\ nodes'[f] = Leaf(k) /\ rep2[f] = k /\ end2[f] = KeyLen
    BY <1>2, <1>3, <1>13, <1>14
  <2>2. NodeFits(f, tree2, rep2, end2, start2)' /\ IsLeaf(f)' /\ ~IsInode(f)' /\ IsUsed(f)'
    BY <2>1, LeafNew
  <2>3. nodes'[f].key = k
    BY <2>1, NewKinds
  <2> QED
    BY <2>2, <2>3
<1>16. Keeps(rep, end, rep2, end2)
  <2>1. ASSUME NEW l \in Node, IsUsed(l) PROVE IsUsed(l)'
    <3>1. CASE l = n
      BY <1>4, <1>13, <3>1, NewKinds DEF IsUsed
    <3>2. CASE l # n
      BY <1>6, <1>13, <2>1, <3>2 DEF IsUsed
    <3> QED BY <3>1, <3>2
  <2> QED
    BY <1>14, <2>1 DEF Keeps
<1>17. /\ NodeFits(n, tree2, rep2, end2, start2)'
       /\ IsInode(n)' /\ ~IsLeaf(n)' /\ IsUsed(n)'
       /\ nodes'[n].kids = kn2
  <2>1. end2[n] = end[n] /\ rep2[n] = rep[n] /\ start2[n] = start[n] /\ end2[n] < KeyLen
    BY <1>4, <1>7, <1>14
  <2>2. ASSUME NEW c \in DOMAIN kn2, NEW m, m = kn2[c]
        PROVE  GoodKid(rep2, end2, n, c, m)'
    <3>1. CASE c = b
      BY <1>3, <1>4, <1>7, <1>8, <1>12, <1>14, <1>15, <2>1, <2>2, <3>1 DEF GoodKid, SameTo
    <3>2. CASE c # b
      <4>1. c \in DOMAIN kn /\ m = kn[c]
        BY <1>12, <2>2, <3>2
      <4>2. GoodKid(rep, end, n, c, m) /\ IsUsed(n)
        BY <1>3, <1>4, <1>5, <1>10, <4>1 DEF NodeFits, IsInode
      <4> QED
        BY <1>16, <4>2, GoodKidKept DEF Keeps
    <3> QED
      BY <3>1, <3>2
  <2>3. Sized(cl, kn2)
    <3>1. Cardinality(DOMAIN kn) \in min_size(cl) .. Cap[cl]
      BY <1>3, <1>4, <1>5, <1>10 DEF NodeFits, SizeFits
    <3>2. Cardinality(DOMAIN kn2) <= Cardinality(Byte) /\ Cardinality(DOMAIN kn) \in Nat
      BY <1>11, <1>12, KidsFinite
    <3>3. Cardinality(Byte) \in Nat
      BY KeyAssumption, FS_CardinalityType
    <3>4. Cap[cl] \in Nat /\ min_size(cl) \in Int /\ Cap[Len(Cap)] \in Nat
      BY <1>11, CapAssumption DEF min_size
    <3>5. CASE cl = Len(Cap)
      BY <1>12, <3>1, <3>2, <3>3, <3>4, <3>5, CapAssumption DEF Sized
    <3>6. CASE cl < Len(Cap)
      <4>1. Cardinality(DOMAIN kn) # Cap[cl]
        BY <1>4, <1>10, <3>6 DEF is_full
      <4> QED
        BY <1>12, <3>1, <3>2, <3>4, <4>1 DEF Sized
    <3> QED
      BY <1>11, <3>5, <3>6, CapAssumption
  <2>4. PrefixIs(pf, rep2[n], start2[n], end2[n])
    BY <1>3, <1>4, <1>5, <1>10, <2>1 DEF NodeFits, PrefixFits, PrefixIs
  <2>5. GoodKids(rep2, end2, n, kn2)'
    BY <2>2 DEF GoodKids, GoodKid, IsUsed
  <2>6. n \in Node /\ kn2 \in Kids /\ end2[n] < KeyLen
    BY <1>4, <1>12, <2>1
  <2>7. NodeFits(n, tree2, rep2, end2, start2)' /\ IsInode(n)' /\ ~IsLeaf(n)' /\ IsUsed(n)'
    BY <1>11, <1>13, <2>3, <2>4, <2>5, <2>6, InodeNew
  <2>8. nodes'[n].kids = kn2
    BY <1>13, NewKinds
  <2> QED
    BY <2>7, <2>8
<1>18. ASSUME NEW l \in Node
       PROVE  /\ NodeFits(l, tree2, rep2, end2, start2)'
              /\ IsUsed(l)' <=> IsUsed(l) \/ l = f
              /\ IsLeaf(l)' => l = f \/ IsLeaf(l)
              /\ IsUsed(l) => Touches(t, l)
  <2>1. CASE l = f
    BY <1>6, <1>15, <2>1
  <2>2. CASE l = n
    BY <1>4, <1>5, <1>10, <1>13, <1>17, <2>2, TouchesInode DEF IsInode
  <2>3. CASE l # f /\ l # n
    <3>1. nodes'[l] = nodes[l] /\ NodeFits(l, tree, rep, end, start)
      BY <1>3, <1>13, <2>3
    <3>2. l \in tree2 /\ IsInode(l) => l \in tree /\ start2[l] = start[l]
      BY <1>14, <1>new, <2>3
    <3>3. /\ NodeFits(l, tree2, rep2, end2, start2)'
          /\ IsLeaf(l)' <=> IsLeaf(l)
          /\ IsUsed(l)' <=> IsUsed(l)
      BY <1>16, <3>1, <3>2, NodeKept
    <3> QED
      BY <2>3, <3>1, <3>3, TouchesNot
  <2> QED
    BY <2>1, <2>2, <2>3
<1>19. Paths(root, kidsOf, tree2, rep2, end2, start2)'
  <2>1. PICK kd, kd2 : kd = kidsOf /\ kd2 = kidsOf'
    OBVIOUS
  <2>2. kd2[f] = <<>> /\ kd2[n] = add(kd[n], b, f) /\ kd[n] = kn
    BY <1>2, <1>4, <1>5, <1>10, <1>15, <1>17, <2>1, KidsOfNow, KidsOfNext
  <2>3. \A m \in tree \ {n} : kd2[m] = kd[m]
    BY <1>1, <1>6, <1>13, <2>1, KidsOfNext
  <2>4. Paths(root, kd, tree, rep2, end2, start2)
    <3>1. \A m \in tree : /\ kd[m] = kidsOf[m] /\ rep2[m] = rep[m]
                          /\ end2[m] = end[m] /\ start2[m] = start[m]
      BY <1>14, <2>1
    <3> QED
      BY <1>1, <3>1, PathsSame
  <2>5. Shape(tree \cup {f}, rep2, end2, start2)
    BY <1>1, <1>3, <1>7, <1>14 DEF Shape
  <2>6. /\ end2[n] < KeyLen /\ SameTo(k, rep2[n], end2[n])
        /\ k[end2[n] + 1] \notin DOMAIN kd[n]
        /\ start2[f] = end2[n] + 1 /\ kd2[n] = add(kd[n], k[end2[n] + 1], f)
        /\ DOMAIN kd2[f] = {}
    BY <1>4, <1>7, <1>8, <1>10, <1>14, <2>2
  <2>7. Paths(root, kd2, tree \cup {f}, rep2, end2, start2)
    BY <1>4, <1>6, <1>14, <2>3, <2>4, <2>5, <2>6, PathsAdd
  <2> QED
    BY <1>2, <1>new, <2>1, <2>7
<1>20. MapFits(tree2)'
  <2>1. \A m \in tree : IsLeaf(m) => nodes[m].key # k
    <3>1. end[n] < KeyLen /\ k[end[n] + 1] \notin DOMAIN kidsOf[n]
      BY <1>4, <1>5, <1>7, KidsOfNow DEF IsInode, IsUsed
    <3>2. \A m \in tree : end[m] = KeyLen => rep[m] # k
      BY <1>1, <1>4, <3>1, NoChildNoLeaf
    <3> QED
      BY <1>1, <3>2 DEF LabelsFit
  <2>2. \A m \in tree : IsLeaf(m) => nodes[m].key # k /\ m \in tree2 /\ nodes'[m] = nodes[m]
    BY <1>1, <1>5, <1>6, <1>13, <1>new, <2>1 DEF IsLeaf, IsInode
  <2>3. \A m \in tree2 : m # f /\ IsLeaf(m)' => m \in tree /\ nodes'[m] = nodes[m]
    BY <1>1, <1>13, <1>17, <1>new
  <2>4. f \in tree2
    BY <1>new
  <2> QED
    BY <1>1, <1>2, <1>3, <1>15, <2>2, <2>3, <2>4, MapInsert
<1>21. TreeFits(tree2, rep2, end2, start2)'
  <2>1. \A l \in Node : IsUsed(l)' <=> l <= used + 1
    BY <1>6, <1>18 DEF Node
  <2>2. \A l \in tree2 : l \in Node /\ IsUsed(l)'
    BY <1>1, <1>2, <1>18, <1>new
  <2>3. map' \in [Key -> Lock] /\ root' \in Lock
    BY <1>2, <1>3, <1>7, Bound
  <2> QED
    BY <1>6, <1>13, <1>14, <1>18, <1>19, <1>20, <2>1, <2>2, <2>3, StepFits
<1>22. Effect(t, tree, rep, end, start, tree2, rep2, end2, start2)
  <2>1. \A l \in Node :
          l \in tree2 <=> (l \in tree /\ ~Retired(t, l)) \/ (IsUsed(l)' /\ ~IsUsed(l))
    BY <1>1, <1>4, <1>6, <1>18, <1>new
  <2>2. \A l \in tree : ~Mine(t, l) => start2[l] = start[l]
    BY <1>14
  <2> QED
    BY <1>2, <1>16, <1>18, <2>1, <2>2, EffectIs
<1> QED
  BY <1>21, <1>22

\* No more than MaxNode nodes are in use.
LEMMA UsedBound ==
    used <= MaxNode
<1>1. IsFiniteSet(Node) /\ Cardinality(Node) = MaxNode
  <2>1. 1 \in Int /\ MaxNode \in Int
    BY BoundAssumption
  <2>2. /\ IsFiniteSet(1 .. MaxNode)
        /\ Cardinality(1 .. MaxNode) = IF 1 > MaxNode THEN 0 ELSE MaxNode - 1 + 1
    BY <2>1, FS_Interval
  <2> QED
    BY <2>2, BoundAssumption DEF Node
<1>2. {n \in Node : nodes[n] # Unused} \subseteq Node
  OBVIOUS
<1>3. Cardinality({n \in Node : nodes[n] # Unused}) <= Cardinality(Node)
  BY <1>1, <1>2, FS_Subset
<1> QED
  BY <1>1, <1>3 DEF used

\* A first leaf in an empty tree.
LEMMA InsertRootFits ==
    ASSUME NEW tree, NEW rep, NEW end, NEW start, Inv(tree, rep, end, start),
           NEW t \in Thread, insert_root(t), NEW f, Is(f, fresh(1)), NEW k, Is(k, key[t]),
           NEW tree2, Is(tree2, {f}),
           NEW rep2, Is(rep2, [rep EXCEPT ![f] = k]),
           NEW end2, Is(end2, [end EXCEPT ![f] = KeyLen]),
           NEW start2, Is(start2, [start EXCEPT ![f] = 0])
    PROVE  /\ TreeFits(tree2, rep2, end2, start2)'
           /\ Effect(t, tree, rep, end, start, tree2, rep2, end2, start2)
<1>at. f = fresh(1) /\ k = key[t]
  BY DEF Is
<1>new. tree2 = {f}
  BY DEF Is
<1>1. /\ TreeTypes(tree, rep, end, start)
      /\ LabelsFit(rep, end)
      /\ Paths(root, kidsOf, tree, rep, end, start)
      /\ MapFits(tree)
      /\ Shape(tree, rep, end, start) /\ Nil \notin tree
      /\ \A m \in tree : IsUsed(m) /\ m \in Node
  BY InvParts
<1>2. /\ pc[t] = "insert_root" /\ pc[t] \in Commits /\ todo[t] = <<>> /\ f \in Node
      /\ nodes' = [nodes EXCEPT ![f] = Leaf(k)]
      /\ map' = [map EXCEPT ![k] = f] /\ root' = f /\ torn' = torn
  BY <1>at DEF insert_root, WriteSection, Ready, Bind, Rebind, Commits, WithLeaf
<1>3. /\ k \in Key /\ k \in Bytes
      /\ nodes \in [Node -> AnyNode]
      /\ \A l \in Node : NodeFits(l, tree, rep, end, start)
      /\ \A l \in Node : IsInode(l) => end[l] \in 0 .. KeyLen - 1
      /\ rep \in [Node -> Bytes] /\ end \in [Node -> 0 .. KeyLen]
      /\ start \in [Node -> 0 .. KeyLen]
      /\ map \in [Key -> Lock] /\ root \in Lock
      /\ KeyLen \in Nat
  BY <1>2, <1>at, CommitSetting
<1>bel. /\ Believes(t, tree, rep, end, start)
        /\ \A r \in Role : Guards(pc[t], r) => Mine(t, at[t][r])
        /\ \A l : Retired(t, l) <=> \E r \in Role : Retires(pc[t], r) /\ l = at[t][r]
  BY <1>2, AtCommit
<1>4. root = Nil /\ tree = {} /\ Mine(t, Nil) /\ \A l : ~Retired(t, l)
  <2>1. root = Nil
    BY <1>2, <1>bel DEF Believes
  <2>2. at[t]["parent"] = Nil
    BY <1>2 DEF Inv, ThreadTypes
  <2>3. Mine(t, Nil) /\ \A l : ~Retired(t, l)
    BY <1>2, <1>bel, <2>2 DEF Guards, Retires, RemovesChild, Role, Commits
  <2> QED
    BY <1>1, <2>1, <2>3 DEF Paths
<1>6. /\ used \in Nat /\ f = used + 1 /\ used + 1 <= MaxNode
      /\ ~IsUsed(f) /\ f \notin tree /\ f # Nil
      /\ \A m \in Node : IsUsed(m) <=> m <= used
      /\ kidsOf[f] = <<>> /\ f \in Lock
  BY <1>1, <1>2, <1>at, FreshNode DEF Lock, Node
<1>13. /\ nodes'[f] = Leaf(k)
       /\ \A l \in Node \ {f} : nodes'[l] = nodes[l]
       /\ nodes' = [l \in Node |-> nodes'[l]]
  BY <1>2, <1>3
<1>14. /\ rep2[f] = k /\ end2[f] = KeyLen /\ start2[f] = 0
       /\ rep2 \in [Node -> Bytes] /\ end2 \in [Node -> 0 .. KeyLen]
       /\ start2 \in [Node -> 0 .. KeyLen]
       /\ \A l \in Node : IsUsed(l) => rep2[l] = rep[l] /\ end2[l] = end[l]
  BY <1>2, <1>3, <1>6 DEF Is
<1>15. NodeFits(f, tree2, rep2, end2, start2)' /\ IsLeaf(f)' /\ ~IsInode(f)' /\ IsUsed(f)'
  BY <1>2, <1>3, <1>13, <1>14, LeafNew
<1>16. Keeps(rep, end, rep2, end2)
  BY <1>6, <1>13, <1>14 DEF Keeps, IsUsed
<1>18. ASSUME NEW l \in Node
       PROVE  /\ NodeFits(l, tree2, rep2, end2, start2)'
              /\ IsUsed(l)' <=> IsUsed(l) \/ l = f
              /\ IsUsed(l) => Touches(t, l)
  <2>1. CASE l = f
    BY <1>6, <1>15, <2>1
  <2>3. CASE l # f
    <3>1. nodes'[l] = nodes[l] /\ NodeFits(l, tree, rep, end, start) /\ l \notin tree2
      BY <1>3, <1>13, <1>new, <2>3
    <3>3. /\ NodeFits(l, tree2, rep2, end2, start2)'
          /\ IsUsed(l)' <=> IsUsed(l)
      BY <1>16, <3>1, NodeKept
    <3> QED
      BY <2>3, <3>1, <3>3, TouchesNot
  <2> QED
    BY <2>1, <2>3
<1>19. Paths(root, kidsOf, tree2, rep2, end2, start2)'
  <2>1. PICK kd2 : kd2 = kidsOf'
    OBVIOUS
  <2>2. kd2[f] = <<>>
    BY <1>2, <1>15, <2>1, KidsOfNext
  <2>3. Laminar({f}, rep2, end2, start2, [m \in {f} |-> DOMAIN kd2[m]])
    BY <1>3, <1>14 DEF Laminar, Extends, SameTo
  <2>4. Paths(f, kd2, {f}, rep2, end2, start2)
    BY <1>3, <1>6, <1>14, <2>2, <2>3 DEF Paths
  <2> QED
    BY <1>2, <1>new, <2>1, <2>4
<1>20. MapFits(tree2)'
  <2>2. \A m \in tree : IsLeaf(m) => nodes[m].key # k /\ m \in tree2 /\ nodes'[m] = nodes[m]
    BY <1>4
  <2>3. \A m \in tree2 : m # f /\ IsLeaf(m)' => m \in tree /\ nodes'[m] = nodes[m]
    BY <1>new
  <2>4. f \in tree2 /\ nodes'[f].key = k
    BY <1>new, <1>13, NewKinds
  <2> QED
    BY <1>1, <1>2, <1>3, <1>15, <2>2, <2>3, <2>4, MapInsert
<1>21. TreeFits(tree2, rep2, end2, start2)'
  <2>1. \A l \in Node : IsUsed(l)' <=> l <= used + 1
    BY <1>6, <1>18 DEF Node
  <2>2. \A l \in tree2 : l \in Node /\ IsUsed(l)'
    BY <1>2, <1>18, <1>new
  <2>3. map' \in [Key -> Lock] /\ root' \in Lock
    BY <1>2, <1>3, <1>6, Bound
  <2> QED
    BY <1>6, <1>13, <1>14, <1>18, <1>19, <1>20, <2>1, <2>2, <2>3, StepFits
<1>22. Effect(t, tree, rep, end, start, tree2, rep2, end2, start2)
  <2>1. \A l \in Node :
          l \in tree2 <=> (l \in tree /\ ~Retired(t, l)) \/ (IsUsed(l)' /\ ~IsUsed(l))
    BY <1>4, <1>6, <1>18, <1>new
  <2>2. \A l \in tree : ~Mine(t, l) => start2[l] = start[l]
    BY <1>4
  <2> QED
    BY <1>2, <1>4, <1>16, <1>18, <2>1, <2>2, EffectIs
<1> QED
  BY <1>21, <1>22

\* Taking out a root that is a leaf.
LEMMA RemoveRootFits ==
    ASSUME NEW tree, NEW rep, NEW end, NEW start, Inv(tree, rep, end, start),
           NEW t \in Thread, remove_root(t), NEW n, Is(n, at[t]["node"]), NEW k, Is(k, key[t])
    PROVE  /\ TreeFits({}, rep, end, start)'
           /\ Effect(t, tree, rep, end, start, {}, rep, end, start)
<1>at. n = at[t]["node"] /\ k = key[t]
  BY DEF Is
<1>1. /\ TreeTypes(tree, rep, end, start)
      /\ LabelsFit(rep, end)
      /\ Paths(root, kidsOf, tree, rep, end, start)
      /\ MapFits(tree)
      /\ Shape(tree, rep, end, start) /\ Nil \notin tree
      /\ \A m \in tree : IsUsed(m) /\ m \in Node
  BY InvParts
<1>2. /\ pc[t] = "remove_root" /\ pc[t] \in Commits /\ todo[t] = <<>>
      /\ nodes' = nodes
      /\ map' = [map EXCEPT ![k] = Nil] /\ root' = Nil /\ torn' = torn
  BY <1>at DEF remove_root, WriteSection, Ready, Bind, Rebind, Commits
<1>3. /\ k \in Key /\ k \in Bytes
      /\ nodes \in [Node -> AnyNode]
      /\ \A l \in Node : NodeFits(l, tree, rep, end, start)
      /\ \A l \in Node : IsInode(l) => end[l] \in 0 .. KeyLen - 1
      /\ rep \in [Node -> Bytes] /\ end \in [Node -> 0 .. KeyLen]
      /\ start \in [Node -> 0 .. KeyLen]
      /\ map \in [Key -> Lock] /\ root \in Lock
      /\ KeyLen \in Nat
  BY <1>2, <1>at, CommitSetting
<1>bel. /\ Believes(t, tree, rep, end, start)
        /\ \A r \in Role : Guards(pc[t], r) => Mine(t, at[t][r])
        /\ \A l : Retired(t, l) <=> \E r \in Role : Retires(pc[t], r) /\ l = at[t][r]
  BY <1>2, AtCommit
<1>4. root = n /\ IsLeaf(n) /\ nodes[n].key = k /\ Mine(t, Nil) /\ Retired(t, n)
      /\ n \in Node /\ Nil \in Lock
  <2>1. root = n
    BY <1>2, <1>at, <1>bel DEF Believes
  <2>2. at[t]["parent"] = Nil /\ IsLeaf(n) /\ nodes[n].key = k
    BY <1>2, <1>at DEF Inv, ThreadTypes
  <2>3. Mine(t, Nil) /\ Retired(t, n)
    BY <1>2, <1>bel, <1>at, <2>2 DEF Guards, Retires, RemovesChild, Role, Commits
  <2> QED
    BY <2>1, <2>2, <2>3, BoundAssumption DEF IsLeaf, IsUsed, Lock, Nil
<1>5. tree = {n}
  <2>1. n \in tree /\ start[n] = 0
    BY <1>1, <1>4 DEF Paths, Nil, Node
  <2>2. kidsOf[n] = <<>>
    BY <1>4, KidsOfNow
  <2>3. ASSUME NEW m \in tree, m # n
        PROVE  FALSE
    <3>1. Extends(rep, end, m, n, start[n])
      BY <1>1, <2>1, <2>3 DEF Extends, SameTo, Shape
    <3>2. Extends(rep, end, m, n, end[n])
      BY <1>1, <2>1, <3>1 DEF Paths, Laminar
    <3>3. rep[m][end[n] + 1] \in [o \in tree |-> DOMAIN kidsOf[o]][n]
      BY <1>1, <2>1, <2>3, <3>2 DEF Paths, Laminar
    <3> QED
      BY <2>1, <2>2, <3>3
  <2> QED
    BY <2>1, <2>3
<1>16. Keeps(rep, end, rep, end)
  BY <1>2 DEF Keeps, IsUsed
<1>18. ASSUME NEW l \in Node
       PROVE  /\ NodeFits(l, {}, rep, end, start)'
              /\ IsUsed(l)' <=> IsUsed(l)
              /\ Touches(t, l)
  <2>1. nodes'[l] = nodes[l] /\ NodeFits(l, tree, rep, end, start)
    BY <1>2, <1>3
  <2>2. NodeFits(l, {}, rep, end, start)' /\ (IsUsed(l)' <=> IsUsed(l))
    BY <1>16, <2>1, NodeKept
  <2> QED
    BY <2>1, <2>2, TouchesNot
<1>19. Paths(root, kidsOf, {}, rep, end, start)'
  <2>1. PICK kd2 : kd2 = kidsOf'
    OBVIOUS
  <2>2. Laminar({}, rep, end, start, [m \in {} |-> DOMAIN kd2[m]])
    BY DEF Laminar
  <2>3. Paths(Nil, kd2, {}, rep, end, start)
    BY <2>2 DEF Paths
  <2> QED
    BY <1>2, <2>1, <2>3
<1>20. MapFits({})'
  <2>1. \A m \in tree \ {n} : IsLeaf(m) => m \in {} /\ nodes'[m] = nodes[m]
    BY <1>5
  <2>2. \A m \in {} : IsLeaf(m)' => m \in tree \ {n} /\ nodes'[m] = nodes[m]
    OBVIOUS
  <2>3. n \in tree
    BY <1>5
  <2> QED
    BY <1>1, <1>2, <1>3, <1>4, <2>1, <2>2, <2>3, MapRemove
<1>21. TreeFits({}, rep, end, start)'
  <2>1. \A l \in Node : IsUsed(l)' <=> l <= used + 0
    BY <1>1, <1>18, UsedNat DEF TreeTypes, IsUsed
  <2>2. \A l \in {} : l \in Node /\ IsUsed(l)'
    OBVIOUS
  <2>3. map' \in [Key -> Lock] /\ root' \in Lock
    BY <1>2, <1>3, <1>4, Bound
  <2>4. used + 0 <= MaxNode /\ nodes' = [l \in Node |-> nodes'[l]]
    BY <1>2, <1>3, UsedBound, UsedNat
  <2> QED
    BY <1>3, <1>18, <1>19, <1>20, <2>1, <2>2, <2>3, <2>4, StepFits
<1>22. Effect(t, tree, rep, end, start, {}, rep, end, start)
  <2>1. \A l \in Node :
          l \in {} <=> (l \in tree /\ ~Retired(t, l)) \/ (IsUsed(l)' /\ ~IsUsed(l))
    BY <1>4, <1>5, <1>18
  <2> QED
    BY <1>2, <1>4, <1>16, <1>18, <2>1, EffectIs
<1> QED
  BY <1>21, <1>22

\* Taking a leaf out of an inode above its minimum size.
LEMMA RemoveChildFits ==
    ASSUME NEW tree, NEW rep, NEW end, NEW start, Inv(tree, rep, end, start),
           NEW t \in Thread, remove_child(t), NEW n, Is(n, at[t]["node"]),
           NEW c, Is(c, at[t]["child"]), NEW k, Is(k, key[t]), NEW tree2, Is(tree2, tree \ {c})
    PROVE  /\ TreeFits(tree2, rep, end, start)'
           /\ Effect(t, tree, rep, end, start, tree2, rep, end, start)
<1>at. n = at[t]["node"] /\ c = at[t]["child"] /\ k = key[t]
  BY DEF Is
<1>new. tree2 = tree \ {c}
  BY DEF Is
<1>1. /\ TreeTypes(tree, rep, end, start)
      /\ LabelsFit(rep, end)
      /\ Paths(root, kidsOf, tree, rep, end, start)
      /\ MapFits(tree)
      /\ Shape(tree, rep, end, start) /\ Nil \notin tree
      /\ \A m \in tree : IsUsed(m) /\ m \in Node
  BY InvParts
<1>2. /\ pc[t] = "remove_child" /\ pc[t] \in Commits /\ todo[t] = <<>>
      /\ nodes' = [nodes EXCEPT ![n].kids = drop(@, NextByte(t))]
      /\ map' = [map EXCEPT ![k] = Nil] /\ root' = root /\ torn' = torn
  BY <1>at DEF remove_child, WriteSection, Ready, Bind, Rebind, Commits
<1>3. /\ k \in Key /\ k \in Bytes
      /\ nodes \in [Node -> AnyNode]
      /\ \A l \in Node : NodeFits(l, tree, rep, end, start)
      /\ \A l \in Node : IsInode(l) => end[l] \in 0 .. KeyLen - 1
      /\ rep \in [Node -> Bytes] /\ end \in [Node -> 0 .. KeyLen]
      /\ start \in [Node -> 0 .. KeyLen]
      /\ map \in [Key -> Lock] /\ root \in Lock
      /\ KeyLen \in Nat
  BY <1>2, <1>at, CommitSetting
<1>bel. /\ Believes(t, tree, rep, end, start)
        /\ \A r \in Role : Guards(pc[t], r) => Mine(t, at[t][r])
        /\ \A l : Retired(t, l) <=> \E r \in Role : Retires(pc[t], r) /\ l = at[t][r]
  BY <1>2, AtCommit
<1>4. /\ n \in tree /\ n \in Node /\ depth[t] = end[n] /\ SameTo(k, rep[n], end[n])
      /\ k[end[n] + 1] \in DOMAIN nodes[n].kids /\ nodes[n].kids[k[end[n] + 1]] = c
      /\ ~is_min_size(nodes[n]) /\ Mine(t, n)
  <2>1. Mine(t, n)
    BY <1>2, <1>bel, <1>at DEF Guards, Retires, RemovesChild, Role
  <2> QED
    BY <1>1, <1>2, <1>at, <1>bel, <2>1 DEF Believes, PastPrefix, ToChild, RemovesChild
<1>5. IsInode(n) /\ IsLeaf(c) /\ nodes[c].key = k /\ c \in Node /\ c # n
      /\ \A l : Retired(t, l) <=> l = c
  <2>1. IsInode(n) /\ IsLeaf(c) /\ nodes[c].key = k
    BY <1>2, <1>at DEF Inv, ThreadTypes, HasInode, RemovesChild
  <2>2. \A l : Retired(t, l) <=> l = c
    BY <1>2, <1>bel, <1>at DEF Retires, RemovesChild, Role
  <2> QED
    BY <2>1, <2>2 DEF IsInode, IsLeaf, IsUsed
<1>7. end[n] \in 0 .. KeyLen - 1 /\ end[n] < KeyLen /\ end[c] = KeyLen /\ Nil \in Lock
  BY <1>1, <1>3, <1>4, <1>5, BoundAssumption DEF LabelsFit, Lock, Nil
<1>8. PICK b : b = k[end[n] + 1]
  OBVIOUS
<1>9. NextByte(t) = b
  BY <1>3, <1>4, <1>7, <1>8, <1>at, NextByteIs
<1>10. PICK cl, pf, kn, kn2 : /\ cl = nodes[n].class /\ pf = nodes[n].prefix
                              /\ kn = nodes[n].kids /\ kn2 = drop(kn, b)
  OBVIOUS
<1>11. nodes[n] = Inode(cl, pf, kn) /\ cl \in 1 .. Len(Cap) /\ pf \in Seq(Byte) /\ kn \in Kids
       /\ b \in DOMAIN kn /\ kn[b] = c
  BY <1>3, <1>4, <1>5, <1>8, <1>10, InodeFields
<1>12. kn2 \in Kids
  BY <1>10, <1>11, KidsDrop
<1>13. /\ nodes'[n] = Inode(cl, pf, kn2)
       /\ \A l \in Node \ {n} : nodes'[l] = nodes[l]
       /\ nodes' = [l \in Node |-> nodes'[l]]
  <2>1. nodes'[n] = [nodes[n] EXCEPT !.kids = kn2]
    BY <1>2, <1>3, <1>4, <1>9, <1>10
  <2>2. nodes'[n] = Inode(cl, pf, kn2)
    BY <1>11, <2>1 DEF Inode
  <2> QED
    BY <1>2, <1>3, <2>2
<1>16. Keeps(rep, end, rep, end)
  <2>1. ASSUME NEW l \in Node, IsUsed(l) PROVE IsUsed(l)'
    <3>1. CASE l = n
      BY <1>4, <1>13, <3>1, NewKinds DEF IsUsed
    <3>2. CASE l # n
      BY <1>13, <2>1, <3>2 DEF IsUsed
    <3> QED BY <3>1, <3>2
  <2> QED
    BY <2>1 DEF Keeps
<1>17. NodeFits(n, tree2, rep, end, start)' /\ IsInode(n)' /\ ~IsLeaf(n)' /\ IsUsed(n)'
  <2>1. NodeFits(n, tree, rep, end, start) /\ IsInode(n)
    BY <1>3, <1>4, <1>5
  <2>2. GoodKids(rep, end, n, kn)'
    BY <1>10, <1>16, <2>1, GoodKidsKept
  <2>3. GoodKids(rep, end, n, kn2)'
    BY <1>10, <2>2, GoodKidsDrop
  <2>4. Sized(cl, kn) /\ Cardinality(DOMAIN kn) # min_size(cl)
    BY <1>4, <1>10, <2>1 DEF NodeFits, SizeFits, Sized, is_min_size
  <2>5. Sized(cl, kn2)
    BY <1>10, <1>11, <2>4, SizedDrop
  <2>6. PrefixIs(pf, rep[n], start[n], end[n])
    BY <1>4, <1>10, <2>1 DEF NodeFits, PrefixFits, PrefixIs
  <2> QED
    BY <1>4, <1>7, <1>11, <1>12, <1>13, <2>3, <2>5, <2>6, InodeNew
<1>18. ASSUME NEW l \in Node
       PROVE  /\ NodeFits(l, tree2, rep, end, start)'
              /\ IsUsed(l)' <=> IsUsed(l)
              /\ IsLeaf(l)' => l # n
              /\ IsUsed(l) => Touches(t, l)
  <2>2. CASE l = n
    BY <1>4, <1>5, <1>10, <1>13, <1>17, <2>2, TouchesInode DEF IsInode
  <2>3. CASE l # n
    <3>1. nodes'[l] = nodes[l] /\ NodeFits(l, tree, rep, end, start)
      BY <1>3, <1>13, <2>3
    <3>2. l \in tree2 /\ IsInode(l) => l \in tree
      BY <1>new
    <3>3. /\ NodeFits(l, tree2, rep, end, start)'
          /\ IsUsed(l)' <=> IsUsed(l)
      BY <1>16, <3>1, <3>2, NodeKept
    <3> QED
      BY <2>3, <3>1, <3>3, TouchesNot
  <2> QED
    BY <2>2, <2>3
<1>19. Paths(root, kidsOf, tree2, rep, end, start)'
  <2>1. PICK kd, kd2 : kd = kidsOf /\ kd2 = kidsOf'
    OBVIOUS
  <2>2. kd[n] = kn /\ kd[c] = <<>>
    BY <1>4, <1>5, <1>10, <2>1, KidsOfNow
  <2>3. kd2[n] = drop(kd[n], b)
    BY <1>4, <1>10, <1>13, <1>17, <2>1, <2>2, KidsOfNext, NewKinds
  <2>4. \A m \in tree \ {n} : kd2[m] = kd[m]
    BY <1>1, <1>13, <2>1, KidsOfNext
  <2>5. b \in DOMAIN kd[n] /\ end[kd[n][b]] = KeyLen /\ DOMAIN kd[kd[n][b]] = {}
    BY <1>7, <1>11, <2>2
  <2>6. Paths(root, kd, tree, rep, end, start)
    BY <1>1, <2>1
  <2>7. Paths(root, kd2, tree \ {kd[n][b]}, rep, end, start)
    BY <1>1, <1>4, <1>7, <2>3, <2>4, <2>5, <2>6, PathsDrop
  <2> QED
    BY <1>2, <1>11, <1>new, <2>1, <2>2, <2>7
<1>20. MapFits(tree2)'
  <2>0. c \in tree
    <3>1. kidsOf[n] = kn
      BY <1>4, <1>5, <1>10, KidsOfNow
    <3> QED
      BY <1>1, <1>4, <1>11, <3>1 DEF Paths
  <2>1. \A m \in tree \ {c} : IsLeaf(m) => m \in tree2 /\ nodes'[m] = nodes[m]
    BY <1>1, <1>5, <1>13, <1>new DEF IsLeaf, IsInode
  <2>2. \A m \in tree2 : IsLeaf(m)' => m \in tree \ {c} /\ nodes'[m] = nodes[m]
    BY <1>1, <1>13, <1>18, <1>new
  <2> QED
    BY <1>1, <1>2, <1>3, <1>5, <2>0, <2>1, <2>2, MapRemove
<1>21. TreeFits(tree2, rep, end, start)'
  <2>1. \A l \in Node : IsUsed(l)' <=> l <= used + 0
    BY <1>1, <1>18, UsedNat DEF TreeTypes, IsUsed
  <2>2. \A l \in tree2 : l \in Node /\ IsUsed(l)'
    BY <1>1, <1>18, <1>new
  <2>3. map' \in [Key -> Lock] /\ root' \in Lock
    BY <1>2, <1>3, <1>7, Bound
  <2>4. used + 0 <= MaxNode
    BY UsedBound, UsedNat
  <2> QED
    BY <1>3, <1>13, <1>18, <1>19, <1>20, <2>1, <2>2, <2>3, <2>4, StepFits
<1>22. Effect(t, tree, rep, end, start, tree2, rep, end, start)
  <2>1. \A l \in Node :
          l \in tree2 <=> (l \in tree /\ ~Retired(t, l)) \/ (IsUsed(l)' /\ ~IsUsed(l))
    BY <1>5, <1>18, <1>new
  <2> QED
    BY <1>2, <1>4, <1>16, <1>18, <2>1, EffectIs
<1> QED
  BY <1>21, <1>22

\* A larger inode with one more leaf in the place of a full one.
LEMMA GrowFits ==
    ASSUME NEW tree, NEW rep, NEW end, NEW start, Inv(tree, rep, end, start),
           NEW t \in Thread, grow(t), NEW n, Is(n, at[t]["node"]), NEW p, Is(p, at[t]["parent"]),
           NEW f, Is(f, fresh(1)), NEW g, Is(g, fresh(2)), NEW k, Is(k, key[t]),
           NEW tree2, Is(tree2, ((tree \cup {f}) \ {n}) \cup {g}),
           NEW rep2, Is(rep2, [rep EXCEPT ![f] = k, ![g] = rep[n]]),
           NEW end2, Is(end2, [end EXCEPT ![f] = KeyLen, ![g] = end[n]]),
           NEW start2, Is(start2, [start EXCEPT ![f] = end[n] + 1, ![g] = start[n]])
    PROVE  /\ TreeFits(tree2, rep2, end2, start2)'
           /\ Effect(t, tree, rep, end, start, tree2, rep2, end2, start2)
<1>at. n = at[t]["node"] /\ p = at[t]["parent"] /\ f = fresh(1) /\ g = fresh(2) /\ k = key[t]
  BY DEF Is
<1>new. tree2 = ((tree \cup {f}) \ {n}) \cup {g}
  BY DEF Is
<1>1. /\ TreeTypes(tree, rep, end, start)
      /\ LabelsFit(rep, end)
      /\ Paths(root, kidsOf, tree, rep, end, start)
      /\ MapFits(tree)
      /\ Shape(tree, rep, end, start) /\ Nil \notin tree
      /\ \A m \in tree : IsUsed(m) /\ m \in Node
  BY InvParts
<1>nd. PICK nd : Is(nd, [[nodes EXCEPT ![f] = Leaf(k)] EXCEPT ![g] =
                         Inode(nodes[n].class + 1, nodes[n].prefix,
                               add(nodes[n].kids, NextByte(t), f))])
  BY DEF Is
<1>2. /\ pc[t] = "grow" /\ pc[t] \in Commits /\ todo[t] = <<>> /\ g \in Node
      /\ SetInParent(t, nd, g)
      /\ map' = [map EXCEPT ![k] = f] /\ torn' = torn
  BY <1>at, <1>nd DEF grow, WriteSection, Ready, Bind, Rebind, Commits, WithLeaf, NodeOf, Is
<1>3. /\ k \in Key /\ k \in Bytes
      /\ nodes \in [Node -> AnyNode]
      /\ \A l \in Node : NodeFits(l, tree, rep, end, start)
      /\ \A l \in Node : IsInode(l) => end[l] \in 0 .. KeyLen - 1
      /\ rep \in [Node -> Bytes] /\ end \in [Node -> 0 .. KeyLen]
      /\ start \in [Node -> 0 .. KeyLen]
      /\ map \in [Key -> Lock] /\ root \in Lock
      /\ KeyLen \in Nat
  BY <1>2, <1>at, CommitSetting
<1>bel. /\ Believes(t, tree, rep, end, start)
        /\ \A r \in Role : Guards(pc[t], r) => Mine(t, at[t][r])
        /\ \A l : Retired(t, l) <=> \E r \in Role : Retires(pc[t], r) /\ l = at[t][r]
  BY <1>2, AtCommit
<1>4. /\ n \in tree /\ n \in Node /\ depth[t] = end[n] /\ SameTo(k, rep[n], end[n])
      /\ k[end[n] + 1] \notin DOMAIN nodes[n].kids /\ is_full(nodes[n])
      /\ OnLink(t, tree, rep, end)
      /\ Mine(t, p) /\ \A l : Retired(t, l) <=> l = n
  <2>1. Mine(t, p)
    BY <1>2, <1>bel, <1>at DEF Guards, Retires, RemovesChild, Role, Commits
  <2>2. \A l : Retired(t, l) <=> l = n
    BY <1>2, <1>bel, <1>at DEF Retires, RemovesChild, Role
  <2> QED
    BY <1>1, <1>2, <1>at, <1>bel, <2>1, <2>2 DEF Believes, PastPrefix
<1>5. IsInode(n)
  BY <1>2, <1>at DEF Inv, ThreadTypes, HasInode
<1>6. /\ used \in Nat /\ f = used + 1 /\ g = used + 2 /\ used + 2 <= MaxNode /\ f \in Node
      /\ ~IsUsed(f) /\ f \notin tree /\ f # Nil /\ ~IsUsed(g) /\ g \notin tree /\ g # Nil
      /\ \A m \in Node : IsUsed(m) <=> m <= used
      /\ kidsOf[f] = <<>> /\ f # g
  <2>1. /\ used \in Nat /\ g = used + 2 /\ used + 2 <= MaxNode
        /\ ~IsUsed(g) /\ g \notin tree /\ g # Nil
        /\ \A m \in Node : IsUsed(m) <=> m <= used
    BY <1>1, <1>2, <1>at, FreshNode
  <2>2. f \in Node
    BY <2>1, <1>at, BoundAssumption DEF fresh, Node
  <2>3. f = used + 1 /\ ~IsUsed(f) /\ f \notin tree /\ f # Nil /\ kidsOf[f] = <<>>
    BY <1>1, <1>at, <2>2, FreshNode
  <2> QED
    BY <2>1, <2>2, <2>3
<1>7. end[n] \in 0 .. KeyLen - 1 /\ end[n] < KeyLen /\ n # f /\ n # g /\ f \in Lock /\ g \in Lock
  BY <1>2, <1>3, <1>4, <1>5, <1>6 DEF Lock, Node
<1>8. PICK b : b = k[end[n] + 1]
  OBVIOUS
<1>9. NextByte(t) = b /\ b \in Byte /\ b \notin DOMAIN nodes[n].kids
  BY <1>3, <1>4, <1>7, <1>8, <1>at, NextByteIs
<1>10. PICK cl, pf, kn, kn2 : /\ cl = nodes[n].class /\ pf = nodes[n].prefix
                              /\ kn = nodes[n].kids /\ kn2 = add(kn, b, f)
  OBVIOUS
<1>11. nodes[n] = Inode(cl, pf, kn) /\ cl \in 1 .. Len(Cap) /\ pf \in Seq(Byte) /\ kn \in Kids
  BY <1>3, <1>5, <1>10, InodeFields
<1>on. n \in tree /\ OnLink(t, tree, rep, end)
  BY <1>4
<1>mine. Mine(t, p)
  BY <1>4
<1>link. /\ p = Nil => root = n
         /\ p # Nil => /\ p \in tree /\ p \in Node /\ IsInode(p) /\ p # n /\ root # n
                       /\ end[p] \in 0 .. KeyLen - 1 /\ SameTo(k, rep[p], end[p])
                       /\ k[end[p] + 1] \in DOMAIN nodes[p].kids
                       /\ nodes[p].kids[k[end[p] + 1]] = n
                       /\ end[p] < end[n] /\ SameTo(rep[n], rep[p], end[p])
                       /\ rep[n][end[p] + 1] = k[end[p] + 1]
                       /\ \A c0 \in DOMAIN nodes[p].kids :
                             nodes[p].kids[c0] = n => c0 = k[end[p] + 1]
  BY <1>on, <1>at, LinkFacts
<1>slot. PICK bp, kp, kp2 : /\ Is(bp, k[end[p] + 1]) /\ Is(kp, nodes[p].kids)
                           /\ Is(kp2, [kp EXCEPT ![bp] = g])
  BY DEF Is
<1>par. p # Nil => OnlySlot(kp, bp, n) /\ rep[n][end[p] + 1] = bp
  BY <1>link, <1>slot DEF Is, OnlySlot
<1>pf. p # f /\ p # g
  BY <1>1, <1>6, <1>link
<1>12. /\ nd[f] = Leaf(k) /\ nd[g] = Inode(cl + 1, pf, kn2)
       /\ \A l \in Node \ {f, g} : nd[l] = nodes[l]
       /\ nd = [l \in Node |-> nd[l]]
  BY <1>2, <1>3, <1>6, <1>9, <1>10, <1>nd DEF Is
<1>set. /\ p = Nil => root' = g /\ nodes' = nd
        /\ p # Nil => /\ root' = root
                      /\ nodes' = [nd EXCEPT ![p] = Inode(nodes[p].class, nodes[p].prefix, kp2)]
  <2>1. p # Nil => nd[p] = nodes[p] /\ IsInode(p) /\ OnlySlot(kp, bp, n)
    BY <1>link, <1>par, <1>pf, <1>12
  <2>2. Is(nd, [l \in Node |-> nd[l]]) /\ SetInParent(t, nd, g)
    BY <1>2, <1>12 DEF Is
  <2>3. /\ p = Nil => Is(root', g) /\ Is(nodes', nd)
        /\ p # Nil => Is(root', root)
        /\ p # Nil => Is(nodes', [nd EXCEPT ![p] =
                                    Inode(nodes[p].class, nodes[p].prefix, kp2)])
    BY <1>1, <1>slot, <2>1, <2>2, SetParent
  <2> QED
    BY <2>3 DEF Is
<1>13. /\ nodes'[f] = Leaf(k)
       /\ nodes'[g] = Inode(cl + 1, pf, kn2)
       /\ \A l \in Node \ {f, g, p} : nodes'[l] = nodes[l]
       /\ p # Nil => Is(nodes'[p], Inode(nodes[p].class, nodes[p].prefix, kp2))
       /\ nodes' = [l \in Node |-> nodes'[l]]
  <2>1. CASE p = Nil
    BY <1>12, <1>set, <2>1
  <2>2. CASE p # Nil
    BY <1>2, <1>6, <1>12, <1>set, <1>link, <1>pf, <2>2 DEF Is
  <2> QED
    BY <2>1, <2>2
<1>14. /\ rep2[f] = k /\ end2[f] = KeyLen /\ start2[f] = end[n] + 1
       /\ rep2[g] = rep[n] /\ end2[g] = end[n] /\ start2[g] = start[n]
       /\ \A m \in tree : start2[m] = start[m] /\ rep2[m] = rep[m] /\ end2[m] = end[m]
       /\ rep2 \in [Node -> Bytes] /\ end2 \in [Node -> 0 .. KeyLen]
       /\ start2 \in [Node -> 0 .. KeyLen]
       /\ \A l \in Node : IsUsed(l) => rep2[l] = rep[l] /\ end2[l] = end[l]
  <2>1. \A l \in Node \ {f, g} : start2[l] = start[l] /\ rep2[l] = rep[l] /\ end2[l] = end[l]
    BY <1>3 DEF Is
  <2>2. /\ rep2[f] = k /\ end2[f] = KeyLen /\ start2[f] = end[n] + 1
        /\ rep2[g] = rep[n] /\ end2[g] = end[n] /\ start2[g] = start[n]
    BY <1>2, <1>3, <1>4, <1>6, <1>7 DEF Is
  <2>3. rep[n] \in Bytes /\ end[n] \in 0 .. KeyLen /\ start[n] \in 0 .. KeyLen
        /\ end[n] + 1 \in 0 .. KeyLen /\ KeyLen \in 0 .. KeyLen
    BY <1>3, <1>4, <1>7
  <2>4. rep2 \in [Node -> Bytes]
    BY <1>3, <2>3 DEF Is
  <2>5. end2 \in [Node -> 0 .. KeyLen]
    BY <1>3, <2>3 DEF Is
  <2>6. start2 \in [Node -> 0 .. KeyLen]
    BY <1>3, <2>3 DEF Is
  <2> QED
    BY <1>1, <1>6, <2>1, <2>2, <2>4, <2>5, <2>6
<1>15. NodeFits(f, tree2, rep2, end2, start2)' /\ IsLeaf(f)' /\ ~IsInode(f)' /\ IsUsed(f)'
  BY <1>3, <1>6, <1>13, <1>14, LeafNew, ZenonT(30)
<1>16. Keeps(rep, end, rep2, end2)
  <2>1. ASSUME NEW l \in Node, IsUsed(l) PROVE IsUsed(l)'
    <3>1. CASE l = p /\ p # Nil
      BY <1>13, <1>link, <3>1, NewKinds DEF IsUsed, Is
    <3>2. CASE l # p
      BY <1>6, <1>13, <2>1, <3>2 DEF IsUsed
    <3> QED BY <3>1, <3>2 DEF Nil, Node
  <2> QED
    BY <1>14, <2>1 DEF Keeps
<1>17. NodeFits(g, tree2, rep2, end2, start2)' /\ IsInode(g)' /\ ~IsLeaf(g)' /\ IsUsed(g)'
  <2>1. NodeFits(n, tree, rep, end, start) /\ IsInode(n)
    BY <1>3, <1>4, <1>5
  <2>2. GoodKids(rep2, end2, n, kn)'
    BY <1>10, <1>16, <2>1, GoodKidsKept
  <2>3. rep2[g] = rep2[n] /\ end2[g] = end2[n] /\ end2[g] < KeyLen
    BY <1>4, <1>7, <1>14
  <2>4. GoodKids(rep2, end2, g, kn)'
    BY <2>2, <2>3, GoodKidsMoved
  <2>5. GoodKid(rep2, end2, g, b, f)'
    BY <1>3, <1>4, <1>7, <1>8, <1>14, <1>15 DEF GoodKid, SameTo
  <2>6. GoodKids(rep2, end2, g, kn2)'
    BY <1>10, <2>4, <2>5, GoodKidsAdd
  <2>7. Sized(cl, kn) /\ cl < Len(Cap) /\ Cardinality(DOMAIN kn) = Cap[cl]
    BY <1>4, <1>10, <2>1 DEF NodeFits, SizeFits, Sized, is_full
  <2>8. Sized(cl + 1, kn2) /\ cl + 1 \in 1 .. Len(Cap)
    BY <1>6, <1>9, <1>10, <1>11, <2>7, SizedAdd
  <2>9. kn2 \in Kids
    BY <1>6, <1>9, <1>10, <1>11, KidsAdd
  <2>10. PrefixIs(pf, rep[n], start[n], end[n])
    BY <1>4, <1>10, <2>1 DEF NodeFits, PrefixFits, PrefixIs
  <2>11. PrefixIs(pf, rep2[g], start2[g], end2[g])
    BY <1>14, <2>10
  <2> QED
    BY <1>2, <1>11, <1>13, <2>3, <2>6, <2>8, <2>9, <2>11, InodeNew
<1>p. p # Nil => NodeFits(p, tree2, rep2, end2, start2)' /\ IsInode(p)' /\ ~IsLeaf(p)'
                /\ IsUsed(p)' /\ nodes'[p].kids = kp2
  <2>1. ASSUME p # Nil
        PROVE  NodeFits(p, tree2, rep2, end2, start2)' /\ IsInode(p)' /\ ~IsLeaf(p)'
               /\ IsUsed(p)' /\ nodes'[p].kids = kp2
    <3>1. GoodKid(rep2, end2, p, bp, g)'
      BY <1>14, <1>17, <1>link, <1>par, <2>1 DEF GoodKid
    <3>2. NodeFits(p, tree, rep, end, start) /\ IsInode(p) /\ p \in tree /\ bp \in DOMAIN kp
          /\ g \in Node
      BY <1>2, <1>3, <1>link, <1>par, <2>1 DEF OnlySlot
    <3>3. Is(start2[p], start[p]) /\ Is(nodes'[p], Inode(nodes[p].class, nodes[p].prefix, kp2))
      BY <1>13, <1>14, <1>link, <2>1 DEF Is
    <3> QED
      <4>1. TreeTypes(tree, rep, end, start)
        BY <1>1
      <4>2. NodeFits(p, tree2, rep2, end2, start2)' /\ IsInode(p)' /\ ~IsLeaf(p)' /\ IsUsed(p)'
        BY <4>1, <1>16, <1>slot, <3>1, <3>2, <3>3, ParentFits
      <4>3. nodes'[p].kids = kp2
        BY <3>3, NewKinds DEF Is
      <4> QED
        BY <4>2, <4>3
  <2> QED
    BY <2>1
<1>18. ASSUME NEW l \in Node
       PROVE  /\ NodeFits(l, tree2, rep2, end2, start2)'
              /\ IsUsed(l)' <=> IsUsed(l) \/ l \in {f, g}
              /\ IsLeaf(l)' => l # g /\ l # p
              /\ IsUsed(l) => Touches(t, l)
  <2>1. CASE l = f
    BY <1>6, <1>15, <1>pf, <2>1
  <2>2. CASE l = g
    BY <1>6, <1>17, <2>2
  <2>3. CASE l = p
    <3>1. p # Nil
      BY <2>3 DEF Nil, Node
    <3>2. Touches(t, p)
      BY <1>mine, <1>13, <1>link, <3>1, TouchesInode DEF Is
    <3> QED
      BY <1>link, <1>p, <2>3, <3>1, <3>2 DEF IsInode
  <2>4. CASE l \notin {f, g, p}
    <3>1. nodes'[l] = nodes[l] /\ NodeFits(l, tree, rep, end, start)
      BY <1>3, <1>13, <2>4
    <3>2. l \in tree2 /\ IsInode(l) => l \in tree /\ start2[l] = start[l]
      BY <1>14, <1>new, <2>4
    <3>3. NodeFits(l, tree2, rep2, end2, start2)' /\ (IsUsed(l)' <=> IsUsed(l))
      BY <1>16, <3>1, <3>2, NodeKept
    <3> QED
      BY <2>4, <3>1, <3>3, TouchesNot
  <2> QED
    BY <2>1, <2>2, <2>3, <2>4
<1>19. Paths(root, kidsOf, tree2, rep2, end2, start2)'
  <2>1. PICK kd, kd2, km : kd = kidsOf /\ kd2 = kidsOf' /\ Is(km, [kd EXCEPT ![n] = kn2])
    BY DEF Is
  <2>2. kd[n] = kn /\ kd[f] = <<>> /\ (p # Nil => kd[p] = kp)
    BY <1>4, <1>5, <1>6, <1>10, <1>link, <1>slot, <2>1, KidsOfNow DEF Is
  <2>3. kd2[f] = <<>> /\ kd2[g] = kn2 /\ (p # Nil => kd2[p] = kp2)
    <3>1. nodes'[g].kids = kn2
      BY <1>13, NewKinds
    <3> QED
      BY <1>2, <1>6, <1>15, <1>17, <1>link, <1>p, <2>1, <3>1, KidsOfNext
  <2>4. \A m \in tree \ {p} : kd2[m] = kd[m]
    BY <1>1, <1>6, <1>13, <2>1, KidsOfNext
  <2>5. km[n] = kn2 /\ (\A m \in Node \ {n} : km[m] = kd[m])
    BY <1>4, <2>1 DEF kidsOf, Is
  <2>6. Paths(root, kd, tree, rep2, end2, start2)
    <3>1. \A m \in tree : /\ kd[m] = kidsOf[m] /\ rep2[m] = rep[m]
                          /\ end2[m] = end[m] /\ start2[m] = start[m]
      BY <1>14, <2>1
    <3> QED
      BY <1>1, <3>1, PathsSame
  <2>7. Paths(root, km, tree \cup {f}, rep2, end2, start2)
    <3>1. Shape(tree \cup {f}, rep2, end2, start2)
      BY <1>1, <1>3, <1>7, <1>14 DEF Shape
    <3>2. /\ end2[n] < KeyLen /\ SameTo(k, rep2[n], end2[n])
          /\ k[end2[n] + 1] \notin DOMAIN kd[n]
          /\ start2[f] = end2[n] + 1 /\ km[n] = add(kd[n], k[end2[n] + 1], f)
          /\ DOMAIN km[f] = {}
      BY <1>4, <1>6, <1>7, <1>8, <1>10, <1>14, <2>2, <2>5
    <3>3. \A m \in tree \ {n} : km[m] = kd[m]
      BY <1>1, <2>5
    <3> QED
      BY <1>4, <1>6, <1>14, <2>6, <3>1, <3>2, <3>3, PathsAdd, ZenonT(30)
  <2>8. Relink(root, km, root', kd2, tree \cup {f}, n, g)
    <3>1. CASE p = Nil
      <4>1. \A m \in (tree \cup {f}) \ {n} : kd2[m] = km[m]
        BY <1>1, <1>6, <2>2, <2>3, <2>4, <2>5, <3>1
      <4> QED
        BY <1>link, <1>set, <3>1, <4>1 DEF Relink
    <3>2. CASE p # Nil
      <4>1. \A m \in (tree \cup {f}) \ {n, p} : kd2[m] = km[m]
        BY <1>1, <1>6, <2>2, <2>3, <2>4, <2>5
      <4>2. km[p] = kp /\ kd2[p] = [km[p] EXCEPT ![bp] = g] /\ bp \in DOMAIN km[p] /\ km[p][bp] = n
        <5>1. km[p] = kp
          BY <1>link, <2>2, <2>5, <3>2
        <5>2. kd2[p] = [kp EXCEPT ![bp] = g]
          BY <1>slot, <2>3, <3>2, Zenon DEF Is
        <5>3. bp \in DOMAIN kp /\ kp[bp] = n
          BY <1>par, <3>2 DEF OnlySlot
        <5> QED
          BY <5>1, <5>2, <5>3, Zenon
      <4>3. p \in (tree \cup {f}) \ {n} /\ root # n /\ root' = root
        BY <1>link, <1>set, <3>2
      <4> QED
        BY <4>1, <4>2, <4>3 DEF Relink
    <3> QED
      BY <3>1, <3>2
  <2>9. Paths(root', kd2, ((tree \cup {f}) \ {n}) \cup {g}, rep2, end2, start2)
    <3>1. Shape((tree \cup {f}) \cup {g}, rep2, end2, start2)
      BY <1>1, <1>3, <1>4, <1>7, <1>14 DEF Shape
    <3>2. /\ n \in tree \cup {f} /\ g \notin tree \cup {f} /\ Nil \notin tree \cup {f} /\ g # Nil
          /\ rep2[g] = rep2[n] /\ end2[g] = end2[n] /\ start2[g] = start2[n]
          /\ kd2[g] = km[n]
      BY <1>1, <1>4, <1>6, <1>14, <2>3, <2>5
    <3> QED
      BY <2>7, <2>8, <3>1, <3>2, PathsReplace
  <2> QED
    BY <1>new, <2>1, <2>9
<1>20. MapFits(tree2)'
  <2>1. \A m \in tree : IsLeaf(m) => nodes[m].key # k
    <3>1. end[n] < KeyLen /\ k[end[n] + 1] \notin DOMAIN kidsOf[n]
      BY <1>4, <1>5, <1>7, KidsOfNow DEF IsInode, IsUsed
    <3>2. \A m \in tree : end[m] = KeyLen => rep[m] # k
      BY <1>1, <1>4, <3>1, NoChildNoLeaf
    <3> QED
      BY <1>1, <3>2 DEF LabelsFit
  <2>2. \A m \in tree : IsLeaf(m) => nodes[m].key # k /\ m \in tree2 /\ nodes'[m] = nodes[m]
    <3>1. \A m \in tree : IsLeaf(m) => m # n /\ m # p
      BY <1>5, <1>link DEF IsLeaf, IsInode, IsUsed, Nil, Node
    <3> QED
      BY <1>1, <1>6, <1>13, <1>new, <2>1, <3>1
  <2>3. \A m \in tree2 : m # f /\ IsLeaf(m)' => m \in tree /\ nodes'[m] = nodes[m]
    BY <1>1, <1>2, <1>13, <1>18, <1>new
  <2>4. f \in tree2 /\ nodes'[f].key = k
    BY <1>7, <1>new, <1>13, NewKinds
  <2> QED
    BY <1>1, <1>2, <1>3, <1>15, <2>2, <2>3, <2>4, MapInsert
<1>21. TreeFits(tree2, rep2, end2, start2)'
  <2>1. \A l \in Node : IsUsed(l)' <=> l <= used + 2
    BY <1>6, <1>18 DEF Node
  <2>2. \A l \in tree2 : l \in Node /\ IsUsed(l)'
    BY <1>1, <1>2, <1>6, <1>18, <1>new
  <2>3. map' \in [Key -> Lock] /\ root' \in Lock
    BY <1>2, <1>3, <1>7, <1>set, Bound
  <2> QED
    BY <1>6, <1>13, <1>14, <1>18, <1>19, <1>20, <2>1, <2>2, <2>3, StepFits
<1>22. Effect(t, tree, rep, end, start, tree2, rep2, end2, start2)
  <2>1. \A l \in Node :
          l \in tree2 <=> (l \in tree /\ ~Retired(t, l)) \/ (IsUsed(l)' /\ ~IsUsed(l))
    BY <1>1, <1>4, <1>6, <1>7, <1>18, <1>new
  <2>2. \A l \in tree : ~Mine(t, l) => start2[l] = start[l]
    BY <1>14
  <2>3. root' # root => Mine(t, Nil)
    BY <1>4, <1>set
  <2> QED
    BY <1>2, <1>16, <1>18, <2>1, <2>2, <2>3, EffectIs
<1> QED
  BY <1>21, <1>22

\* A smaller inode with one leaf fewer in the place of one at its minimum size.
LEMMA ShrinkFits ==
    ASSUME NEW tree, NEW rep, NEW end, NEW start, Inv(tree, rep, end, start),
           NEW t \in Thread, shrink(t), NEW n, Is(n, at[t]["node"]), NEW p, Is(p, at[t]["parent"]),
           NEW c, Is(c, at[t]["child"]), NEW f, Is(f, fresh(1)), NEW k, Is(k, key[t]),
           NEW tree2, Is(tree2, ((tree \ {c}) \ {n}) \cup {f}),
           NEW rep2, Is(rep2, [rep EXCEPT ![f] = rep[n]]),
           NEW end2, Is(end2, [end EXCEPT ![f] = end[n]]),
           NEW start2, Is(start2, [start EXCEPT ![f] = start[n]])
    PROVE  /\ TreeFits(tree2, rep2, end2, start2)'
           /\ Effect(t, tree, rep, end, start, tree2, rep2, end2, start2)
<1>at. n = at[t]["node"] /\ p = at[t]["parent"] /\ c = at[t]["child"]
       /\ f = fresh(1) /\ k = key[t]
  BY DEF Is
<1>new. tree2 = ((tree \ {c}) \ {n}) \cup {f}
  BY DEF Is
<1>1. /\ TreeTypes(tree, rep, end, start)
      /\ LabelsFit(rep, end)
      /\ Paths(root, kidsOf, tree, rep, end, start)
      /\ MapFits(tree)
      /\ Shape(tree, rep, end, start) /\ Nil \notin tree
      /\ \A m \in tree : IsUsed(m) /\ m \in Node
  BY InvParts
<1>nd. PICK nd : Is(nd, [nodes EXCEPT ![f] =
                         Inode(nodes[n].class - 1, nodes[n].prefix,
                               drop(nodes[n].kids, NextByte(t)))])
  BY DEF Is
<1>2. /\ pc[t] = "shrink" /\ pc[t] \in Commits /\ todo[t] = <<>> /\ f \in Node
      /\ SetInParent(t, nd, f)
      /\ map' = [map EXCEPT ![k] = Nil] /\ torn' = torn
  BY <1>at, <1>nd DEF shrink, WriteSection, Ready, Bind, Rebind, Commits, NodeOf, Is
<1>3. /\ k \in Key /\ k \in Bytes
      /\ nodes \in [Node -> AnyNode]
      /\ \A l \in Node : NodeFits(l, tree, rep, end, start)
      /\ \A l \in Node : IsInode(l) => end[l] \in 0 .. KeyLen - 1
      /\ rep \in [Node -> Bytes] /\ end \in [Node -> 0 .. KeyLen]
      /\ start \in [Node -> 0 .. KeyLen]
      /\ map \in [Key -> Lock] /\ root \in Lock
      /\ KeyLen \in Nat
  BY <1>2, <1>at, CommitSetting
<1>bel. /\ Believes(t, tree, rep, end, start)
        /\ \A r \in Role : Guards(pc[t], r) => Mine(t, at[t][r])
        /\ \A l : Retired(t, l) <=> \E r \in Role : Retires(pc[t], r) /\ l = at[t][r]
  BY <1>2, AtCommit
<1>4. /\ n \in tree /\ n \in Node /\ depth[t] = end[n] /\ SameTo(k, rep[n], end[n])
      /\ k[end[n] + 1] \in DOMAIN nodes[n].kids /\ nodes[n].kids[k[end[n] + 1]] = c
      /\ is_min_size(nodes[n]) /\ nodes[n].class # 1
      /\ OnLink(t, tree, rep, end)
      /\ Mine(t, p) /\ \A l : Retired(t, l) <=> l \in {n, c}
  <2>1. Mine(t, p)
    BY <1>2, <1>bel, <1>at DEF Guards, Retires, RemovesChild, Role, Commits
  <2>2. \A l : Retired(t, l) <=> l \in {n, c}
    BY <1>2, <1>bel, <1>at DEF Retires, RemovesChild, Role
  <2> QED
    BY <1>1, <1>2, <1>at, <1>bel, <2>1, <2>2 DEF Believes, PastPrefix, ToChild, RemovesChild
<1>5. IsInode(n) /\ IsLeaf(c) /\ nodes[c].key = k /\ c \in Node /\ c # n
  <2>1. IsInode(n) /\ IsLeaf(c) /\ nodes[c].key = k
    BY <1>2, <1>at DEF Inv, ThreadTypes, HasInode, RemovesChild
  <2> QED
    BY <2>1 DEF IsInode, IsLeaf, IsUsed
<1>6. /\ used \in Nat /\ f = used + 1 /\ used + 1 <= MaxNode
      /\ ~IsUsed(f) /\ f \notin tree /\ f # Nil
      /\ \A m \in Node : IsUsed(m) <=> m <= used
  BY <1>1, <1>2, <1>at, FreshNode
<1>7. end[n] \in 0 .. KeyLen - 1 /\ end[n] < KeyLen /\ n # f /\ c # f /\ f \in Lock /\ Nil \in Lock
      /\ end[c] = KeyLen
  <2>1. end[c] = KeyLen
    BY <1>1, <1>5 DEF LabelsFit
  <2>2. f \in Lock /\ Nil \in Lock
    BY <1>2, BoundAssumption DEF Lock, Node, Nil
  <2>3. end[n] \in 0 .. KeyLen - 1 /\ end[n] < KeyLen
    BY <1>3, <1>5 DEF IsInode, IsUsed
  <2> QED
    BY <1>1, <1>5, <1>6, <2>1, <2>2, <2>3 DEF IsInode, IsLeaf
<1>8. PICK b : b = k[end[n] + 1]
  OBVIOUS
<1>9. NextByte(t) = b
  BY <1>3, <1>4, <1>7, <1>8, <1>at, NextByteIs
<1>10. PICK cl, pf, kn, kn2 : /\ cl = nodes[n].class /\ pf = nodes[n].prefix
                              /\ kn = nodes[n].kids /\ kn2 = drop(kn, b)
  OBVIOUS
<1>11. nodes[n] = Inode(cl, pf, kn) /\ cl \in 1 .. Len(Cap) /\ pf \in Seq(Byte) /\ kn \in Kids
       /\ b \in DOMAIN kn /\ kn[b] = c
  BY <1>3, <1>4, <1>5, <1>8, <1>10, InodeFields
<1>on. n \in tree /\ OnLink(t, tree, rep, end)
  BY <1>4
<1>mine. Mine(t, p)
  BY <1>4
<1>link. /\ p = Nil => root = n
         /\ p # Nil => /\ p \in tree /\ p \in Node /\ IsInode(p) /\ p # n /\ root # n
                       /\ end[p] \in 0 .. KeyLen - 1 /\ SameTo(k, rep[p], end[p])
                       /\ k[end[p] + 1] \in DOMAIN nodes[p].kids
                       /\ nodes[p].kids[k[end[p] + 1]] = n
                       /\ end[p] < end[n] /\ SameTo(rep[n], rep[p], end[p])
                       /\ rep[n][end[p] + 1] = k[end[p] + 1]
                       /\ \A c0 \in DOMAIN nodes[p].kids :
                             nodes[p].kids[c0] = n => c0 = k[end[p] + 1]
  BY <1>on, <1>at, LinkFacts
<1>slot. PICK bp, kp, kp2 : /\ Is(bp, k[end[p] + 1]) /\ Is(kp, nodes[p].kids)
                           /\ Is(kp2, [kp EXCEPT ![bp] = f])
  BY DEF Is
<1>par. p # Nil => OnlySlot(kp, bp, n) /\ rep[n][end[p] + 1] = bp
  BY <1>link, <1>slot DEF Is, OnlySlot
<1>pf. p # f /\ p # c
  BY <1>1, <1>5, <1>6, <1>link DEF IsLeaf, IsInode, IsUsed, Nil, Node
<1>12. /\ nd[f] = Inode(cl - 1, pf, kn2)
       /\ \A l \in Node \ {f} : nd[l] = nodes[l]
       /\ nd = [l \in Node |-> nd[l]]
  BY <1>2, <1>3, <1>9, <1>10, <1>nd DEF Is
<1>set. /\ p = Nil => root' = f /\ nodes' = nd
        /\ p # Nil => /\ root' = root
                      /\ nodes' = [nd EXCEPT ![p] = Inode(nodes[p].class, nodes[p].prefix, kp2)]
  <2>1. p # Nil => nd[p] = nodes[p] /\ IsInode(p) /\ OnlySlot(kp, bp, n)
    BY <1>link, <1>par, <1>pf, <1>12
  <2>2. Is(nd, [l \in Node |-> nd[l]]) /\ SetInParent(t, nd, f)
    BY <1>2, <1>12 DEF Is
  <2>3. /\ p = Nil => Is(root', f) /\ Is(nodes', nd)
        /\ p # Nil => Is(root', root)
        /\ p # Nil => Is(nodes', [nd EXCEPT ![p] =
                                    Inode(nodes[p].class, nodes[p].prefix, kp2)])
    BY <1>1, <1>slot, <2>1, <2>2, SetParent
  <2> QED
    BY <2>3 DEF Is
<1>13. /\ nodes'[f] = Inode(cl - 1, pf, kn2)
       /\ \A l \in Node \ {f, p} : nodes'[l] = nodes[l]
       /\ p # Nil => Is(nodes'[p], Inode(nodes[p].class, nodes[p].prefix, kp2))
       /\ nodes' = [l \in Node |-> nodes'[l]]
  <2>1. CASE p = Nil
    BY <1>12, <1>set, <2>1
  <2>2. CASE p # Nil
    BY <1>2, <1>12, <1>set, <1>link, <1>pf, <2>2 DEF Is
  <2> QED
    BY <2>1, <2>2
<1>14. /\ rep2[f] = rep[n] /\ end2[f] = end[n] /\ start2[f] = start[n]
       /\ \A m \in tree : start2[m] = start[m] /\ rep2[m] = rep[m] /\ end2[m] = end[m]
       /\ rep2 \in [Node -> Bytes] /\ end2 \in [Node -> 0 .. KeyLen]
       /\ start2 \in [Node -> 0 .. KeyLen]
       /\ \A l \in Node : IsUsed(l) => rep2[l] = rep[l] /\ end2[l] = end[l]
  <2>1. \A l \in Node \ {f} : start2[l] = start[l] /\ rep2[l] = rep[l] /\ end2[l] = end[l]
    BY <1>3 DEF Is
  <2>2. rep2[f] = rep[n] /\ end2[f] = end[n] /\ start2[f] = start[n]
    BY <1>2, <1>3 DEF Is
  <2>3. rep[n] \in Bytes /\ end[n] \in 0 .. KeyLen /\ start[n] \in 0 .. KeyLen
    BY <1>3, <1>4
  <2>4. rep2 \in [Node -> Bytes]
    BY <1>3, <2>3 DEF Is
  <2>5. end2 \in [Node -> 0 .. KeyLen]
    BY <1>3, <2>3 DEF Is
  <2>6. start2 \in [Node -> 0 .. KeyLen]
    BY <1>3, <2>3 DEF Is
  <2> QED
    BY <1>1, <1>6, <2>1, <2>2, <2>4, <2>5, <2>6
<1>16. Keeps(rep, end, rep2, end2)
  <2>1. ASSUME NEW l \in Node, IsUsed(l) PROVE IsUsed(l)'
    <3>1. CASE l = p /\ p # Nil
      BY <1>13, <1>link, <3>1, NewKinds DEF IsUsed, Is
    <3>2. CASE l # p
      BY <1>6, <1>13, <2>1, <3>2 DEF IsUsed
    <3> QED BY <3>1, <3>2 DEF Nil, Node
  <2> QED
    BY <1>14, <2>1 DEF Keeps
<1>17. NodeFits(f, tree2, rep2, end2, start2)' /\ IsInode(f)' /\ ~IsLeaf(f)' /\ IsUsed(f)'
  <2>1. NodeFits(n, tree, rep, end, start) /\ IsInode(n)
    BY <1>3, <1>4, <1>5
  <2>2. GoodKids(rep2, end2, n, kn)'
    BY <1>10, <1>16, <2>1, GoodKidsKept
  <2>3. rep2[f] = rep2[n] /\ end2[f] = end2[n] /\ end2[f] < KeyLen
    BY <1>4, <1>7, <1>14
  <2>4. GoodKids(rep2, end2, f, kn)'
    BY <2>2, <2>3, GoodKidsMoved
  <2>6. GoodKids(rep2, end2, f, kn2)'
    BY <1>10, <2>4, GoodKidsDrop
  <2>7. Sized(cl, kn) /\ Cardinality(DOMAIN kn) = min_size(cl) /\ cl # 1
    BY <1>4, <1>10, <2>1 DEF NodeFits, SizeFits, Sized, is_min_size
  <2>8. Sized(cl - 1, kn2) /\ cl - 1 \in 1 .. Len(Cap)
    BY <1>10, <1>11, <2>7, SizedDrop
  <2>9. kn2 \in Kids
    BY <1>10, <1>11, KidsDrop
  <2>10. PrefixIs(pf, rep[n], start[n], end[n])
    BY <1>4, <1>10, <2>1 DEF NodeFits, PrefixFits, PrefixIs
  <2>11. PrefixIs(pf, rep2[f], start2[f], end2[f])
    BY <1>14, <2>10
  <2> QED
    BY <1>2, <1>11, <1>13, <2>3, <2>6, <2>8, <2>9, <2>11, InodeNew
<1>p. p # Nil => NodeFits(p, tree2, rep2, end2, start2)' /\ IsInode(p)' /\ ~IsLeaf(p)'
                /\ IsUsed(p)' /\ nodes'[p].kids = kp2
  <2>1. ASSUME p # Nil
        PROVE  NodeFits(p, tree2, rep2, end2, start2)' /\ IsInode(p)' /\ ~IsLeaf(p)'
               /\ IsUsed(p)' /\ nodes'[p].kids = kp2
    <3>1. GoodKid(rep2, end2, p, bp, f)'
      BY <1>14, <1>17, <1>link, <1>par, <2>1 DEF GoodKid
    <3>2. NodeFits(p, tree, rep, end, start) /\ IsInode(p) /\ p \in tree /\ bp \in DOMAIN kp
          /\ f \in Node
      BY <1>2, <1>3, <1>link, <1>par, <2>1 DEF OnlySlot
    <3>3. Is(start2[p], start[p]) /\ Is(nodes'[p], Inode(nodes[p].class, nodes[p].prefix, kp2))
      BY <1>13, <1>14, <1>link, <2>1 DEF Is
    <3> QED
      <4>1. TreeTypes(tree, rep, end, start)
        BY <1>1
      <4>2. NodeFits(p, tree2, rep2, end2, start2)' /\ IsInode(p)' /\ ~IsLeaf(p)' /\ IsUsed(p)'
        BY <4>1, <1>16, <1>slot, <3>1, <3>2, <3>3, ParentFits
      <4>3. nodes'[p].kids = kp2
        BY <3>3, NewKinds DEF Is
      <4> QED
        BY <4>2, <4>3
  <2> QED
    BY <2>1
<1>18. ASSUME NEW l \in Node
       PROVE  /\ NodeFits(l, tree2, rep2, end2, start2)'
              /\ IsUsed(l)' <=> IsUsed(l) \/ l = f
              /\ IsLeaf(l)' => l # f /\ l # p
              /\ IsUsed(l) => Touches(t, l)
  <2>2. CASE l = f
    BY <1>6, <1>17, <2>2
  <2>3. CASE l = p
    <3>1. p # Nil
      BY <2>3 DEF Nil, Node
    <3>2. Touches(t, p)
      BY <1>mine, <1>13, <1>link, <3>1, TouchesInode DEF Is
    <3> QED
      BY <1>link, <1>p, <2>3, <3>1, <3>2 DEF IsInode
  <2>4. CASE l \notin {f, p}
    <3>1. nodes'[l] = nodes[l] /\ NodeFits(l, tree, rep, end, start)
      BY <1>3, <1>13, <2>4
    <3>2. l \in tree2 /\ IsInode(l) => l \in tree /\ start2[l] = start[l]
      BY <1>14, <1>new, <2>4
    <3>3. NodeFits(l, tree2, rep2, end2, start2)' /\ (IsUsed(l)' <=> IsUsed(l))
      BY <1>16, <3>1, <3>2, NodeKept
    <3> QED
      BY <2>4, <3>1, <3>3, TouchesNot
  <2> QED
    BY <2>2, <2>3, <2>4
<1>19. Paths(root, kidsOf, tree2, rep2, end2, start2)'
  <2>1. PICK kd, kd2, km : kd = kidsOf /\ kd2 = kidsOf' /\ Is(km, [kd EXCEPT ![n] = kn2])
    BY DEF Is
  <2>2. kd[n] = kn /\ kd[c] = <<>> /\ (p # Nil => kd[p] = kp)
    BY <1>4, <1>5, <1>10, <1>link, <1>slot, <2>1, KidsOfNow DEF Is
  <2>3. kd2[f] = kn2 /\ (p # Nil => kd2[p] = kp2)
    <3>1. nodes'[f].kids = kn2
      BY <1>13, NewKinds
    <3> QED
      BY <1>2, <1>17, <1>link, <1>p, <2>1, <3>1, KidsOfNext
  <2>4. \A m \in tree \ {p} : kd2[m] = kd[m]
    BY <1>1, <1>6, <1>13, <2>1, KidsOfNext
  <2>5. km[n] = kn2 /\ (\A m \in Node \ {n} : km[m] = kd[m])
    BY <1>4, <2>1 DEF kidsOf, Is
  <2>6. Paths(root, kd, tree, rep2, end2, start2)
    <3>1. \A m \in tree : /\ kd[m] = kidsOf[m] /\ rep2[m] = rep[m]
                          /\ end2[m] = end[m] /\ start2[m] = start[m]
      BY <1>14, <2>1
    <3> QED
      BY <1>1, <3>1, PathsSame
  <2>c. c \in tree
    BY <1>4, <1>11, <2>2, <2>6 DEF Paths
  <2>7. Paths(root, km, tree \ {c}, rep2, end2, start2)
    <3>1. Shape(tree, rep2, end2, start2)
      BY <1>1, <1>14 DEF Shape
    <3>0. end2[n] = end[n] /\ end2[c] = end[c]
      BY <1>on, <1>14, <2>c
    <3>2. /\ end2[n] < KeyLen /\ b \in DOMAIN kd[n] /\ end2[kd[n][b]] = KeyLen
          /\ DOMAIN kd[kd[n][b]] = {} /\ km[n] = drop(kd[n], b)
      <4>1. kd[n][b] = c /\ b \in DOMAIN kd[n] /\ DOMAIN kd[c] = {}
        BY <1>11, <2>2
      <4>2. km[n] = drop(kd[n], b)
        BY <1>10, <2>2, <2>5
      <4>3. end2[n] < KeyLen /\ end2[c] = KeyLen
        BY <1>7, <3>0
      <4> QED
        BY <4>1, <4>2, <4>3
    <3>3. \A m \in tree \ {n} : km[m] = kd[m]
      BY <1>1, <2>5
    <3>4. Paths(root, km, tree \ {kd[n][b]}, rep2, end2, start2)
      BY <1>4, <2>6, <3>1, <3>2, <3>3, PathsDrop
    <3> QED
      BY <1>11, <2>2, <3>4
  <2>8. Relink(root, km, root', kd2, tree \ {c}, n, f)
    <3>1. CASE p = Nil
      <4>1. \A m \in (tree \ {c}) \ {n} : kd2[m] = km[m]
        BY <1>1, <2>2, <2>3, <2>4, <2>5, <3>1
      <4> QED
        BY <1>link, <1>set, <3>1, <4>1 DEF Relink
    <3>2. CASE p # Nil
      <4>1. \A m \in (tree \ {c}) \ {n, p} : kd2[m] = km[m]
        BY <1>1, <2>2, <2>3, <2>4, <2>5
      <4>2. km[p] = kp /\ kd2[p] = [km[p] EXCEPT ![bp] = f] /\ bp \in DOMAIN km[p] /\ km[p][bp] = n
        <5>1. km[p] = kp
          BY <1>link, <2>2, <2>5, <3>2
        <5>2. kd2[p] = [kp EXCEPT ![bp] = f]
          BY <1>slot, <2>3, <3>2, Zenon DEF Is
        <5>3. bp \in DOMAIN kp /\ kp[bp] = n
          BY <1>par, <3>2 DEF OnlySlot
        <5> QED
          BY <5>1, <5>2, <5>3, Zenon
      <4>3. p \in (tree \ {c}) \ {n} /\ root # n /\ root' = root
        BY <1>link, <1>pf, <1>set, <3>2
      <4> QED
        BY <4>1, <4>2, <4>3 DEF Relink
    <3> QED
      BY <3>1, <3>2
  <2>9. Paths(root', kd2, ((tree \ {c}) \ {n}) \cup {f}, rep2, end2, start2)
    <3>1. Shape((tree \ {c}) \cup {f}, rep2, end2, start2)
      BY <1>1, <1>3, <1>4, <1>7, <1>14 DEF Shape
    <3>2. /\ n \in tree \ {c} /\ f \notin tree \ {c} /\ Nil \notin tree \ {c} /\ f # Nil
          /\ rep2[f] = rep2[n] /\ end2[f] = end2[n] /\ start2[f] = start2[n]
          /\ kd2[f] = km[n]
      BY <1>1, <1>4, <1>5, <1>6, <1>14, <2>3, <2>5
    <3> QED
      BY <2>7, <2>8, <3>1, <3>2, PathsReplace
  <2> QED
    BY <1>new, <2>1, <2>9
<1>20. MapFits(tree2)'
  <2>0. c \in tree
    <3>1. kidsOf[n] = kn
      BY <1>4, <1>5, <1>10, KidsOfNow
    <3> QED
      BY <1>1, <1>4, <1>11, <3>1 DEF Paths
  <2>1. \A m \in tree \ {c} : IsLeaf(m) => m \in tree2 /\ nodes'[m] = nodes[m]
    <3>1. \A m \in tree : IsLeaf(m) => m # n /\ m # p
      BY <1>5, <1>link DEF IsLeaf, IsInode, IsUsed, Nil, Node
    <3> QED
      BY <1>1, <1>6, <1>13, <1>new, <3>1
  <2>2. \A m \in tree2 : IsLeaf(m)' => m \in tree \ {c} /\ nodes'[m] = nodes[m]
    BY <1>1, <1>2, <1>13, <1>18, <1>new
  <2> QED
    BY <1>1, <1>2, <1>3, <1>5, <2>0, <2>1, <2>2, MapRemove
<1>21. TreeFits(tree2, rep2, end2, start2)'
  <2>1. \A l \in Node : IsUsed(l)' <=> l <= used + 1
    BY <1>6, <1>18 DEF Node
  <2>2. \A l \in tree2 : l \in Node /\ IsUsed(l)'
    BY <1>1, <1>2, <1>18, <1>new
  <2>3. map' \in [Key -> Lock] /\ root' \in Lock
    BY <1>2, <1>3, <1>7, <1>set, Bound
  <2> QED
    BY <1>6, <1>13, <1>14, <1>18, <1>19, <1>20, <2>1, <2>2, <2>3, StepFits
<1>22. Effect(t, tree, rep, end, start, tree2, rep2, end2, start2)
  <2>1. \A l \in Node :
          l \in tree2 <=> (l \in tree /\ ~Retired(t, l)) \/ (IsUsed(l)' /\ ~IsUsed(l))
    BY <1>1, <1>4, <1>6, <1>7, <1>18, <1>new
  <2>2. \A l \in tree : ~Mine(t, l) => start2[l] = start[l]
    BY <1>14
  <2>3. root' # root => Mine(t, Nil)
    BY <1>4, <1>set
  <2> QED
    BY <1>2, <1>16, <1>18, <2>1, <2>2, <2>3, EffectIs
<1> QED
  BY <1>21, <1>22

\* The key k and the label of n part at byte e, which is part of the prefix of n.
PartAt(k, n, rep, end, start, e) ==
    /\ start[n] < e /\ e <= end[n]
    /\ SameTo(k, rep[n], e - 1) /\ k[e] # rep[n][e]
\* above and below are the prefix of n before and after byte e.
Cuts(above, below, n, rep, end, start, e) ==
    /\ above \in Seq(Byte) /\ PrefixIs(above, rep[n], start[n], e - 1)
    /\ IsInode(n) => below \in Seq(Byte) /\ PrefixIs(below, rep[n], e, end[n])
\* nd are the nodes with a leaf f, an inode g and the inode n with the prefix below.
SplitOver(nd, n, f, g, k, above, below, kg) ==
    /\ nd = [l \in Node |-> nd[l]]
    /\ nd[f] = Leaf(k) /\ nd[g] = Inode(1, above, kg)
    /\ IsLeaf(n) => nd[n] = nodes[n]
    /\ IsInode(n) => nd[n] = Inode(nodes[n].class, below, nodes[n].kids)
    /\ \A l \in Node \ {f, g, n} : nd[l] = nodes[l]
\* Two children, of a new inode.
IsPair(kg, a, x, b, y) == kg = add(add(<<>>, a, x), b, y)

\* A new inode g over the node n and a new leaf f, whose labels part at byte e.  cut is
\* the prefix that stays with n, if an inode, and above the prefix of g.
LEMMA SplitFits ==
    ASSUME NEW tree, NEW rep, NEW end, NEW start, Inv(tree, rep, end, start),
           NEW t \in Thread, pc[t] \in {"split_leaf", "split_prefix"}, todo[t] = <<>>,
           NEW n, Is(n, at[t]["node"]), NEW p, Is(p, at[t]["parent"]),
           NEW f, Is(f, fresh(1)), NEW g, Is(g, fresh(2)), NEW k, Is(k, key[t]),
           NEW e \in Nat, PartAt(k, n, rep, end, start, e),
           NEW nd, NEW above, NEW below, NEW kg,
           SplitOver(nd, n, f, g, k, above, below, kg), IsPair(kg, rep[n][e], n, k[e], f),
           Cuts(above, below, n, rep, end, start, e),
           g \in Node, SetInParent(t, nd, g), Is(map', [map EXCEPT ![k] = f]), torn' = torn,
           NEW tree2, Is(tree2, (tree \cup {g}) \cup {f}),
           NEW rep2, Is(rep2, [rep EXCEPT ![f] = k, ![g] = rep[n]]),
           NEW end2, Is(end2, [end EXCEPT ![f] = KeyLen, ![g] = e - 1]),
           NEW start2, Is(start2, [start EXCEPT ![f] = e, ![g] = start[n], ![n] = e])
    PROVE  /\ TreeFits(tree2, rep2, end2, start2)'
           /\ Effect(t, tree, rep, end, start, tree2, rep2, end2, start2)
<1>at. n = at[t]["node"] /\ p = at[t]["parent"] /\ f = fresh(1) /\ g = fresh(2) /\ k = key[t]
  BY DEF Is
<1>new. tree2 = (tree \cup {g}) \cup {f}
  BY DEF Is
<1>part. start[n] < e /\ e <= end[n] /\ SameTo(k, rep[n], e - 1) /\ k[e] # rep[n][e]
  BY DEF PartAt
<1>cuts. /\ above \in Seq(Byte) /\ PrefixIs(above, rep[n], start[n], e - 1)
         /\ IsInode(n) => below \in Seq(Byte) /\ PrefixIs(below, rep[n], e, end[n])
  BY DEF Cuts
<1>1. /\ TreeTypes(tree, rep, end, start)
      /\ LabelsFit(rep, end)
      /\ Paths(root, kidsOf, tree, rep, end, start)
      /\ MapFits(tree)
      /\ Shape(tree, rep, end, start) /\ Nil \notin tree
      /\ \A m \in tree : IsUsed(m) /\ m \in Node
  BY InvParts
<1>2. pc[t] \in Commits /\ todo[t] = <<>> /\ g \in Node /\ SetInParent(t, nd, g)
  BY DEF Commits
<1>3. /\ k \in Key /\ k \in Bytes
      /\ nodes \in [Node -> AnyNode]
      /\ \A l \in Node : NodeFits(l, tree, rep, end, start)
      /\ \A l \in Node : IsInode(l) => end[l] \in 0 .. KeyLen - 1
      /\ rep \in [Node -> Bytes] /\ end \in [Node -> 0 .. KeyLen]
      /\ start \in [Node -> 0 .. KeyLen]
      /\ map \in [Key -> Lock] /\ root \in Lock
      /\ KeyLen \in Nat
  BY <1>2, <1>at, CommitSetting
<1>bel. /\ Believes(t, tree, rep, end, start)
        /\ \A r \in Role : Guards(pc[t], r) => Mine(t, at[t][r])
        /\ \A l : Retired(t, l) <=> \E r \in Role : Retires(pc[t], r) /\ l = at[t][r]
  BY <1>2, AtCommit
<1>4. /\ n \in tree /\ n \in Node /\ SameTo(k, rep[n], start[n])
      /\ OnLink(t, tree, rep, end)
      /\ Mine(t, p) /\ Mine(t, n) /\ \A l : ~Retired(t, l)
  <2>1. Mine(t, p) /\ Mine(t, n)
    BY <1>2, <1>bel, <1>at DEF Guards, Role, Commits
  <2>2. \A l : ~Retired(t, l)
    BY <1>2, <1>bel, <1>at DEF Retires, RemovesChild, Role
  <2> QED
    BY <1>1, <1>at, <1>bel, <2>1, <2>2 DEF Believes, OnPath
<1>5. IsUsed(n) /\ (IsLeaf(n) \/ IsInode(n)) /\ ~(IsLeaf(n) /\ IsInode(n))
  BY <1>1, <1>3, <1>4, UsedKinds
<1>6. /\ used \in Nat /\ f = used + 1 /\ g = used + 2 /\ used + 2 <= MaxNode /\ f \in Node
      /\ ~IsUsed(f) /\ f \notin tree /\ f # Nil /\ ~IsUsed(g) /\ g \notin tree /\ g # Nil
      /\ \A m \in Node : IsUsed(m) <=> m <= used
      /\ f # g
  <2>1. /\ used \in Nat /\ g = used + 2 /\ used + 2 <= MaxNode
        /\ ~IsUsed(g) /\ g \notin tree /\ g # Nil
        /\ \A m \in Node : IsUsed(m) <=> m <= used
    BY <1>1, <1>2, <1>at, FreshNode
  <2>2. f \in Node
    BY <2>1, <1>at, BoundAssumption DEF fresh, Node
  <2>3. f = used + 1 /\ ~IsUsed(f) /\ f \notin tree /\ f # Nil
    BY <1>1, <1>at, <2>2, FreshNode
  <2> QED
    BY <2>1, <2>2, <2>3
<1>7. /\ n # f /\ n # g /\ f \in Lock /\ g \in Lock
      /\ e \in 1 .. KeyLen /\ start[n] \in Nat /\ end[n] \in 0 .. KeyLen
      /\ e - 1 \in 0 .. KeyLen /\ e - 1 < KeyLen /\ e - 1 + 1 = e
  <2>1. start[n] \in 0 .. KeyLen /\ end[n] \in 0 .. KeyLen
    BY <1>3, <1>4
  <2>2. e \in 1 .. KeyLen
    BY <1>3, <1>part, <2>1
  <2> QED
    BY <1>2, <1>3, <1>4, <1>5, <1>6, <2>1, <2>2 DEF Lock, Node
<1>8. PICK a, b : a = rep[n][e] /\ b = k[e]
  OBVIOUS
<1>9. a \in Byte /\ b \in Byte /\ a # b
  <2>1. rep[n] \in Bytes
    BY <1>3, <1>4
  <2> QED
    BY <1>3, <1>7, <1>8, <1>part, <2>1 DEF Bytes
<1>10. /\ kg \in Kids /\ DOMAIN kg = {a, b} /\ kg[a] = n /\ kg[b] = f
       /\ Sized(1, kg) /\ 1 \in 1 .. Len(Cap)
       /\ DOMAIN add(<<>>, a, n) = {a} /\ add(<<>>, a, n)[a] = n
  <2>1. Is(kg, add(add(<<>>, a, n), b, f))
    BY <1>8 DEF IsPair, Is
  <2>2. n \in Node /\ f \in Node
    BY <1>4, <1>6
  <2> QED
    BY <1>9, <2>1, <2>2, PairOfKids
<1>on. n \in tree /\ OnLink(t, tree, rep, end)
  BY <1>4
<1>mine. Mine(t, p)
  BY <1>4
<1>link. /\ p = Nil => root = n
         /\ p # Nil => /\ p \in tree /\ p \in Node /\ IsInode(p) /\ p # n /\ root # n
                       /\ end[p] \in 0 .. KeyLen - 1 /\ SameTo(k, rep[p], end[p])
                       /\ k[end[p] + 1] \in DOMAIN nodes[p].kids
                       /\ nodes[p].kids[k[end[p] + 1]] = n
                       /\ end[p] < end[n] /\ SameTo(rep[n], rep[p], end[p])
                       /\ rep[n][end[p] + 1] = k[end[p] + 1]
                       /\ \A c0 \in DOMAIN nodes[p].kids :
                             nodes[p].kids[c0] = n => c0 = k[end[p] + 1]
  <2>1. n = at[t]["node"] /\ p = at[t]["parent"] /\ k = key[t]
    BY <1>at
  <2>2. Inv(tree, rep, end, start)
    OBVIOUS
  <2> HIDE DEF Inv
  <2> QED
    BY ONLY <2>1, <2>2, <1>on, LinkFacts, t \in Thread
<1>slot. PICK bp, kp, kp2 : /\ Is(bp, k[end[p] + 1]) /\ Is(kp, nodes[p].kids)
                           /\ Is(kp2, [kp EXCEPT ![bp] = g])
  BY DEF Is
<1>par. p # Nil => OnlySlot(kp, bp, n) /\ rep[n][end[p] + 1] = bp
  BY <1>link, <1>slot DEF Is, OnlySlot
<1>pf. p # f /\ p # g
  BY <1>1, <1>6, <1>link
<1>12. /\ nd[f] = Leaf(k) /\ nd[g] = Inode(1, above, kg)
       /\ \A l \in Node \ {f, g, n} : nd[l] = nodes[l]
       /\ nd = [l \in Node |-> nd[l]]
       /\ IsLeaf(n) => nd[n] = nodes[n]
       /\ IsInode(n) => nd[n] = Inode(nodes[n].class, below, nodes[n].kids)
  BY DEF SplitOver
<1>set. /\ p = Nil => root' = g /\ nodes' = nd
        /\ p # Nil => /\ root' = root
                      /\ nodes' = [nd EXCEPT ![p] = Inode(nodes[p].class, nodes[p].prefix, kp2)]
  <2>1. p # Nil => nd[p] = nodes[p] /\ IsInode(p) /\ OnlySlot(kp, bp, n)
    BY <1>link, <1>par, <1>pf, <1>12
  <2>2. Is(nd, [l \in Node |-> nd[l]]) /\ SetInParent(t, nd, g)
    BY <1>2, <1>12 DEF Is
  <2>3. /\ p = Nil => Is(root', g) /\ Is(nodes', nd)
        /\ p # Nil => Is(root', root)
        /\ p # Nil => Is(nodes', [nd EXCEPT ![p] =
                                    Inode(nodes[p].class, nodes[p].prefix, kp2)])
    BY <1>1, <1>slot, <2>1, <2>2, SetParent
  <2> QED
    BY <2>3 DEF Is
<1>13. /\ nodes'[f] = Leaf(k)
       /\ nodes'[g] = Inode(1, above, kg)
       /\ \A l \in Node \ {f, g, n, p} : nodes'[l] = nodes[l]
       /\ IsLeaf(n) => nodes'[n] = nodes[n]
       /\ IsInode(n) => Is(nodes'[n], Inode(nodes[n].class, below, nodes[n].kids))
       /\ p # Nil => Is(nodes'[p], Inode(nodes[p].class, nodes[p].prefix, kp2))
       /\ nodes' = [l \in Node |-> nodes'[l]]
  <2>1. CASE p = Nil
    BY <1>12, <1>set, <2>1 DEF Is
  <2>2. CASE p # Nil
    <3>1. \A l \in Node \ {p} : nodes'[l] = nd[l]
      BY <1>12, <1>set, <2>2
    <3>2. Is(nodes'[p], Inode(nodes[p].class, nodes[p].prefix, kp2))
      BY <1>12, <1>set, <1>link, <2>2 DEF Is
    <3>3. nodes' = [l \in Node |-> nodes'[l]]
      BY <1>12, <1>set, <2>2
    <3> QED
      BY <1>2, <1>4, <1>6, <1>12, <1>link, <1>pf, <2>2, <3>1, <3>2, <3>3, ZenonT(30) DEF Is
  <2> QED
    BY <2>1, <2>2
<1>14. /\ rep2[f] = k /\ end2[f] = KeyLen /\ start2[f] = e
       /\ rep2[g] = rep[n] /\ end2[g] = e - 1 /\ start2[g] = start[n] /\ start2[n] = e
       /\ \A m \in tree : rep2[m] = rep[m] /\ end2[m] = end[m]
       /\ \A m \in tree \ {n} : start2[m] = start[m]
       /\ rep2 \in [Node -> Bytes] /\ end2 \in [Node -> 0 .. KeyLen]
       /\ start2 \in [Node -> 0 .. KeyLen]
       /\ \A l \in Node : IsUsed(l) => rep2[l] = rep[l] /\ end2[l] = end[l]
  <2>1. \A l \in Node \ {f, g} : rep2[l] = rep[l] /\ end2[l] = end[l]
    BY <1>3 DEF Is
  <2>0. \A l \in Node \ {f, g, n} : start2[l] = start[l]
    BY <1>3 DEF Is
  <2>2. /\ rep2[f] = k /\ end2[f] = KeyLen /\ start2[f] = e
        /\ rep2[g] = rep[n] /\ end2[g] = e - 1 /\ start2[g] = start[n] /\ start2[n] = e
    BY <1>2, <1>3, <1>4, <1>6, <1>7 DEF Is
  <2>3. rep[n] \in Bytes /\ e - 1 \in 0 .. KeyLen /\ start[n] \in 0 .. KeyLen
        /\ e \in 0 .. KeyLen /\ KeyLen \in 0 .. KeyLen
    BY <1>3, <1>4, <1>7
  <2>4. rep2 \in [Node -> Bytes]
    BY <1>3, <2>3 DEF Is
  <2>5. end2 \in [Node -> 0 .. KeyLen]
    BY <1>3, <2>3 DEF Is
  <2>6. start2 \in [Node -> 0 .. KeyLen]
    BY <1>3, <2>3 DEF Is
  <2> QED
    BY <1>1, <1>6, <2>0, <2>1, <2>2, <2>4, <2>5, <2>6
<1>15. NodeFits(f, tree2, rep2, end2, start2)' /\ IsLeaf(f)' /\ ~IsInode(f)' /\ IsUsed(f)'
  BY <1>3, <1>6, <1>13, <1>14, LeafNew, ZenonT(30)
<1>16. Keeps(rep, end, rep2, end2)
  <2>1. ASSUME NEW l \in Node, IsUsed(l) PROVE IsUsed(l)'
    <3>1. CASE l = p /\ p # Nil
      BY <1>13, <1>link, <3>1, NewKinds DEF IsUsed, Is
    <3>2. CASE l = n
      BY <1>4, <1>5, <1>13, <3>2, NewKinds DEF IsUsed, Is
    <3>3. CASE l # p /\ l # n
      BY <1>6, <1>13, <2>1, <3>3 DEF IsUsed
    <3> QED BY <3>1, <3>2, <3>3 DEF Nil, Node
  <2> QED
    BY <1>14, <2>1 DEF Keeps
<1>e. rep2[n] = rep[n] /\ end2[n] = end[n] /\ IsUsed(n)'
  BY <1>4, <1>5, <1>16 DEF Keeps
<1>17. NodeFits(g, tree2, rep2, end2, start2)' /\ IsInode(g)' /\ ~IsLeaf(g)' /\ IsUsed(g)'
  <2>1. GoodKid(rep2, end2, g, a, n)'
    BY <1>7, <1>8, <1>14, <1>e, <1>part DEF GoodKid, SameTo
  <2>2. GoodKid(rep2, end2, g, b, f)'
    BY <1>3, <1>7, <1>8, <1>14, <1>15, <1>part DEF GoodKid, SameTo
  <2>3. GoodKids(rep2, end2, g, kg)'
    BY <1>10, <2>1, <2>2 DEF GoodKids, GoodKid, IsUsed
  <2>4. above \in Seq(Byte) /\ PrefixIs(above, rep2[g], start2[g], end2[g])
    BY <1>14, <1>cuts
  <2>5. end2[g] < KeyLen
    BY <1>7, <1>14
  <2> QED
    BY <1>10, <1>13, <2>3, <2>4, <2>5, InodeNew
<1>p. p # Nil => NodeFits(p, tree2, rep2, end2, start2)' /\ IsInode(p)' /\ ~IsLeaf(p)'
                /\ IsUsed(p)' /\ nodes'[p].kids = kp2
  <2>1. ASSUME p # Nil
        PROVE  NodeFits(p, tree2, rep2, end2, start2)' /\ IsInode(p)' /\ ~IsLeaf(p)'
               /\ IsUsed(p)' /\ nodes'[p].kids = kp2
    <3>1. GoodKid(rep2, end2, p, bp, g)'
      <4>1. start[n] = end[p] + 1
        <5>1. kidsOf[p] = kp
          BY <1>link, <1>slot, <2>1, KidsOfNow DEF Is
        <5> QED
          BY <1>1, <1>link, <1>par, <2>1, <5>1 DEF Paths, OnlySlot
      <4>2. end2[p] = end[p] /\ rep2[p] = rep[p] /\ end2[g] = e - 1 /\ rep2[g] = rep[n]
        BY <1>14, <1>link, <2>1
      <4>3. end[p] < e - 1
        BY <1>3, <1>7, <1>link, <1>part, <2>1, <4>1
      <4> QED
        BY <1>17, <1>link, <1>par, <2>1, <4>2, <4>3 DEF GoodKid
    <3>2. NodeFits(p, tree, rep, end, start) /\ IsInode(p) /\ p \in tree /\ bp \in DOMAIN kp
          /\ g \in Node
      BY <1>2, <1>3, <1>link, <1>par, <2>1 DEF OnlySlot
    <3>3. Is(start2[p], start[p]) /\ Is(nodes'[p], Inode(nodes[p].class, nodes[p].prefix, kp2))
      BY <1>13, <1>14, <1>link, <2>1, ZenonT(30) DEF Is
    <3> QED
      <4>1. TreeTypes(tree, rep, end, start)
        BY <1>1
      <4>2. NodeFits(p, tree2, rep2, end2, start2)' /\ IsInode(p)' /\ ~IsLeaf(p)' /\ IsUsed(p)'
        BY <4>1, <1>16, <1>slot, <3>1, <3>2, <3>3, ParentFits
      <4>3. nodes'[p].kids = kp2
        BY <3>3, NewKinds DEF Is
      <4> QED
        BY <4>2, <4>3
  <2> QED
    BY <2>1
<1>n. NodeFits(n, tree2, rep2, end2, start2)' /\ (IsLeaf(n)' => IsLeaf(n)) /\ Touches(t, n)
      /\ (IsInode(n)' => IsInode(n) /\ nodes'[n].kids = nodes[n].kids)
  <2>0. NodeFits(n, tree, rep, end, start)
    BY <1>3, <1>4
  <2>1. CASE IsLeaf(n)
    <3>1. nodes'[n] = nodes[n] /\ ~IsInode(n)
      BY <1>5, <1>13, <2>1
    <3>2. NodeFits(n, tree2, rep2, end2, start2)' /\ (IsLeaf(n)' <=> IsLeaf(n))
          /\ (IsInode(n)' <=> IsInode(n))
      BY <1>4, <1>16, <2>0, <3>1, NodeKept
    <3> QED
      BY <3>1, <3>2, TouchesNot
  <2>2. CASE IsInode(n)
    <3>1. PICK cl, kn : cl = nodes[n].class /\ kn = nodes[n].kids
      OBVIOUS
    <3>2. cl \in 1 .. Len(Cap) /\ kn \in Kids
      BY <1>3, <2>2, <3>1, InodeFields
    <3>3. nodes'[n] = Inode(cl, below, kn)
      BY <1>13, <2>2, <3>1 DEF Is
    <3>4. GoodKids(rep2, end2, n, kn)'
      BY <1>16, <2>0, <2>2, <3>1, GoodKidsKept
    <3>5. Sized(cl, kn) /\ end2[n] < KeyLen
      BY <1>e, <2>0, <2>2, <3>1 DEF NodeFits, SizeFits, Sized
    <3>6. below \in Seq(Byte) /\ PrefixIs(below, rep2[n], start2[n], end2[n])
      BY <1>e, <1>14, <1>cuts, <2>2
    <3>7. NodeFits(n, tree2, rep2, end2, start2)' /\ IsInode(n)' /\ ~IsLeaf(n)' /\ IsUsed(n)'
      BY <1>4, <3>2, <3>3, <3>4, <3>5, <3>6, InodeNew
    <3>8. nodes'[n].kids = nodes[n].kids
      BY <3>1, <3>3, NewKinds
    <3>9. Touches(t, n)
      BY <1>4, <2>2, <3>1, <3>3, TouchesInode
    <3> QED
      BY <2>2, <3>7, <3>8, <3>9
  <2> QED
    BY <1>5, <2>1, <2>2
<1>18. ASSUME NEW l \in Node
       PROVE  /\ NodeFits(l, tree2, rep2, end2, start2)'
              /\ IsUsed(l)' <=> IsUsed(l) \/ l \in {f, g}
              /\ IsLeaf(l)' => l # g /\ l # p
              /\ IsUsed(l) => Touches(t, l)
  <2>1. CASE l = f
    BY <1>6, <1>15, <1>pf, <2>1
  <2>2. CASE l = g
    BY <1>6, <1>17, <2>2
  <2>3. CASE l = p
    <3>1. p # Nil
      BY <2>3 DEF Nil, Node
    <3>2. Touches(t, p)
      <4>1. IsInode(p)
        BY <1>link, <3>1
      <4>2. nodes'[p] = Inode(nodes[p].class, nodes[p].prefix, kp2)
        BY <1>13, <3>1 DEF Is
      <4> QED
        BY <1>mine, <4>1, <4>2, TouchesInode
    <3> QED
      BY <1>link, <1>p, <2>3, <3>1, <3>2 DEF IsInode
  <2>5. CASE l = n
    <3>1. n # p
      BY <1>4, <1>link DEF Nil, Node
    <3> QED
      BY <1>5, <1>7, <1>e, <1>n, <2>5, <3>1
  <2>4. CASE l \notin {f, g, p, n}
    <3>1. nodes'[l] = nodes[l] /\ NodeFits(l, tree, rep, end, start)
      BY <1>3, <1>13, <2>4
    <3>2. l \in tree2 /\ IsInode(l) => l \in tree /\ start2[l] = start[l]
      BY <1>14, <1>new, <2>4
    <3>3. NodeFits(l, tree2, rep2, end2, start2)' /\ (IsUsed(l)' <=> IsUsed(l))
      BY <1>16, <3>1, <3>2, NodeKept
    <3> QED
      BY <2>4, <3>1, <3>3, TouchesNot
  <2> QED
    BY <2>1, <2>2, <2>3, <2>4, <2>5
<1>19. Paths(root, kidsOf, tree2, rep2, end2, start2)'
  <2>0. PICK one : one = add(<<>>, a, n)
    OBVIOUS
  <2>1. PICK kd, kd2, km : kd = kidsOf /\ kd2 = kidsOf' /\ Is(km, [kd2 EXCEPT ![g] = one])
    BY DEF Is
  <2>2. p # Nil => kd[p] = kp
    BY <1>link, <1>slot, <2>1, KidsOfNow DEF Is
  <2>3. kd2[f] = <<>> /\ kd2[g] = kg /\ (p # Nil => kd2[p] = kp2)
    <3>1. nodes'[g].kids = kg
      BY <1>13, NewKinds
    <3> QED
      BY <1>2, <1>6, <1>15, <1>17, <1>link, <1>p, <2>1, <3>1, KidsOfNext
  <2>4. \A m \in tree \ {p} : kd2[m] = kd[m]
    <3>1. \A m \in tree \ {p, n} : kd2[m] = kd[m]
      BY <1>1, <1>6, <1>13, <2>1, KidsOfNext
    <3>2. kd2[n] = kd[n]
      <4>1. CASE IsLeaf(n)
        BY <1>4, <1>13, <2>1, <4>1, KidsOfNext
      <4>2. CASE IsInode(n)
        <5>1. nodes'[n].kind = "inode" /\ nodes'[n].kids = nodes[n].kids
          BY <1>13, <4>2, NewKinds DEF Is
        <5>2. IsInode(n)'
          BY <5>1, <1>e DEF IsInode
        <5> QED
          BY <1>4, <2>1, <4>2, <5>1, <5>2, KidsOfNow, KidsOfNext
      <4> QED
        BY <1>5, <4>1, <4>2
    <3> QED
      BY <3>1, <3>2
  <2>5. km[g] = one /\ (\A m \in Node \ {g} : km[m] = kd2[m])
    BY <1>2, <2>1 DEF kidsOf, Is
  <2>6. Paths(root, kd, tree, rep2, end2, start)
    <3>1. \A m \in tree : /\ kd[m] = kidsOf[m] /\ rep2[m] = rep[m]
                          /\ end2[m] = end[m] /\ start[m] = start[m]
      BY <1>14, <2>1
    <3> QED
      BY <1>1, <3>1, PathsSame
  <2>7. Relink(root, kd, root', km, tree, n, g)
    <3>1. CASE p = Nil
      <4>1. \A m \in tree \ {n} : km[m] = kd[m]
        BY <1>1, <1>6, <2>4, <2>5, <3>1
      <4> QED
        BY <1>link, <1>set, <3>1, <4>1 DEF Relink
    <3>2. CASE p # Nil
      <4>1. \A m \in tree \ {n, p} : km[m] = kd[m]
        BY <1>1, <1>6, <2>4, <2>5
      <4>2. km[p] = [kd[p] EXCEPT ![bp] = g] /\ bp \in DOMAIN kd[p] /\ kd[p][bp] = n
        <5>1. p \in Node \ {g} /\ kd[p] = kp /\ OnlySlot(kp, bp, n)
          BY <1>link, <1>par, <1>pf, <2>2, <3>2
        <5>2. km[p] = kp2
          BY <2>3, <2>5, <3>2, <5>1
        <5>3. kp2 = [kp EXCEPT ![bp] = g]
          BY <1>slot DEF Is
        <5> QED
          BY <5>1, <5>2, <5>3 DEF OnlySlot
      <4>3. p \in tree \ {n} /\ root # n /\ root' = root
        BY <1>link, <1>set, <3>2
      <4> QED
        BY <4>1, <4>2, <4>3 DEF Relink
    <3> QED
      BY <3>1, <3>2
  <2>8. Paths(root', km, tree \cup {g}, rep2, end2, start2)
    <3>1. Shape(tree, rep2, end2, start)
      BY <1>1, <1>14 DEF Shape
    <3>2. Shape(tree \cup {g}, rep2, end2, start2)
      <4>1. ASSUME NEW m \in tree \cup {g}
            PROVE  /\ rep2[m] \in Bytes /\ end2[m] \in 0 .. KeyLen
                   /\ start2[m] \in 0 .. KeyLen /\ start2[m] <= end2[m]
        <5>1. m \in Node
          BY <1>1, <1>2
        <5>2. start2[m] <= end2[m]
          <6>1. CASE m = g
            BY <1>7, <1>14, <1>part, <6>1
          <6>2. CASE m = n
            BY <1>14, <1>e, <1>part, <6>2
          <6>3. CASE m # g /\ m # n
            BY <1>1, <1>14, <6>3 DEF Shape
          <6> QED
            BY <6>1, <6>2, <6>3
        <5> QED
          BY <1>14, <5>1, <5>2
      <4> QED
        BY <4>1 DEF Shape
    <3>3. /\ n \in tree /\ g \notin tree /\ Nil \notin tree /\ g # Nil
          /\ e \in Nat /\ start[n] < e /\ e <= end2[n]
          /\ end2[g] = e - 1 /\ SameTo(rep2[g], rep2[n], e - 1)
          /\ start2[g] = start[n] /\ start2[n] = e
          /\ \A m \in tree \ {n} : start2[m] = start[m]
      BY <1>1, <1>4, <1>6, <1>14, <1>e, <1>part DEF SameTo
    <3>4. km[n] = kd[n] /\ DOMAIN km[g] = {rep2[n][e]} /\ km[g][rep2[n][e]] = n
      <4>1. km[n] = kd[n]
        BY <1>4, <1>7, <1>link, <2>4, <2>5 DEF Nil, Node
      <4>2. DOMAIN one = {a} /\ one[a] = n
        BY <1>10, <2>0
      <4> QED
        BY <1>8, <1>e, <2>5, <4>1, <4>2
    <3> QED
      BY <2>6, <2>7, <3>1, <3>2, <3>3, <3>4, PathsSplit
  <2>9. Paths(root', kd2, (tree \cup {g}) \cup {f}, rep2, end2, start2)
    <3>1. Shape((tree \cup {g}) \cup {f}, rep2, end2, start2)
      <4>1. \A m \in tree \cup {g} : m \in Node /\ start2[m] <= end2[m]
        BY <1>1, <1>2, <2>8 DEF Paths
      <4>2. start2[f] <= end2[f]
        BY <1>7, <1>14
      <4> QED
        BY <1>6, <1>14, <4>1, <4>2 DEF Shape
    <3>2. /\ g \in tree \cup {g} /\ f \notin tree \cup {g} /\ f # Nil
          /\ end2[g] < KeyLen /\ SameTo(k, rep2[g], end2[g])
          /\ rep2[f] = k /\ end2[f] = KeyLen
          /\ start2[f] = end2[g] + 1 /\ DOMAIN kd2[f] = {}
      BY <1>6, <1>7, <1>14, <1>part, <2>3
    <3>3. \A m \in (tree \cup {g}) \ {g} : kd2[m] = km[m]
      BY <1>1, <1>6, <2>5
    <3>4. k[end2[g] + 1] \notin DOMAIN km[g]
      <4>1. DOMAIN one = {a}
        BY <1>10, <2>0
      <4> QED
        BY <1>7, <1>8, <1>9, <1>14, <2>5, <4>1
    <3>5. kd2[g] = add(km[g], k[end2[g] + 1], f)
      <4>1. kg = add(one, b, f)
        BY <1>8, <2>0 DEF IsPair
      <4> QED
        BY <1>7, <1>8, <1>14, <2>3, <2>5, <4>1
    <3> QED
      BY <2>8, <3>1, <3>2, <3>3, <3>4, <3>5, PathsAdd
  <2> QED
    BY <1>new, <2>1, <2>9
<1>20. MapFits(tree2)'
  <2>1. \A m \in tree : IsLeaf(m) => nodes[m].key # k
    <3>1. ~SameTo(k, rep[n], end[n])
      BY <1>7, <1>part DEF SameTo
    <3>2. SameTo(k, rep[n], start[n]) /\ n \in tree
      BY <1>4
    <3>3. Shape(tree, rep, end, start) /\ Paths(root, kidsOf, tree, rep, end, start)
      BY <1>1
    <3>4. \A m \in tree : end[m] = KeyLen => rep[m] # k
      BY <3>1, <3>2, <3>3, OtherLabelNoLeaf
    <3> QED
      BY <1>1, <3>4 DEF LabelsFit
  <2>2. \A m \in tree : IsLeaf(m) => nodes[m].key # k /\ m \in tree2 /\ nodes'[m] = nodes[m]
    <3>1. \A m \in tree : IsLeaf(m) => m # p
      BY <1>link DEF IsLeaf, IsInode, IsUsed, Nil, Node
    <3> QED
      BY <1>1, <1>6, <1>13, <1>new, <2>1, <3>1
  <2>3. \A m \in tree2 : m # f /\ IsLeaf(m)' => m \in tree /\ nodes'[m] = nodes[m]
    BY <1>1, <1>2, <1>13, <1>18, <1>n, <1>new
  <2>4. f \in tree2 /\ nodes'[f].key = k
    BY <1>7, <1>new, <1>13, NewKinds
  <2>5. map' = [map EXCEPT ![k] = f]
    BY DEF Is
  <2> QED
    BY <1>1, <1>3, <1>15, <2>2, <2>3, <2>4, <2>5, MapInsert
<1>21. TreeFits(tree2, rep2, end2, start2)'
  <2>1. \A l \in Node : IsUsed(l)' <=> l <= used + 2
    BY <1>6, <1>18 DEF Node
  <2>2. \A l \in tree2 : l \in Node /\ IsUsed(l)'
    BY <1>1, <1>2, <1>6, <1>18, <1>new
  <2>3. map' \in [Key -> Lock] /\ root' \in Lock
    BY <1>3, <1>7, <1>set, Bound DEF Is
  <2> QED
    BY <1>6, <1>13, <1>14, <1>18, <1>19, <1>20, <2>1, <2>2, <2>3, StepFits
<1>22. Effect(t, tree, rep, end, start, tree2, rep2, end2, start2)
  <2>1. \A l \in Node :
          l \in tree2 <=> (l \in tree /\ ~Retired(t, l)) \/ (IsUsed(l)' /\ ~IsUsed(l))
    BY <1>1, <1>4, <1>6, <1>7, <1>18, <1>new
  <2>2. \A l \in tree : ~Mine(t, l) => start2[l] = start[l]
    BY <1>4, <1>14
  <2>3. root' # root => Mine(t, Nil)
    BY <1>4, <1>set
  <2> QED
    BY <1>16, <1>18, <2>1, <2>2, <2>3, EffectIs
<1> QED
  BY <1>21, <1>22

\* Where a key k parts from the key r, after the first d bytes that they share.
LEMMA KeysPart ==
    ASSUME NEW r \in Key, NEW k \in Key, r # k, NEW d \in 0 .. KeyLen, SameTo(k, r, d),
           NEW pf, Is(pf, common_prefix(r, k, d)), NEW e, Is(e, d + Len(pf) + 1)
    PROVE  /\ e \in 1 .. KeyLen /\ d < e /\ SameTo(k, r, e - 1) /\ k[e] # r[e]
           /\ pf \in Seq(Byte) /\ PrefixIs(pf, r, d, e - 1)
<1>0. /\ KeyLen \in Nat /\ PrefixCap \in Nat /\ KeyLen <= PrefixCap + 1
      /\ r \in Seq(Byte) /\ Len(r) = KeyLen /\ k \in Seq(Byte) /\ Len(k) = KeyLen
      /\ r \in [1 .. KeyLen -> Byte] /\ k \in [1 .. KeyLen -> Byte]
      /\ \A i \in 1 .. KeyLen : ByteAt(k, i) = k[i]
  BY KeyBytes, KeyAssumption, PrefixAssumption, LengthAssumption DEF Bytes
<1>1. PICK c : c = cut(r, d)
  OBVIOUS
<1>2. c \in Seq(Byte) /\ Len(c) = KeyLen - d /\ \A i \in 1 .. KeyLen - d : c[i] = r[d + i]
  <2>1. c = SubSeq(r, d + 1, KeyLen) /\ r \in Seq(Byte) /\ Len(r) = KeyLen /\ KeyLen \in Nat
    BY <1>0, <1>1 DEF cut
  <2>2. d \in Nat /\ d <= KeyLen
    BY <1>0
  <2> QED
    BY ONLY <2>1, <2>2
<1>3. PICK len : len = get_shared_length(c, k, d)
  OBVIOUS
<1>4. /\ len \in 0 .. KeyLen - d
      /\ \A i \in 1 .. len : c[i] = ByteAt(k, d + i)
      /\ len < KeyLen - d => c[len + 1] # ByteAt(k, d + len + 1)
  <2>1. d \in Nat
    BY <1>0
  <2> QED
    BY <1>2, <1>3, <2>1, SharedLength
<1>5. \A i \in 1 .. len : r[d + i] = k[d + i]
  <2> SUFFICES ASSUME NEW i \in 1 .. len PROVE r[d + i] = k[d + i]
    OBVIOUS
  <2>1. i \in 1 .. KeyLen - d /\ d + i \in 1 .. KeyLen
    BY <1>0, <1>4, SMTT(30)
  <2> QED
    BY <1>0, <1>2, <1>4, <2>1
<1>6. SameTo(k, r, d + len)
  <2> SUFFICES ASSUME NEW j \in 1 .. d + len PROVE k[j] = r[j]
    BY DEF SameTo
  <2>1. CASE j <= d
    BY <1>0, <2>1 DEF SameTo
  <2>2. CASE j > d
    <3>1. j - d \in 1 .. len /\ d + (j - d) = j
      BY <1>0, <1>4, <2>2
    <3> QED
      BY <1>5, <3>1
  <2> QED
    BY <1>0, <1>4, <2>1, <2>2
<1>7. len < KeyLen - d
  <2>1. ASSUME len = KeyLen - d PROVE FALSE
    <3>1. SameTo(k, r, KeyLen)
      BY <1>0, <1>6, <2>1
    <3> QED
      BY <1>0, <3>1 DEF SameTo
  <2> QED
    BY <1>0, <1>4, <2>1, SMTT(30)
<1>8. pf = SubSeq(r, d + 1, d + len)
  <2>1. (IF len < PrefixCap THEN len ELSE PrefixCap) = len
    BY <1>0, <1>4, <1>7
  <2>2. pf = SubSeq(r, d + 1, d + (IF len < PrefixCap THEN len ELSE PrefixCap))
    BY <1>1, <1>3 DEF common_prefix, Is
  <2> QED
    BY <2>1, <2>2
<1>9. pf \in Seq(Byte) /\ Len(pf) = len /\ \A i \in 1 .. len : pf[i] = r[d + i]
  <2>1. /\ pf = SubSeq(r, d + 1, d + len) /\ r \in Seq(Byte) /\ Len(r) = KeyLen
        /\ d \in Nat /\ len \in Nat /\ d + len <= KeyLen /\ KeyLen \in Nat
    BY <1>0, <1>4, <1>7, <1>8
  <2>2. pf \in Seq(Byte)
    BY ONLY <2>1
  <2>3. Len(pf) = len
    BY ONLY <2>1
  <2>4. \A i \in 1 .. len : pf[i] = r[d + i]
    BY ONLY <2>1
  <2> QED
    BY <2>2, <2>3, <2>4
<1>10. e = d + len + 1 /\ e - 1 = d + len /\ e \in 1 .. KeyLen /\ d < e
  BY <1>0, <1>4, <1>7, <1>9 DEF Is
<1>11. k[e] # r[e]
  <2>1. c[len + 1] = r[d + (len + 1)] /\ ByteAt(k, d + len + 1) = k[d + len + 1]
    BY <1>0, <1>2, <1>4, <1>7
  <2> QED
    BY <1>0, <1>4, <1>7, <1>10, <2>1
<1> QED
  BY <1>0, <1>4, <1>6, <1>9, <1>10, <1>11 DEF PrefixIs

\* Where a key k parts from the prefix pf of an inode with the label r.
LEMMA PrefixParts ==
    ASSUME NEW r \in Bytes, NEW k \in Key, NEW s \in 0 .. KeyLen, NEW z \in 0 .. KeyLen,
           NEW pf \in Seq(Byte), PrefixIs(pf, r, s, z), SameTo(k, r, s), ~SameTo(k, r, z),
           NEW len, Is(len, get_shared_length(pf, k, s)), NEW e, Is(e, s + len + 1),
           NEW above, Is(above, SubSeq(pf, 1, len)), NEW below, Is(below, cut(pf, len + 1))
    PROVE  /\ e \in 1 .. KeyLen /\ s < e /\ e <= z /\ SameTo(k, r, e - 1) /\ k[e] # r[e]
           /\ pf[len + 1] = r[e]
           /\ above \in Seq(Byte) /\ PrefixIs(above, r, s, e - 1)
           /\ below \in Seq(Byte) /\ PrefixIs(below, r, e, z)
<1>0. /\ KeyLen \in Nat /\ \A i \in 1 .. KeyLen : ByteAt(k, i) = k[i]
      /\ s \in Nat /\ z \in Nat
  BY KeyBytes, KeyAssumption
<1>1. Len(pf) = z - s /\ \A i \in 1 .. Len(pf) : pf[i] = r[s + i]
  BY DEF PrefixIs
<1>2. len \in 0 .. Len(pf)
  <2>1. len = get_shared_length(pf, k, s)
    BY DEF Is
  <2> QED
    BY <1>0, <2>1, SharedLength
<1>3. \A i \in 1 .. len : pf[i] = ByteAt(k, s + i)
  <2>1. len = get_shared_length(pf, k, s)
    BY DEF Is
  <2> QED
    BY <1>0, <2>1, SharedLength
<1>4. len < Len(pf) => pf[len + 1] # ByteAt(k, s + len + 1)
  <2>1. len = get_shared_length(pf, k, s)
    BY DEF Is
  <2> QED
    BY <1>0, <2>1, SharedLength
<1>5. Len(pf) \in Nat
  OBVIOUS
<1>6. SameTo(k, r, s + len)
  <2> SUFFICES ASSUME NEW j \in 1 .. s + len PROVE k[j] = r[j]
    BY DEF SameTo
  <2>1. CASE j <= s
    BY <1>0, <2>1 DEF SameTo
  <2>2. CASE j > s
    <3>1. j - s \in 1 .. len /\ s + (j - s) = j /\ j \in 1 .. KeyLen /\ j - s \in 1 .. Len(pf)
      BY <1>0, <1>1, <1>2, <1>5, <2>2
    <3> QED
      BY <1>0, <1>1, <1>3, <3>1
  <2> QED
    BY <1>0, <1>2, <2>1, <2>2
<1>7. len < Len(pf)
  <2>1. ASSUME len = Len(pf) PROVE FALSE
    <3>1. s + len = z
      BY <1>0, <1>1, <1>5, <2>1
    <3> QED
      BY <1>6, <3>1
  <2> QED
    BY <1>2, <1>5, <2>1
<1>8. e = s + len + 1 /\ e - 1 = s + len /\ e \in 1 .. KeyLen /\ s < e /\ e <= z
  BY <1>0, <1>1, <1>2, <1>5, <1>7 DEF Is
<1>9. pf[len + 1] = r[e] /\ k[e] # r[e]
  <2>1. len + 1 \in 1 .. Len(pf) /\ s + (len + 1) = e
    BY <1>0, <1>2, <1>5, <1>7, <1>8
  <2> QED
    BY <1>0, <1>1, <1>4, <1>7, <1>8, <2>1
<1>10. above \in Seq(Byte) /\ Len(above) = len /\ \A i \in 1 .. len : above[i] = pf[i]
  BY <1>2, <1>5, <1>7 DEF Is
<1>11. /\ below \in Seq(Byte) /\ Len(below) = Len(pf) - (len + 1)
       /\ \A i \in 1 .. Len(pf) - (len + 1) : below[i] = pf[len + 1 + i]
  BY <1>2, <1>5, <1>7 DEF Is, cut
<1>12. PrefixIs(above, r, s, e - 1)
  <2>1. Len(above) = e - 1 - s
    BY <1>0, <1>2, <1>8, <1>10
  <2>2. ASSUME NEW i \in 1 .. Len(above) PROVE above[i] = r[s + i]
    <3>1. i \in 1 .. Len(pf) /\ i \in 1 .. len
      BY <1>2, <1>5, <1>10
    <3> QED
      BY <1>1, <1>10, <3>1
  <2> QED
    BY <2>1, <2>2 DEF PrefixIs
<1>13. PrefixIs(below, r, e, z)
  <2>1. Len(below) = z - e
    BY <1>0, <1>1, <1>2, <1>5, <1>8, <1>11
  <2>2. ASSUME NEW i \in 1 .. Len(below) PROVE below[i] = r[e + i]
    <3>1. len + 1 + i \in 1 .. Len(pf) /\ s + (len + 1 + i) = e + i
      BY <1>0, <1>2, <1>5, <1>7, <1>8, <1>11
    <3> QED
      BY <1>1, <1>11, <3>1
  <2> QED
    BY <2>1, <2>2 DEF PrefixIs
<1> QED
  BY <1>6, <1>8, <1>9, <1>10, <1>11, <1>12, <1>13

\* After a step of u the tree fits again, with the effect that a write section may have.
FitsAfter(u, tree, rep, end, start) ==
    \E tree2, rep2, end2, start2 :
        /\ TreeFits(tree2, rep2, end2, start2)'
        /\ Effect(u, tree, rep, end, start, tree2, rep2, end2, start2)

\* A new inode over n and a new leaf, where the labels of the two part: what split_leaf
\* and split_prefix share.
LEMMA SplitFitsAfter ==
    ASSUME NEW tree, NEW rep, NEW end, NEW start, Inv(tree, rep, end, start),
           NEW t \in Thread, pc[t] \in {"split_leaf", "split_prefix"}, todo[t] = <<>>,
           NEW n, Is(n, at[t]["node"]), NEW f, Is(f, fresh(1)),
           NEW g, Is(g, fresh(2)), NEW k, Is(k, key[t]),
           NEW e \in Nat, PartAt(k, n, rep, end, start, e),
           NEW nd, NEW above, NEW below, NEW kg,
           SplitOver(nd, n, f, g, k, above, below, kg), IsPair(kg, rep[n][e], n, k[e], f),
           Cuts(above, below, n, rep, end, start, e),
           g \in Node, SetInParent(t, nd, g), Is(map', [map EXCEPT ![k] = f]), torn' = torn
    PROVE  FitsAfter(t, tree, rep, end, start)
<1>1. PICK p, tree2, rep2, end2, start2 :
         /\ Is(p, at[t]["parent"])
         /\ Is(tree2, (tree \cup {g}) \cup {f})
         /\ Is(rep2, [rep EXCEPT ![f] = k, ![g] = rep[n]])
         /\ Is(end2, [end EXCEPT ![f] = KeyLen, ![g] = e - 1])
         /\ Is(start2, [start EXCEPT ![f] = e, ![g] = start[n], ![n] = e])
  BY DEF Is
<1>2. /\ TreeFits(tree2, rep2, end2, start2)'
      /\ Effect(t, tree, rep, end, start, tree2, rep2, end2, start2)
  BY <1>1, SplitFits
<1> QED
  BY <1>2 DEF FitsAfter

\* A new inode over a leaf and a new leaf.
LEMMA SplitLeafFits ==
    ASSUME NEW tree, NEW rep, NEW end, NEW start, Inv(tree, rep, end, start),
           NEW t \in Thread, split_leaf(t)
    PROVE  FitsAfter(t, tree, rep, end, start)
<1>at. PICK n, f, g, k : /\ Is(n, at[t]["node"]) /\ Is(f, fresh(1)) /\ Is(g, fresh(2))
                         /\ Is(k, key[t])
  BY DEF Is
<1>d. PICK d, r, pf, e : /\ Is(d, depth[t]) /\ Is(r, nodes[n].key)
                         /\ Is(pf, common_prefix(r, k, d)) /\ Is(e, d + Len(pf) + 1)
  BY DEF Is
<1>k. PICK kg, nd : /\ Is(kg, add(add(<<>>, r[e], n), k[e], f))
                    /\ Is(nd, [[nodes EXCEPT ![f] = Leaf(k)] EXCEPT ![g] = Inode(1, pf, kg)])
  BY DEF Is
<1>1. /\ TreeTypes(tree, rep, end, start)
      /\ LabelsFit(rep, end)
      /\ Paths(root, kidsOf, tree, rep, end, start)
      /\ MapFits(tree)
      /\ Shape(tree, rep, end, start) /\ Nil \notin tree
      /\ \A m \in tree : IsUsed(m) /\ m \in Node
  BY InvParts
<1>2. /\ pc[t] = "split_leaf" /\ pc[t] \in Commits /\ todo[t] = <<>> /\ g \in Node
      /\ SetInParent(t, nd, g)
      /\ map' = [map EXCEPT ![k] = f] /\ torn' = torn
  BY <1>at, <1>d, <1>k DEF split_leaf, WriteSection, Ready, Bind, Rebind, Commits, WithLeaf, Is
<1>3. /\ k \in Key /\ nodes \in [Node -> AnyNode] /\ start \in [Node -> 0 .. KeyLen]
      /\ KeyLen \in Nat
  <2>1. k = key[t]
    BY <1>at DEF Is
  <2> QED
    BY <1>2, <2>1, CommitSetting
<1>bel. Believes(t, tree, rep, end, start)
  BY <1>2, AtCommit
<1>4. /\ IsLeaf(n) /\ nodes[n].key # k /\ op[t] = "insert"
  BY <1>2, <1>at DEF Inv, ThreadTypes, Inserts, Is
<1>5. OnPath(t, tree, rep, start)
  BY <1>2, <1>bel DEF Believes
<1>6. n \in tree /\ n \in Node /\ SameTo(k, rep[n], start[n]) /\ d = start[n]
  BY <1>1, <1>4, <1>5, <1>at, <1>d DEF OnPath, Is
<1>7. rep[n] = r /\ end[n] = KeyLen /\ r # k /\ r \in Key
  BY <1>1, <1>3, <1>4, <1>6, <1>d, LeafFields DEF LabelsFit, Is
<1>8. d \in 0 .. KeyLen /\ SameTo(k, r, d)
  BY <1>3, <1>6, <1>7
<1>9. /\ e \in 1 .. KeyLen /\ d < e /\ SameTo(k, r, e - 1) /\ k[e] # r[e]
      /\ pf \in Seq(Byte) /\ PrefixIs(pf, r, d, e - 1)
  BY <1>3, <1>7, <1>8, <1>d, KeysPart
<1>10. e \in Nat /\ PartAt(k, n, rep, end, start, e)
  BY <1>3, <1>6, <1>7, <1>9 DEF PartAt
<1>11. ~IsInode(n)
  BY <1>4 DEF IsLeaf, IsInode
<1>12. Cuts(pf, pf, n, rep, end, start, e)
  BY <1>6, <1>7, <1>9, <1>11 DEF Cuts
<1>13. f \in Node /\ g \in Node /\ f # g /\ n # f /\ n # g
  <2>1. g = fresh(2) /\ f = fresh(1)
    BY <1>at DEF Is
  <2>2. used \in Nat /\ g = used + 2 /\ used + 2 <= MaxNode /\ ~IsUsed(g)
    BY <1>1, <1>2, <2>1, FreshNode
  <2>3. f \in Node
    BY <2>1, <2>2, BoundAssumption DEF fresh, Node
  <2>4. f = used + 1 /\ ~IsUsed(f)
    BY <1>1, <2>1, <2>3, FreshNode
  <2> QED
    BY <1>1, <1>2, <1>6, <2>2, <2>3, <2>4
<1>14. SplitOver(nd, n, f, g, k, pf, pf, kg)
  <2>1. nd = [[nodes EXCEPT ![f] = Leaf(k)] EXCEPT ![g] = Inode(1, pf, kg)]
    BY <1>k DEF Is
  <2> QED
    BY <1>3, <1>6, <1>11, <1>13, <2>1 DEF SplitOver
<1>15. IsPair(kg, rep[n][e], n, k[e], f)
  BY <1>7, <1>k DEF IsPair, Is
<1>16. pc[t] \in {"split_leaf", "split_prefix"} /\ Is(map', [map EXCEPT ![k] = f])
  BY <1>2 DEF Is
<1> QED
  BY <1>at, <1>2, <1>10, <1>12, <1>14, <1>15, <1>16, SplitFitsAfter

\* A new inode over an inode, whose prefix it cuts, and a new leaf.
LEMMA SplitPrefixFits ==
    ASSUME NEW tree, NEW rep, NEW end, NEW start, Inv(tree, rep, end, start),
           NEW t \in Thread, split_prefix(t)
    PROVE  FitsAfter(t, tree, rep, end, start)
<1>at. PICK n, f, g, k : /\ Is(n, at[t]["node"]) /\ Is(f, fresh(1)) /\ Is(g, fresh(2))
                         /\ Is(k, key[t])
  BY DEF Is
<1>d. PICK d, pf, len, e : /\ Is(d, depth[t]) /\ Is(pf, nodes[n].prefix)
                           /\ Is(len, get_shared_length(pf, k, d)) /\ Is(e, d + len + 1)
  BY DEF Is
<1>k. PICK above, below, kg, nd :
         /\ Is(above, SubSeq(pf, 1, len)) /\ Is(below, cut(pf, len + 1))
         /\ Is(kg, add(add(<<>>, pf[len + 1], n), k[e], f))
         /\ Is(nd, [[nodes EXCEPT ![f] = Leaf(k)] EXCEPT ![g] = Inode(1, above, kg),
                                                         ![n].prefix = below])
  BY DEF Is
<1>1. /\ TreeTypes(tree, rep, end, start)
      /\ LabelsFit(rep, end)
      /\ PrefixesFit(tree, rep, end, start)
      /\ Shape(tree, rep, end, start) /\ Nil \notin tree
      /\ \A m \in tree : IsUsed(m) /\ m \in Node
  BY InvParts
<1>2. /\ pc[t] = "split_prefix" /\ pc[t] \in Commits /\ todo[t] = <<>> /\ g \in Node
      /\ SetInParent(t, nd, g)
      /\ map' = [map EXCEPT ![k] = f] /\ torn' = torn
  BY <1>at, <1>d, <1>k DEF split_prefix, shared, NodeOf, WriteSection, Ready, Bind, Rebind,
                           Commits, WithLeaf, Is
<1>3. /\ k \in Key /\ nodes \in [Node -> AnyNode] /\ start \in [Node -> 0 .. KeyLen]
      /\ end \in [Node -> 0 .. KeyLen] /\ rep \in [Node -> Bytes] /\ KeyLen \in Nat
  <2>1. k = key[t]
    BY <1>at DEF Is
  <2> QED
    BY <1>2, <2>1, CommitSetting
<1>bel. Believes(t, tree, rep, end, start)
  BY <1>2, AtCommit
<1>4. IsInode(n)
  BY <1>2, <1>at DEF Inv, ThreadTypes, HasInode, Is
<1>5. OnPath(t, tree, rep, start) /\ ~SameTo(k, rep[n], end[n])
  BY <1>2, <1>bel, <1>at DEF Believes, Is
<1>6. n \in tree /\ n \in Node /\ SameTo(k, rep[n], start[n]) /\ d = start[n]
  BY <1>1, <1>4, <1>5, <1>at, <1>d DEF OnPath, Is
<1>7. pf \in Seq(Byte) /\ PrefixIs(pf, rep[n], start[n], end[n])
      /\ nodes[n] = Inode(nodes[n].class, nodes[n].prefix, nodes[n].kids)
  BY <1>1, <1>3, <1>4, <1>6, <1>d, InodeFields DEF PrefixesFit, PrefixIs, Is
<1>8. PICK s, r, z : Is(s, start[n]) /\ Is(r, rep[n]) /\ Is(z, end[n])
  BY DEF Is
<1>9. /\ s \in 0 .. KeyLen /\ z \in 0 .. KeyLen /\ r \in Bytes /\ SameTo(k, r, s)
      /\ ~SameTo(k, r, z) /\ PrefixIs(pf, r, s, z)
      /\ Is(len, get_shared_length(pf, k, s)) /\ Is(e, s + len + 1)
  BY <1>3, <1>5, <1>6, <1>7, <1>8, <1>d DEF Is
<1>10. /\ e \in 1 .. KeyLen /\ s < e /\ e <= z /\ SameTo(k, r, e - 1) /\ k[e] # r[e]
       /\ pf[len + 1] = r[e]
       /\ above \in Seq(Byte) /\ PrefixIs(above, r, s, e - 1)
       /\ below \in Seq(Byte) /\ PrefixIs(below, r, e, z)
  BY <1>3, <1>7, <1>9, <1>k, PrefixParts
<1>11. e \in Nat /\ PartAt(k, n, rep, end, start, e)
  BY <1>3, <1>8, <1>10 DEF PartAt, Is
<1>12. Cuts(above, below, n, rep, end, start, e)
  BY <1>8, <1>10 DEF Cuts, Is
<1>13. f \in Node /\ g \in Node /\ f # g /\ n # f /\ n # g
  <2>1. g = fresh(2) /\ f = fresh(1)
    BY <1>at DEF Is
  <2>2. used \in Nat /\ g = used + 2 /\ used + 2 <= MaxNode /\ ~IsUsed(g)
    BY <1>1, <1>2, <2>1, FreshNode
  <2>3. f \in Node
    BY <2>1, <2>2, BoundAssumption DEF fresh, Node
  <2>4. f = used + 1 /\ ~IsUsed(f)
    BY <1>1, <2>1, <2>3, FreshNode
  <2> QED
    BY <1>1, <1>2, <1>6, <2>2, <2>3, <2>4
<1>14. SplitOver(nd, n, f, g, k, above, below, kg)
  <2>1. nd = [[nodes EXCEPT ![f] = Leaf(k)] EXCEPT ![g] = Inode(1, above, kg),
                                                   ![n].prefix = below]
    BY <1>k DEF Is
  <2>2. nd = [l \in Node |-> nd[l]]
    BY <1>3, <2>1
  <2>3. nd[f] = Leaf(k) /\ nd[g] = Inode(1, above, kg)
    BY <1>3, <1>6, <1>13, <2>1
  <2>4. nd[n] = [nodes[n] EXCEPT !.prefix = below]
    BY <1>3, <1>6, <1>13, <2>1
  <2>5. nd[n] = Inode(nodes[n].class, below, nodes[n].kids)
    BY <1>7, <2>4 DEF Inode
  <2>6. \A l \in Node \ {f, g, n} : nd[l] = nodes[l]
    BY <1>3, <2>1
  <2>7. ~IsLeaf(n)
    BY <1>4 DEF IsLeaf, IsInode
  <2> QED
    BY <2>2, <2>3, <2>5, <2>6, <2>7 DEF SplitOver
<1>15. IsPair(kg, rep[n][e], n, k[e], f)
  BY <1>8, <1>10, <1>k DEF IsPair, Is
<1>16. pc[t] \in {"split_leaf", "split_prefix"} /\ Is(map', [map EXCEPT ![k] = f])
  BY <1>2 DEF Is
<1> QED
  BY <1>at, <1>2, <1>11, <1>12, <1>14, <1>15, <1>16, SplitFitsAfter

\* The prefix of a node that takes the place of its parent n, whose label is the first e
\* bytes of r.
LEMMA Prepended ==
    ASSUME NEW r \in Bytes, NEW r1, NEW b \in Byte, NEW pf \in Seq(Byte), NEW ps \in Seq(Byte),
           NEW s \in Nat, NEW e \in Nat, NEW z \in Nat, s <= e, e + 1 <= z,
           PrefixIs(pf, r1, s, e), PrefixIs(ps, r, e + 1, z), SameTo(r, r1, e), r[e + 1] = b,
           NEW new, Is(new, prepend(ps, pf, b))
    PROVE  new \in Seq(Byte) /\ PrefixIs(new, r, s, z)
<1>1. new = (pf \o <<b>>) \o ps
  BY DEF Is, prepend
<1>2. PICK q : q = pf \o <<b>>
  OBVIOUS
<1>3. q \in Seq(Byte) /\ Len(q) = Len(pf) + 1 /\ q[Len(pf) + 1] = b
      /\ \A i \in 1 .. Len(pf) : q[i] = pf[i]
  BY <1>2
<1>4. new \in Seq(Byte) /\ Len(new) = Len(q) + Len(ps)
      /\ (\A i \in 1 .. Len(q) : new[i] = q[i])
      /\ (\A i \in 1 .. Len(ps) : new[Len(q) + i] = ps[i])
  BY <1>1, <1>2, <1>3, SMTT(30)
<1>5. /\ Len(pf) = e - s /\ Len(ps) = z - (e + 1)
      /\ \A i \in 1 .. Len(pf) : pf[i] = r1[s + i]
      /\ \A i \in 1 .. Len(ps) : ps[i] = r[e + 1 + i]
  BY DEF PrefixIs
<1>6. Len(new) = z - s /\ Len(q) = e + 1 - s
  BY <1>3, <1>4, <1>5
<1>7. ASSUME NEW i \in 1 .. Len(new) PROVE new[i] = r[s + i]
  <2>1. CASE i <= Len(pf)
    <3>1. i \in 1 .. Len(q) /\ i \in 1 .. Len(pf) /\ s + i \in 1 .. e
      BY <1>3, <1>5, <2>1
    <3> QED
      BY <1>3, <1>4, <1>5, <3>1 DEF SameTo
  <2>2. CASE i = Len(pf) + 1
    <3>1. i \in 1 .. Len(q) /\ s + i = e + 1
      BY <1>3, <1>5, <2>2
    <3> QED
      BY <1>3, <1>4, <2>2, <3>1
  <2>3. CASE i > Len(q)
    <3>1. PICK j : j = i - Len(q)
      OBVIOUS
    <3>2. j \in 1 .. Len(ps) /\ Len(q) + j = i /\ e + 1 + j = s + i
      <4>1. Len(new) = z - s /\ Len(q) = e + 1 - s /\ Len(ps) = z - (e + 1)
            /\ i \in 1 .. Len(new) /\ i > Len(q) /\ j = i - Len(q)
            /\ s \in Nat /\ e \in Nat /\ z \in Nat
        BY <1>5, <1>6, <2>3, <3>1
      <4> QED
        BY ONLY <4>1
    <3>3. new[Len(q) + j] = ps[j] /\ ps[j] = r[e + 1 + j]
      BY <1>4, <1>5, <3>2
    <3> QED
      BY <3>2, <3>3
  <2> QED
    BY <1>3, <1>5, <2>1, <2>2, <2>3
<1> QED
  BY <1>4, <1>6, <1>7 DEF PrefixIs

\* There is another one of two children.
LEMMA OtherExists ==
    ASSUME NEW kn \in Kids, Cardinality(DOMAIN kn) = 2, NEW b \in DOMAIN kn
    PROVE  \E x \in DOMAIN kn : x # b /\ DOMAIN kn \ {b} = {x}
<1>1. IsFiniteSet(DOMAIN kn)
  BY KidsFinite
<1>2. PICK D : D = DOMAIN kn \ {b}
  OBVIOUS
<1>3. IsFiniteSet(D) /\ Cardinality(D) = 1
  BY <1>1, <1>2, FS_RemoveElement
<1>4. PICK x : D = {x}
  BY <1>3, FS_Singleton
<1> QED
  BY <1>2, <1>4

\* And only one.
LEMMA OtherKid ==
    ASSUME NEW kn \in Kids, Cardinality(DOMAIN kn) = 2, NEW b \in DOMAIN kn,
           NEW o \in DOMAIN kn, o # b
    PROVE  DOMAIN kn = {b, o} /\ DOMAIN drop(kn, b) = {o} /\ drop(kn, b)[o] = kn[o]
<1>1. PICK x \in DOMAIN kn : x # b /\ DOMAIN kn \ {b} = {x}
  BY OtherExists
<1>2. o = x
  BY <1>1
<1> QED
  BY <1>1, <1>2 DEF drop

\* The child that is left goes in the place of its parent, whose prefix and key byte go
\* in front of its own prefix.
LEMMA LeaveLastChildFits ==
    ASSUME NEW tree, NEW rep, NEW end, NEW start, Inv(tree, rep, end, start),
           NEW t \in Thread, leave_last_child(t),
           NEW n, Is(n, at[t]["node"]), NEW p, Is(p, at[t]["parent"]),
           NEW c, Is(c, at[t]["child"]), NEW k, Is(k, key[t]), NEW f, Is(f, survivor(t)),
           NEW tree2, Is(tree2, (tree \ {c}) \ {n}),
           NEW start2, Is(start2, [start EXCEPT ![f] = start[n]])
    PROVE  /\ TreeFits(tree2, rep, end, start2)'
           /\ Effect(t, tree, rep, end, start, tree2, rep, end, start2)
<1>at. n = at[t]["node"] /\ p = at[t]["parent"] /\ c = at[t]["child"] /\ k = key[t]
  BY DEF Is
<1>new. tree2 = (tree \ {c}) \ {n}
  BY DEF Is
<1>1. /\ TreeTypes(tree, rep, end, start)
      /\ LabelsFit(rep, end)
      /\ Paths(root, kidsOf, tree, rep, end, start)
      /\ MapFits(tree)
      /\ Shape(tree, rep, end, start) /\ Nil \notin tree
      /\ \A m \in tree : IsUsed(m) /\ m \in Node
  BY InvParts
<1>o. PICK o : o = CHOOSE x \in DOMAIN nodes[n].kids : x # NextByte(t)
  OBVIOUS
<1>pn. PICK pn : Is(pn, prepend(nodes[f].prefix, nodes[n].prefix, o))
  BY DEF Is
<1>nd. PICK nd : Is(nd, IF nodes[f].kind = "leaf" THEN nodes
                        ELSE [nodes EXCEPT ![f].prefix = pn])
  BY DEF Is
<1>f. f = nodes[n].kids[o]
  BY <1>at, <1>o DEF survivor, NodeOf, Is
<1>2. /\ pc[t] = "leave_last_child" /\ pc[t] \in Commits /\ todo[t] = <<>>
      /\ map' = [map EXCEPT ![k] = Nil]
      /\ torn' = torn \cup (IF nodes[f].kind = "leaf" THEN {}
                            ELSE {u \in Thread : AboutToRead(u, f)})
      /\ SetInParent(t, nd, f)
  <2>0. f = survivor(t)
    BY DEF Is
  <2>1. pc[t] = "leave_last_child" /\ pc[t] \in Commits /\ todo[t] = <<>>
        /\ map' = [map EXCEPT ![k] = Nil]
        /\ torn' = torn \cup (IF nodes[f].kind = "leaf" THEN {}
                              ELSE {u \in Thread : AboutToRead(u, f)})
    BY <1>at, <2>0 DEF leave_last_child, WriteSection, Ready, Rebind, Commits
  <2>2. SetInParent(t, nd, f)
    <3>1. SetInParent(t, IF nodes[f].kind = "leaf" THEN nodes
                         ELSE [nodes EXCEPT ![f].prefix = prepend(@, nodes[n].prefix, o)], f)
      BY <1>at, <1>o, <2>0 DEF leave_last_child, NodeOf
    <3>2. nd = IF nodes[f].kind = "leaf" THEN nodes
               ELSE [nodes EXCEPT ![f].prefix = prepend(@, nodes[n].prefix, o)]
      BY <1>nd, <1>pn DEF Is
    <3> QED
      BY <3>1, <3>2
  <2> QED
    BY <2>1, <2>2
<1>3. /\ k \in Key /\ k \in Bytes
      /\ nodes \in [Node -> AnyNode]
      /\ \A l \in Node : NodeFits(l, tree, rep, end, start)
      /\ \A l \in Node : IsInode(l) => end[l] \in 0 .. KeyLen - 1
      /\ rep \in [Node -> Bytes] /\ end \in [Node -> 0 .. KeyLen]
      /\ start \in [Node -> 0 .. KeyLen]
      /\ map \in [Key -> Lock] /\ root \in Lock
      /\ KeyLen \in Nat
  BY <1>2, <1>at, CommitSetting
<1>bel. /\ Believes(t, tree, rep, end, start)
        /\ \A r \in Role : Guards(pc[t], r) => Mine(t, at[t][r])
        /\ \A l : Retired(t, l) <=> \E r \in Role : Retires(pc[t], r) /\ l = at[t][r]
  BY <1>2, AtCommit
<1>4. /\ n \in tree /\ n \in Node /\ depth[t] = end[n] /\ SameTo(k, rep[n], end[n])
      /\ k[end[n] + 1] \in DOMAIN nodes[n].kids /\ nodes[n].kids[k[end[n] + 1]] = c
      /\ is_min_size(nodes[n]) /\ nodes[n].class = 1
      /\ OnLink(t, tree, rep, end)
      /\ Mine(t, p) /\ Mine(t, n) /\ \A l : Retired(t, l) <=> l \in {n, c}
  <2>1. Mine(t, p) /\ Mine(t, n)
    BY <1>2, <1>bel, <1>at DEF Guards, Retires, RemovesChild, Role, Commits
  <2>2. \A l : Retired(t, l) <=> l \in {n, c}
    BY <1>2, <1>bel, <1>at DEF Retires, RemovesChild, Role
  <2> QED
    BY <1>1, <1>2, <1>at, <1>bel, <2>1, <2>2 DEF Believes, PastPrefix, ToChild, RemovesChild
<1>5. IsInode(n) /\ IsLeaf(c) /\ nodes[c].key = k /\ c \in Node /\ c # n
  <2>1. IsInode(n) /\ IsLeaf(c) /\ nodes[c].key = k
    BY <1>2, <1>at DEF Inv, ThreadTypes, HasInode, RemovesChild
  <2> QED
    BY <2>1 DEF IsInode, IsLeaf, IsUsed
<1>6. used \in Nat /\ used + 0 <= MaxNode /\ \A m \in Node : IsUsed(m) <=> m <= used
  BY <1>1, UsedNat, UsedBound DEF TreeTypes, IsUsed
<1>7. end[n] \in 0 .. KeyLen - 1 /\ end[n] < KeyLen /\ end[c] = KeyLen /\ Nil \in Lock
  <2>1. end[c] = KeyLen
    BY <1>1, <1>5 DEF LabelsFit
  <2>2. end[n] \in 0 .. KeyLen - 1 /\ end[n] < KeyLen
    BY <1>3, <1>5 DEF IsInode, IsUsed
  <2> QED
    BY <2>1, <2>2, BoundAssumption DEF Lock, Nil
<1>8. PICK b : b = k[end[n] + 1]
  OBVIOUS
<1>9. NextByte(t) = b
  BY <1>3, <1>4, <1>7, <1>8, <1>at, NextByteIs
<1>10. PICK pf, kn, kn2 : /\ pf = nodes[n].prefix
                          /\ kn = nodes[n].kids /\ kn2 = drop(kn, b)
  OBVIOUS
<1>11. pf \in Seq(Byte) /\ kn \in Kids /\ b \in DOMAIN kn /\ kn[b] = c
  BY <1>3, <1>4, <1>5, <1>8, <1>10, InodeFields
<1>two. o # b /\ DOMAIN kn = {b, o} /\ DOMAIN kn2 = {o} /\ kn2[o] = f /\ kn[o] = f
  <2>1. Cardinality(DOMAIN kn) = 2
    BY <1>4, <1>10 DEF is_min_size, min_size
  <2>2. Is(o, CHOOSE x \in DOMAIN kn : x # b)
    BY <1>9, <1>10, <1>o DEF Is
  <2>3. PICK x \in DOMAIN kn : x # b
    BY <1>11, <2>1, OtherExists
  <2>4. o \in DOMAIN kn /\ o # b
    BY <2>2, <2>3 DEF Is
  <2>5. DOMAIN kn = {b, o} /\ DOMAIN drop(kn, b) = {o} /\ drop(kn, b)[o] = kn[o]
    BY <1>11, <2>1, <2>4, OtherKid
  <2> QED
    BY <1>10, <1>f, <2>4, <2>5
<1>kid. /\ f \in tree /\ f \in Node /\ start[f] = end[n] + 1 /\ SameTo(rep[f], rep[n], end[n])
        /\ rep[f][end[n] + 1] = o /\ end[n] < end[f] /\ o \in Byte
        /\ f # n /\ f # c /\ c \in tree /\ IsUsed(f)
  <2>1. kidsOf[n] = kn /\ o \in DOMAIN kidsOf[n] /\ kidsOf[n][o] = f
        /\ b \in DOMAIN kidsOf[n] /\ kidsOf[n][b] = c
    <3>1. kidsOf[n] = kn
      BY <1>4, <1>5, <1>10, KidsOfNow
    <3> QED
      BY <1>11, <1>two, <3>1
  <2>2. /\ f \in tree /\ start[f] = end[n] + 1 /\ SameTo(rep[f], rep[n], end[n])
        /\ rep[f][end[n] + 1] = o /\ c \in tree /\ rep[c][end[n] + 1] = b
    BY <1>1, <1>4, <2>1 DEF Paths
  <2>3. end[n] < end[f]
    BY <1>1, <1>3, <1>4, <2>2 DEF Shape
  <2>4. o \in Byte
    BY <1>11, <1>two, KidsFinite
  <2> QED
    BY <1>1, <1>3, <1>4, <1>two, <2>2, <2>3, <2>4
<1>kinds. (IsLeaf(f) \/ IsInode(f)) /\ ~(IsLeaf(f) /\ IsInode(f))
  BY <1>3, <1>kid, UsedKinds
<1>on. n \in tree /\ OnLink(t, tree, rep, end)
  BY <1>4
<1>mine. Mine(t, p)
  BY <1>4
<1>link. /\ p = Nil => root = n
         /\ p # Nil => /\ p \in tree /\ p \in Node /\ IsInode(p) /\ p # n /\ root # n
                       /\ end[p] \in 0 .. KeyLen - 1 /\ SameTo(k, rep[p], end[p])
                       /\ k[end[p] + 1] \in DOMAIN nodes[p].kids
                       /\ nodes[p].kids[k[end[p] + 1]] = n
                       /\ end[p] < end[n] /\ SameTo(rep[n], rep[p], end[p])
                       /\ rep[n][end[p] + 1] = k[end[p] + 1]
                       /\ \A c0 \in DOMAIN nodes[p].kids :
                             nodes[p].kids[c0] = n => c0 = k[end[p] + 1]
  BY <1>on, <1>at, LinkFacts
<1>slot. PICK bp, kp, kp2 : /\ Is(bp, k[end[p] + 1]) /\ Is(kp, nodes[p].kids)
                           /\ Is(kp2, [kp EXCEPT ![bp] = f])
  BY DEF Is
<1>par. p # Nil => OnlySlot(kp, bp, n) /\ rep[n][end[p] + 1] = bp
  BY <1>link, <1>slot DEF Is, OnlySlot
<1>pf. p # f /\ p # c
  BY <1>3, <1>5, <1>7, <1>kid, <1>link DEF IsLeaf, IsInode, IsUsed, Nil, Node
<1>12. /\ \A l \in Node \ {f} : nd[l] = nodes[l]
       /\ nd = [l \in Node |-> nd[l]]
       /\ IsLeaf(f) => nd[f] = nodes[f]
       /\ IsInode(f) => nd[f] = Inode(nodes[f].class, pn, nodes[f].kids)
  <2>1. CASE IsLeaf(f)
    <3>1. nd = nodes
      BY <1>nd, <2>1 DEF Is, IsLeaf
    <3> QED
      BY <1>3, <1>kinds, <2>1, <3>1
  <2>2. CASE IsInode(f)
    <3>1. nd = [nodes EXCEPT ![f].prefix = pn]
      BY <1>nd, <2>2 DEF Is, IsInode
    <3>2. nodes[f] = Inode(nodes[f].class, nodes[f].prefix, nodes[f].kids)
      BY <1>3, <2>2, InodeFields
    <3>3. nd[f] = [nodes[f] EXCEPT !.prefix = pn]
      BY <1>3, <1>kid, <3>1
    <3>4. nd[f] = Inode(nodes[f].class, pn, nodes[f].kids)
      BY <3>2, <3>3 DEF Inode
    <3>5. nd = [l \in Node |-> nd[l]] /\ \A l \in Node \ {f} : nd[l] = nodes[l]
      BY <1>3, <3>1
    <3> QED
      BY <1>kinds, <2>2, <3>4, <3>5
  <2> QED
    BY <1>kinds, <2>1, <2>2
<1>set. /\ p = Nil => root' = f /\ nodes' = nd
        /\ p # Nil => /\ root' = root
                      /\ nodes' = [nd EXCEPT ![p] = Inode(nodes[p].class, nodes[p].prefix, kp2)]
  <2>1. p # Nil => nd[p] = nodes[p] /\ IsInode(p) /\ OnlySlot(kp, bp, n)
    BY <1>link, <1>par, <1>pf, <1>12
  <2>2. Is(nd, [l \in Node |-> nd[l]]) /\ SetInParent(t, nd, f)
    BY <1>2, <1>12 DEF Is
  <2>3. /\ p = Nil => Is(root', f) /\ Is(nodes', nd)
        /\ p # Nil => Is(root', root)
        /\ p # Nil => Is(nodes', [nd EXCEPT ![p] =
                                    Inode(nodes[p].class, nodes[p].prefix, kp2)])
    BY <1>1, <1>slot, <2>1, <2>2, SetParent
  <2> QED
    BY <2>3 DEF Is
<1>13. /\ \A l \in Node \ {f, p} : nodes'[l] = nodes[l]
       /\ IsLeaf(f) => nodes'[f] = nodes[f]
       /\ IsInode(f) => Is(nodes'[f], Inode(nodes[f].class, pn, nodes[f].kids))
       /\ p # Nil => Is(nodes'[p], Inode(nodes[p].class, nodes[p].prefix, kp2))
       /\ nodes' = [l \in Node |-> nodes'[l]]
  <2>1. CASE p = Nil
    BY <1>12, <1>set, <2>1 DEF Is
  <2>2. CASE p # Nil
    <3>1. \A l \in Node \ {p} : nodes'[l] = nd[l]
      BY <1>12, <1>set, <2>2
    <3>2. Is(nodes'[p], Inode(nodes[p].class, nodes[p].prefix, kp2))
      BY <1>12, <1>set, <1>link, <2>2 DEF Is
    <3>3. nodes' = [l \in Node |-> nodes'[l]]
      BY <1>12, <1>set, <2>2
    <3> QED
      BY <1>12, <1>kid, <1>pf, <2>2, <3>1, <3>2, <3>3 DEF Is
  <2> QED
    BY <2>1, <2>2
<1>14. /\ start2[f] = start[n]
       /\ \A m \in Node \ {f} : start2[m] = start[m]
       /\ start2 \in [Node -> 0 .. KeyLen]
  <2>1. start[n] \in 0 .. KeyLen
    BY <1>3, <1>4
  <2> QED
    BY <1>3, <1>kid, <2>1 DEF Is
<1>16. Keeps(rep, end, rep, end)
  <2>1. ASSUME NEW l \in Node, IsUsed(l) PROVE IsUsed(l)'
    <3>1. CASE l = p /\ p # Nil
      BY <1>13, <1>link, <3>1, NewKinds DEF IsUsed, Is
    <3>2. CASE l = f
      BY <1>13, <1>kid, <1>kinds, <3>2, NewKinds DEF IsUsed, Is
    <3>3. CASE l # p /\ l # f
      BY <1>13, <2>1, <3>3 DEF IsUsed
    <3> QED BY <3>1, <3>2, <3>3 DEF Nil, Node
  <2> QED
    BY <2>1 DEF Keeps
<1>17. NodeFits(f, tree2, rep, end, start2)' /\ (IsLeaf(f)' => IsLeaf(f)) /\ Touches(t, f)
      /\ (IsInode(f)' => IsInode(f) /\ nodes'[f].kids = nodes[f].kids) /\ IsUsed(f)'
  <2>0. NodeFits(f, tree, rep, end, start)
    BY <1>3, <1>kid
  <2>u. IsUsed(f)'
    BY <1>kid, <1>16 DEF Keeps
  <2>1. CASE IsLeaf(f)
    <3>1. nodes'[f] = nodes[f] /\ ~IsInode(f)
      BY <1>kinds, <1>13, <2>1
    <3>2. NodeFits(f, tree2, rep, end, start2)' /\ (IsLeaf(f)' <=> IsLeaf(f))
          /\ (IsInode(f)' <=> IsInode(f))
      BY <1>kid, <1>16, <2>0, <3>1, NodeKept
    <3> QED
      BY <2>u, <3>1, <3>2, TouchesNot
  <2>2. CASE IsInode(f)
    <3>1. PICK cl, kf, ps : cl = nodes[f].class /\ kf = nodes[f].kids /\ ps = nodes[f].prefix
      OBVIOUS
    <3>2. cl \in 1 .. Len(Cap) /\ kf \in Kids /\ ps \in Seq(Byte)
      BY <1>3, <2>2, <3>1, InodeFields
    <3>3. nodes'[f] = Inode(cl, pn, kf)
      BY <1>13, <2>2, <3>1 DEF Is
    <3>4. GoodKids(rep, end, f, kf)'
      BY <1>16, <2>0, <2>2, <3>1, GoodKidsKept
    <3>5. Sized(cl, kf) /\ end[f] < KeyLen
      BY <2>0, <2>2, <3>1 DEF NodeFits, SizeFits, Sized
    <3>6. pn \in Seq(Byte) /\ PrefixIs(pn, rep[f], start[n], end[f])
      <4>1. PICK s, e, z, r, r1 : /\ Is(s, start[n]) /\ Is(e, end[n]) /\ Is(z, end[f])
                                  /\ Is(r, rep[f]) /\ Is(r1, rep[n])
        BY DEF Is
      <4>2. s \in Nat /\ e \in Nat /\ z \in Nat /\ s <= e /\ e + 1 <= z /\ r \in Bytes
        <5>1. start[n] \in 0 .. KeyLen /\ end[n] \in 0 .. KeyLen /\ end[f] \in 0 .. KeyLen
              /\ rep[f] \in Bytes
          BY <1>3, <1>4, <1>kid
        <5>2. start[n] <= end[n]
          BY <1>1, <1>4 DEF Shape
        <5> QED
          BY <1>3, <1>kid, <4>1, <5>1, <5>2 DEF Is
      <4>3. PrefixIs(pf, r1, s, e)
        <5>1. NodeFits(n, tree, rep, end, start)
          BY <1>3, <1>4
        <5> QED
          BY <1>4, <1>5, <1>10, <4>1, <5>1 DEF NodeFits, PrefixFits, PrefixIs, Is
      <4>4. PrefixIs(ps, r, e + 1, z)
        BY <1>kid, <2>0, <2>2, <3>1, <4>1 DEF NodeFits, PrefixFits, PrefixIs, Is
      <4>5. SameTo(r, r1, e) /\ r[e + 1] = o /\ Is(pn, prepend(ps, pf, o))
        BY <1>kid, <1>pn, <1>10, <3>1, <4>1 DEF Is
      <4>6. pn \in Seq(Byte) /\ PrefixIs(pn, r, s, z)
        BY ONLY <1>kid, <1>11, <3>2, <4>2, <4>3, <4>4, <4>5, Prepended
      <4> QED
        BY <4>1, <4>6 DEF Is
    <3>7. NodeFits(f, tree2, rep, end, start2)' /\ IsInode(f)' /\ ~IsLeaf(f)' /\ IsUsed(f)'
      <4>1. f \in Node /\ (f \in tree2 => PrefixIs(pn, rep[f], start2[f], end[f]))
        BY <1>14, <1>kid, <3>6
      <4> QED
        BY <4>1, <3>2, <3>3, <3>4, <3>5, <3>6, InodeNew
    <3>8. nodes'[f].kids = nodes[f].kids
      BY <3>1, <3>3, NewKinds
    <3>9. Touches(t, f)
      BY <2>2, <3>1, <3>3, TouchesInode
    <3> QED
      BY <2>2, <3>7, <3>8, <3>9
  <2> QED
    BY <1>kinds, <2>1, <2>2
<1>p. p # Nil => NodeFits(p, tree2, rep, end, start2)' /\ IsInode(p)' /\ ~IsLeaf(p)'
                /\ IsUsed(p)' /\ nodes'[p].kids = kp2
  <2>1. ASSUME p # Nil
        PROVE  NodeFits(p, tree2, rep, end, start2)' /\ IsInode(p)' /\ ~IsLeaf(p)'
               /\ IsUsed(p)' /\ nodes'[p].kids = kp2
    <3>1. GoodKid(rep, end, p, bp, f)'
      <4>1. end[p] < end[f] /\ SameTo(rep[f], rep[p], end[p]) /\ rep[f][end[p] + 1] = bp
        BY <1>3, <1>7, <1>kid, <1>link, <1>par, <2>1 DEF SameTo
      <4> QED
        BY <1>17, <4>1 DEF GoodKid
    <3>2. NodeFits(p, tree, rep, end, start) /\ IsInode(p) /\ p \in tree /\ bp \in DOMAIN kp
          /\ f \in Node
      BY <1>2, <1>3, <1>kid, <1>link, <1>par, <2>1 DEF OnlySlot
    <3>3. Is(start2[p], start[p]) /\ Is(nodes'[p], Inode(nodes[p].class, nodes[p].prefix, kp2))
      BY <1>13, <1>14, <1>link, <1>pf, <2>1 DEF Is
    <3> QED
      <4>1. TreeTypes(tree, rep, end, start)
        BY <1>1
      <4>2. NodeFits(p, tree2, rep, end, start2)' /\ IsInode(p)' /\ ~IsLeaf(p)' /\ IsUsed(p)'
        BY <4>1, <1>16, <1>slot, <3>1, <3>2, <3>3, ParentFits
      <4>3. nodes'[p].kids = kp2
        BY <3>3, NewKinds DEF Is
      <4> QED
        BY <4>2, <4>3
  <2> QED
    BY <2>1
<1>18. ASSUME NEW l \in Node
       PROVE  /\ NodeFits(l, tree2, rep, end, start2)'
              /\ IsUsed(l)' <=> IsUsed(l)
              /\ IsLeaf(l)' => l # p
              /\ IsUsed(l) => Touches(t, l)
  <2>2. CASE l = f
    BY <1>17, <1>kid, <1>pf, <2>2
  <2>3. CASE l = p
    <3>1. p # Nil
      BY <2>3 DEF Nil, Node
    <3>2. Touches(t, p)
      <4>1. IsInode(p)
        BY <1>link, <3>1
      <4>2. nodes'[p] = Inode(nodes[p].class, nodes[p].prefix, kp2)
        BY <1>13, <3>1 DEF Is
      <4> QED
        BY <1>mine, <4>1, <4>2, TouchesInode
    <3> QED
      BY <1>link, <1>p, <2>3, <3>1, <3>2 DEF IsInode
  <2>4. CASE l \notin {f, p}
    <3>1. nodes'[l] = nodes[l] /\ NodeFits(l, tree, rep, end, start)
      BY <1>3, <1>13, <2>4
    <3>2. l \in tree2 /\ IsInode(l) => l \in tree /\ start2[l] = start[l]
      BY <1>14, <1>new, <2>4
    <3>3. NodeFits(l, tree2, rep, end, start2)' /\ (IsUsed(l)' <=> IsUsed(l))
      BY <1>16, <3>1, <3>2, NodeKept
    <3> QED
      BY <2>4, <3>1, <3>3, TouchesNot
  <2> QED
    BY <2>2, <2>3, <2>4
<1>19. Paths(root, kidsOf, tree2, rep, end, start2)'
  <2>1. PICK kd, kd2, km : kd = kidsOf /\ kd2 = kidsOf' /\ Is(km, [kd EXCEPT ![n] = kn2])
    BY DEF Is
  <2>2. kd[n] = kn /\ kd[c] = <<>> /\ (p # Nil => kd[p] = kp)
    BY <1>4, <1>5, <1>10, <1>link, <1>slot, <2>1, KidsOfNow DEF Is
  <2>3. p # Nil => kd2[p] = kp2
    BY <1>link, <1>p, <2>1, KidsOfNext
  <2>4. \A m \in tree \ {p} : kd2[m] = kd[m]
    <3>1. \A m \in tree \ {p, f} : kd2[m] = kd[m]
      BY <1>1, <1>13, <2>1, KidsOfNext
    <3>2. kd2[f] = kd[f]
      <4>1. CASE IsLeaf(f)
        BY <1>kid, <1>13, <2>1, <4>1, KidsOfNext
      <4>2. CASE IsInode(f)
        <5>1. nodes'[f].kind = "inode" /\ nodes'[f].kids = nodes[f].kids
          BY <1>13, <4>2, NewKinds DEF Is
        <5>2. IsInode(f)'
          BY <5>1, <1>17 DEF IsInode
        <5> QED
          BY <1>kid, <2>1, <4>2, <5>1, <5>2, KidsOfNow, KidsOfNext
      <4> QED
        BY <1>kinds, <4>1, <4>2
    <3> QED
      BY <3>1, <3>2
  <2>5. km[n] = kn2 /\ (\A m \in Node \ {n} : km[m] = kd[m])
    BY <1>4, <2>1 DEF kidsOf, Is
  <2>6. Paths(root, kd, tree, rep, end, start)
    BY <1>1, <2>1
  <2>7. Paths(root, km, tree \ {c}, rep, end, start)
    <3>1. Shape(tree, rep, end, start)
      BY <1>1
    <3>2. /\ end[n] < KeyLen /\ b \in DOMAIN kd[n] /\ end[kd[n][b]] = KeyLen
          /\ DOMAIN kd[kd[n][b]] = {} /\ km[n] = drop(kd[n], b)
      <4>1. kd[n][b] = c /\ b \in DOMAIN kd[n] /\ DOMAIN kd[c] = {}
        BY <1>11, <2>2
      <4>2. km[n] = drop(kd[n], b)
        BY <1>10, <2>2, <2>5
      <4> QED
        BY <1>7, <4>1, <4>2
    <3>3. \A m \in tree \ {n} : km[m] = kd[m]
      BY <1>1, <2>5
    <3>4. Paths(root, km, tree \ {kd[n][b]}, rep, end, start)
      BY <1>4, <2>6, <3>1, <3>2, <3>3, PathsDrop
    <3> QED
      BY <1>11, <2>2, <3>4
  <2>8. Relink(root, km, root', kd2, tree \ {c}, n, f)
    <3>1. CASE p = Nil
      <4>1. \A m \in (tree \ {c}) \ {n} : kd2[m] = km[m]
        BY <1>1, <2>2, <2>3, <2>4, <2>5, <3>1
      <4> QED
        BY <1>link, <1>set, <3>1, <4>1 DEF Relink
    <3>2. CASE p # Nil
      <4>1. \A m \in (tree \ {c}) \ {n, p} : kd2[m] = km[m]
        BY <1>1, <2>2, <2>3, <2>4, <2>5
      <4>2. km[p] = kp /\ kd2[p] = [km[p] EXCEPT ![bp] = f] /\ bp \in DOMAIN km[p] /\ km[p][bp] = n
        <5>1. km[p] = kp /\ OnlySlot(kp, bp, n) /\ kd2[p] = kp2
          BY <1>link, <1>par, <2>2, <2>3, <2>5, <3>2
        <5>2. kp2 = [kp EXCEPT ![bp] = f]
          BY <1>slot DEF Is
        <5> QED
          BY <5>1, <5>2 DEF OnlySlot
      <4>3. p \in (tree \ {c}) \ {n} /\ root # n /\ root' = root
        BY <1>link, <1>pf, <1>set, <3>2
      <4> QED
        BY <4>1, <4>2, <4>3 DEF Relink
    <3> QED
      BY <3>1, <3>2
  <2>9. Paths(root', kd2, (tree \ {c}) \ {n}, rep, end, start2)
    <3>1. Shape(tree \ {c}, rep, end, start)
      BY <1>1 DEF Shape
    <3>2. Shape(tree \ {c}, rep, end, start2)
      <4>1. start2[f] <= end[f] /\ start2[f] \in 0 .. KeyLen
        <5>1. start[n] <= end[n]
          BY <1>1, <1>4 DEF Shape
        <5>2. start[n] \in 0 .. KeyLen /\ end[n] \in 0 .. KeyLen /\ end[f] \in 0 .. KeyLen
          BY <1>3, <1>4, <1>kid
        <5> QED
          BY <1>3, <1>14, <1>kid, <5>1, <5>2
      <4>2. \A m \in (tree \ {c}) \ {f} : start2[m] = start[m]
        BY <1>1, <1>14
      <4> QED
        BY <3>1, <4>1, <4>2 DEF Shape
    <3>3. /\ n \in tree \ {c} /\ Nil \notin tree \ {c} /\ DOMAIN km[n] = {o} /\ km[n][o] = f
          /\ start2[f] = start[n]
          /\ \A m \in (tree \ {c}) \ {f} : start2[m] = start[m]
      BY <1>1, <1>4, <1>5, <1>14, <1>two, <2>5
    <3>4. kd2[f] = km[f]
      BY <1>kid, <1>pf, <2>4, <2>5
    <3>5. /\ start2[km[n][o]] = start[n] /\ kd2[km[n][o]] = km[km[n][o]]
          /\ (\A m \in (tree \ {c}) \ {km[n][o]} : start2[m] = start[m])
          /\ Relink(root, km, root', kd2, tree \ {c}, n, km[n][o])
      BY <2>8, <3>3, <3>4
    <3>6. n \in tree \ {c} /\ Nil \notin tree \ {c} /\ DOMAIN km[n] = {o}
      BY <3>3
    <3> QED
      BY <2>7, <3>1, <3>2, <3>5, <3>6, PathsMerge
  <2> QED
    BY <1>new, <2>1, <2>9
<1>20. MapFits(tree2)'
  <2>1. \A m \in tree \ {c} : IsLeaf(m) => m \in tree2 /\ nodes'[m] = nodes[m]
    <3>1. \A m \in tree : IsLeaf(m) => m # n /\ m # p
      BY <1>5, <1>link DEF IsLeaf, IsInode, IsUsed, Nil, Node
    <3> QED
      BY <1>1, <1>13, <1>new, <3>1
  <2>2. \A m \in tree2 : IsLeaf(m)' => m \in tree \ {c} /\ nodes'[m] = nodes[m]
    BY <1>1, <1>13, <1>17, <1>18, <1>new
  <2> QED
    BY <1>1, <1>2, <1>3, <1>5, <1>kid, <2>1, <2>2, MapRemove
<1>21. TreeFits(tree2, rep, end, start2)'
  <2>1. \A l \in Node : IsUsed(l)' <=> l <= used + 0
    BY <1>6, <1>18 DEF Node
  <2>2. \A l \in tree2 : l \in Node /\ IsUsed(l)'
    BY <1>1, <1>18, <1>new
  <2>3. map' \in [Key -> Lock] /\ root' \in Lock
    BY <1>2, <1>3, <1>7, <1>kid, <1>set, Bound DEF Lock, Node
  <2> QED
    BY <1>3, <1>6, <1>13, <1>14, <1>18, <1>19, <1>20, <2>1, <2>2, <2>3, StepFits
<1>22. Effect(t, tree, rep, end, start, tree2, rep, end, start2)
  <2>1. \A l \in Node :
          l \in tree2 <=> (l \in tree /\ ~Retired(t, l)) \/ (IsUsed(l)' /\ ~IsUsed(l))
    BY <1>4, <1>18, <1>new
  <2>2. ASSUME NEW l \in tree, ~Mine(t, l), start2[l] # start[l]
        PROVE  /\ start2[l] <= start[l]
               /\ \E q \in tree : /\ Mine(t, q) /\ IsInode(q)
                                  /\ \E x \in DOMAIN nodes[q].kids : nodes[q].kids[x] = l
               /\ IsInode(l) => \A v \in Thread : AboutToRead(v, l) => v \in torn'
               /\ leave_last_child(t) /\ l = survivor(t)
    <3>1. l = f
      BY <1>1, <1>14, <2>2
    <3>2. start2[f] <= start[f]
      <4>1. start[n] <= end[n]
        BY <1>1, <1>4 DEF Shape
      <4>2. start[n] \in 0 .. KeyLen /\ end[n] \in 0 .. KeyLen
        BY <1>3, <1>4
      <4> QED
        BY <1>3, <1>14, <1>kid, <4>1, <4>2
    <3>3. o \in DOMAIN nodes[n].kids /\ nodes[n].kids[o] = f /\ Mine(t, n) /\ IsInode(n)
      BY <1>4, <1>5, <1>10, <1>two
    <3>4. IsInode(f) => \A v \in Thread : AboutToRead(v, f) => v \in torn'
      BY <1>2 DEF IsInode
    <3>5. leave_last_child(t) /\ f = survivor(t)
      BY DEF Is
    <3> QED
      BY <1>4, <3>1, <3>2, <3>3, <3>4, <3>5
  <2>3. root' # root => Mine(t, Nil)
    BY <1>4, <1>set
  <2>4. torn \subseteq torn'
    BY <1>2
  <2>5. \A l \in Node : IsUsed(l) =>
           /\ IsUsed(l)' /\ nodes'[l].kind = nodes[l].kind
           /\ IsLeaf(l) => nodes'[l] = nodes[l]
           /\ IsInode(l) => nodes'[l].class = nodes[l].class
           /\ IsInode(l) /\ ~Mine(t, l) => nodes'[l].kids = nodes[l].kids
    BY <1>18 DEF Touches
  <2> QED
    BY <2>1, <2>2, <2>3, <2>4, <2>5 DEF Effect
<1> QED
  BY <1>21, <1>22

\* The provers name what a write section has in hand.
LEMMA WriteFits ==
    ASSUME NEW tree, NEW rep, NEW end, NEW start, Inv(tree, rep, end, start),
           NEW t \in Thread, Writing(t)
    PROVE  FitsAfter(t, tree, rep, end, start)
<1>1. PICK n, p, c, f, g, k : /\ Is(n, at[t]["node"]) /\ Is(p, at[t]["parent"])
                              /\ Is(c, at[t]["child"]) /\ Is(f, fresh(1)) /\ Is(g, fresh(2))
                              /\ Is(k, key[t])
  BY DEF Is
<1>2. CASE insert_root(t)
  <2>1. PICK tree2, rep2, end2, start2 :
           /\ Is(tree2, {f}) /\ Is(rep2, [rep EXCEPT ![f] = k])
           /\ Is(end2, [end EXCEPT ![f] = KeyLen]) /\ Is(start2, [start EXCEPT ![f] = 0])
    BY DEF Is
  <2>2. /\ TreeFits(tree2, rep2, end2, start2)'
        /\ Effect(t, tree, rep, end, start, tree2, rep2, end2, start2)
    BY <1>1, <1>2, <2>1, InsertRootFits
  <2> QED
    BY <2>2 DEF FitsAfter
<1>3. CASE split_leaf(t)
  BY <1>3, SplitLeafFits
<1>4. CASE split_prefix(t)
  BY <1>4, SplitPrefixFits
<1>5. CASE add_to_nonfull(t)
  <2>1. PICK tree2, rep2, end2, start2 :
           /\ Is(tree2, tree \cup {f}) /\ Is(rep2, [rep EXCEPT ![f] = k])
           /\ Is(end2, [end EXCEPT ![f] = KeyLen])
           /\ Is(start2, [start EXCEPT ![f] = end[n] + 1])
    BY DEF Is
  <2>2. /\ TreeFits(tree2, rep2, end2, start2)'
        /\ Effect(t, tree, rep, end, start, tree2, rep2, end2, start2)
    BY <1>1, <1>5, <2>1, AddToNonfullFits
  <2> QED
    BY <2>2 DEF FitsAfter
<1>6. CASE grow(t)
  <2>1. PICK tree2, rep2, end2, start2 :
           /\ Is(tree2, ((tree \cup {f}) \ {n}) \cup {g})
           /\ Is(rep2, [rep EXCEPT ![f] = k, ![g] = rep[n]])
           /\ Is(end2, [end EXCEPT ![f] = KeyLen, ![g] = end[n]])
           /\ Is(start2, [start EXCEPT ![f] = end[n] + 1, ![g] = start[n]])
    BY DEF Is
  <2>2. /\ TreeFits(tree2, rep2, end2, start2)'
        /\ Effect(t, tree, rep, end, start, tree2, rep2, end2, start2)
    BY <1>1, <1>6, <2>1, GrowFits
  <2> QED
    BY <2>2 DEF FitsAfter
<1>7. CASE remove_root(t)
  <2>1. TreeFits({}, rep, end, start)' /\ Effect(t, tree, rep, end, start, {}, rep, end, start)
    BY <1>1, <1>7, RemoveRootFits
  <2> QED
    BY <2>1 DEF FitsAfter
<1>8. CASE remove_child(t)
  <2>1. PICK tree2 : Is(tree2, tree \ {c})
    BY DEF Is
  <2>2. /\ TreeFits(tree2, rep, end, start)'
        /\ Effect(t, tree, rep, end, start, tree2, rep, end, start)
    BY <1>1, <1>8, <2>1, RemoveChildFits
  <2> QED
    BY <2>2 DEF FitsAfter
<1>9. CASE leave_last_child(t)
  <2>1. PICK s, tree2 : Is(s, survivor(t)) /\ Is(tree2, (tree \ {c}) \ {n})
    BY DEF Is
  <2>2. PICK start2 : Is(start2, [start EXCEPT ![s] = start[n]])
    BY DEF Is
  <2>3. /\ TreeFits(tree2, rep, end, start2)'
        /\ Effect(t, tree, rep, end, start, tree2, rep, end, start2)
    BY <1>1, <1>9, <2>1, <2>2, LeaveLastChildFits
  <2> QED
    BY <2>3 DEF FitsAfter
<1>10. CASE shrink(t)
  <2>1. PICK tree2, rep2, end2, start2 :
           /\ Is(tree2, ((tree \ {c}) \ {n}) \cup {f})
           /\ Is(rep2, [rep EXCEPT ![f] = rep[n]])
           /\ Is(end2, [end EXCEPT ![f] = end[n]])
           /\ Is(start2, [start EXCEPT ![f] = start[n]])
    BY DEF Is
  <2>2. /\ TreeFits(tree2, rep2, end2, start2)'
        /\ Effect(t, tree, rep, end, start, tree2, rep2, end2, start2)
    BY <1>1, <1>10, <2>1, ShrinkFits
  <2> QED
    BY <2>2 DEF FitsAfter
<1> QED
  BY <1>2, <1>3, <1>4, <1>5, <1>6, <1>7, <1>8, <1>9, <1>10 DEF Writing
===============================================================================
