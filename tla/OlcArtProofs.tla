----------------------------- MODULE OlcArtProofs -----------------------------
(***************************************************************************)
(* Proofs about OlcArt: OlcArtShape's Inv holds of some labelling of the   *)
(* nodes at all times, and the five invariants of OlcArt follow.           *)
(*                                                                         *)
(* The locks come first, then the lists of lock accesses, then the steps   *)
(* that change no node, then the write sections, whose effect on the tree  *)
(* is OlcArtTreeProofs' lemma WriteFits.                                   *)
(***************************************************************************)
EXTENDS OlcArtTreeProofs, SequenceTheorems

\* A step of t leaves the others where they are.
Others(t) ==
    \A u \in Thread \ {t} :
        /\ pc'[u] = pc[u] /\ op'[u] = op[u] /\ key'[u] = key[u] /\ depth'[u] = depth[u]
        /\ at'[u] = at[u] /\ ver'[u] = ver[u] /\ todo'[u] = todo[u] /\ held'[u] = held[u]
        /\ result'[u] = result[u]

\* What a step of t may do to a lock word.
WordStep(t, l) ==
    \/ word'[l] = word[l]
    \/ word[l] % 4 = 0 /\ word'[l] = word[l] + 2
    \/ Owns(t, l) /\ word'[l] = word[l] + 2
    \/ Owns(t, l) /\ word'[l] = obsolete_lock_word

\* Versions that were stay past, and do not come back.
LEMMA PastKept ==
    ASSUME LockTypes, Ownership, NEW t \in Thread, NEW l \in Lock, WordStep(t, l), NEW v \in Nat,
           Past(l, v)
    PROVE  Past(l, v)' /\ (word'[l] = v => word[l] = v)
           /\ (is_obsolete(word[l]) => word'[l] = word[l])
<1>1. word[l] \in Nat /\ (word[l] % 4 \in {0, 2} \/ word[l] = 1)
  BY DEF LockTypes, is_obsolete, obsolete_lock_word
<1>2. Owns(t, l) => word[l] % 4 = 2
  BY DEF Ownership
<1>3. v % 4 = 0 /\ (v <= word[l] \/ word[l] = 1)
  BY DEF Past, is_obsolete, obsolete_lock_word
<1>4. \/ word'[l] = word[l]
      \/ word[l] % 4 = 0 /\ word'[l] = word[l] + 2
      \/ word[l] % 4 = 2 /\ word'[l] = word[l] + 2
      \/ word[l] % 4 = 2 /\ word'[l] = 1
  BY <1>2 DEF WordStep, obsolete_lock_word
<1>5. word[l] = 1 => word'[l] = word[l]
  BY ONLY <1>1, <1>4
<1>6. v <= word'[l] \/ word'[l] = 1
  BY ONLY <1>1, <1>3, <1>4, v \in Nat
<1>7. word'[l] = v => word[l] = v
  <2>1. PICK w, w2 : w = word[l] /\ w2 = word'[l]
    OBVIOUS
  <2>2. v % 4 = 0 /\ (v <= w \/ w = 1) /\ w \in Nat
    BY <1>1, <1>3, <2>1
  <2>3. w2 = w \/ (w % 4 = 0 /\ w2 = w + 2) \/ (w % 4 = 2 /\ w2 = w + 2)
        \/ (w % 4 = 2 /\ w2 = 1)
    BY <1>4, <2>1
  <2>4. w = 1 => w2 = w
    BY <1>5, <2>1
  <2>5. w2 = v => w = v
    BY ONLY <2>2, <2>3, <2>4, v \in Nat
  <2> QED
    BY <2>1, <2>5
<1> QED
  BY <1>3, <1>5, <1>6, <1>7 DEF Past, is_obsolete, obsolete_lock_word

\* What t has is still what it had, seen by another thread.
LEMMA OthersLocks ==
    ASSUME NEW t \in Thread, Others(t), NEW u \in Thread, u # t
    PROVE  /\ \A d, l : ToDo(u, d, l)' <=> ToDo(u, d, l)
           /\ \A l : Holds(u, l)' <=> Holds(u, l)
           /\ \A l : Owns(u, l)' <=> Owns(u, l)
           /\ \A l : Retired(u, l)' <=> Retired(u, l)
           /\ \A l : Mine(u, l)' <=> Mine(u, l)
<1>1. pc'[u] = pc[u] /\ todo'[u] = todo[u] /\ held'[u] = held[u] /\ at'[u] = at[u]
  BY DEF Others
<1>2. \A d, l : ToDo(u, d, l)' <=> ToDo(u, d, l)
  BY <1>1 DEF ToDo
<1>3. \A l : Holds(u, l)' <=> Holds(u, l)
  BY <1>1 DEF Holds
<1>4. \A l : Owns(u, l)' <=> Owns(u, l)
  BY <1>2, <1>3 DEF Owns
<1>5. \A l : Retired(u, l)' <=> Retired(u, l)
  BY <1>1, <1>2 DEF Retired
<1>6. \A l : Mine(u, l)' <=> Mine(u, l)
  BY <1>4, <1>5 DEF Mine
<1> QED
  BY <1>2, <1>3, <1>4, <1>5, <1>6

\* A lock that a thread may change is not free.
LEMMA MineNotFree ==
    ASSUME LockInv, NEW u \in Thread, NEW l \in Lock, Mine(u, l)
    PROVE  word[l] % 4 # 0 /\ (Retired(u, l) => is_obsolete(word[l]))
<1>1. Owns(u, l) => word[l] % 4 = 2
  BY DEF LockInv, Ownership
<1>2. ASSUME Retired(u, l) PROVE is_obsolete(word[l])
  <2>1. pc[u] \in Commits
    BY <1>2 DEF Retired, Retires, Commits, RemovesChild
  <2> QED
    BY <1>2, <2>1 DEF LockInv, Guarding
<1>3. Retired(u, l) => word[l] = 1
  BY <1>2 DEF is_obsolete, obsolete_lock_word
<1>4. word[l] % 4 # 0
  BY <1>1, <1>3 DEF Mine
<1> QED
  BY <1>2, <1>4

\* Where a step of t keeps to what is t's, the locks stay in order.
LEMMA LockStep ==
    ASSUME LockInv, NEW t \in Thread, Others(t), LockTypes',
           Versions(t)', Lists(t)', Guarding(t)',
           \A l \in Lock : WordStep(t, l),
           \A l \in Lock : Owns(t, l)' => word'[l] % 4 = 2,
           \A l \in Lock : Mine(t, l)' => Mine(t, l) \/ word[l] % 4 = 0
    PROVE  LockInv'
<1>1. LockTypes /\ Ownership
  BY DEF LockInv
<1>2. ASSUME NEW u \in Thread, u # t
      PROVE  Versions(u)' /\ Lists(u)' /\ Guarding(u)'
  <2>1. Versions(u) /\ Lists(u) /\ Guarding(u)
    BY DEF LockInv
  <2>2. /\ pc'[u] = pc[u] /\ todo'[u] = todo[u] /\ held'[u] = held[u] /\ at'[u] = at[u]
        /\ ver'[u] = ver[u] /\ op'[u] = op[u]
    BY <1>2 DEF Others
  <2>3. Versions(u)'
    <3>1. ASSUME NEW r \in Role PROVE Past(at[u][r], ver[u][r])'
      <4>1. PICK l, v : l = at[u][r] /\ v = ver[u][r]
        OBVIOUS
      <4>2. l \in Lock /\ v \in Nat /\ Past(l, v)
        BY <1>1, <2>1, <4>1 DEF LockTypes, Versions
      <4>3. Past(l, v)'
        BY <1>1, <4>2, PastKept
      <4>4. l = at'[u][r] /\ v = ver'[u][r]
        BY <2>2, <4>1
      <4> QED
        BY <4>3, <4>4 DEF Past
    <3>2. ASSUME NEW i \in DOMAIN todo[u], todo[u][i].do \in {"check", "upgrade"}
          PROVE  Past(todo[u][i].on, todo[u][i].ver)'
      <4>1. PICK l, v : l = todo[u][i].on /\ v = todo[u][i].ver
        OBVIOUS
      <4>2. todo[u] \in Seq(Entry)
        BY <1>1 DEF LockTypes
      <4>3. todo[u][i] \in Entry
        BY <4>2
      <4>4. l \in Lock /\ v \in Nat /\ Past(l, v)
        BY <2>1, <3>2, <4>1, <4>3 DEF Entry, Versions
      <4>5. Past(l, v)'
        BY <1>1, <4>4, PastKept
      <4>6. l = todo'[u][i].on /\ v = todo'[u][i].ver
        BY <2>2, <4>1
      <4> QED
        BY <4>5, <4>6 DEF Past
    <3> QED
      BY <2>1, <2>2, <3>1, <3>2 DEF Versions
  <2>4. Lists(u)'
    BY <2>1, <2>2 DEF Lists
  <2>5. Guarding(u)'
    <3>1. \A l \in Lock : is_obsolete(word[l]) => is_obsolete(word'[l])
      <4> SUFFICES ASSUME NEW l \in Lock, is_obsolete(word[l]) PROVE is_obsolete(word'[l])
        OBVIOUS
      <4>1. Past(l, 0)
        BY DEF Past
      <4>2. word'[l] = word[l]
        BY <1>1, <4>1, PastKept
      <4> QED
        BY <4>2
    <3>2. /\ \A d, l : ToDo(u, d, l)' <=> ToDo(u, d, l)
          /\ \A l : Holds(u, l)' <=> Holds(u, l)
          /\ \A l : Retired(u, l)' <=> Retired(u, l)
      BY <1>2, OthersLocks
    <3>3. CASE pc[u] \notin Commits
      BY <2>2, <3>3 DEF Guarding
    <3>4. CASE pc[u] \in Commits
      <4>1. ASSUME NEW r \in Role, Guards(pc'[u], r)
            PROVE  (ToDo(u, "upgrade", at[u][r]) \/ Holds(u, at[u][r]) \/ Retired(u, at[u][r]))'
        <5>1. PICK l : l = at[u][r]
          OBVIOUS
        <5>2. ToDo(u, "upgrade", l) \/ Holds(u, l) \/ Retired(u, l)
          BY <2>1, <2>2, <3>4, <4>1, <5>1 DEF Guarding
        <5>3. ToDo(u, "upgrade", l)' \/ Holds(u, l)' \/ Retired(u, l)'
          BY <3>2, <5>2
        <5>4. l = at'[u][r]
          BY <2>2, <5>1
        <5> QED
          BY <5>3, <5>4 DEF ToDo, Holds, Retired
      <4>2. \A l \in Lock : Holds(u, l)' => /\ \E r \in Role : Guards(pc'[u], r) /\ l = at'[u][r]
                                            /\ ~ToDo(u, "upgrade", l)'
                                            /\ ~Retired(u, l)'
        BY <2>1, <2>2, <3>2, <3>4 DEF Guarding
      <4>7. \A l \in Lock : ToDo(u, "upgrade", l)' => \E r \in Role : Guards(pc'[u], r) /\ l = at'[u][r]
        BY <2>1, <2>2, <3>2, <3>4 DEF Guarding
      <4>3. \A l \in Lock : ToDo(u, "obsolete", l)' =>
              /\ ToDo(u, "upgrade", l)' \/ Holds(u, l)'
              /\ \E r \in Role : Retires(pc'[u], r) /\ l = at'[u][r]
        BY <2>1, <2>2, <3>2, <3>4 DEF Guarding
      <4>4. \A l \in Lock : Retired(u, l)' => is_obsolete(word'[l])
        BY <2>1, <3>1, <3>2, <3>4 DEF Guarding
      <4>5. \A i \in DOMAIN todo'[u] : \A l \in Lock :
               todo'[u][i].do # "obsolete" => ~Retired(u, l)'
        BY <2>1, <2>2, <3>2, <3>4 DEF Guarding
      <4>6. /\ at'[u]["parent"] # at'[u]["node"] \/ pc'[u] = "insert_root"
            /\ pc'[u] \in RemovesChild => /\ at'[u]["child"] # at'[u]["node"]
                                          /\ at'[u]["child"] # at'[u]["parent"]
        BY <2>1, <2>2, <3>4 DEF Guarding
      <4> QED
        BY <4>1, <4>2, <4>3, <4>4, <4>5, <4>6, <4>7 DEF Guarding
    <3> QED
      BY <3>3, <3>4
  <2> QED
    BY <2>3, <2>4, <2>5
<1>3. ASSUME NEW u \in Thread, NEW l \in Lock, Owns(u, l)'
      PROVE  word'[l] % 4 = 2
  <2>1. CASE u # t
    <3>1. Owns(u, l) /\ Mine(u, l)
      BY <1>3, <2>1, OthersLocks DEF Mine
    <3>2. word[l] % 4 = 2
      BY <1>1, <3>1 DEF Ownership
    <3>3. ~Owns(t, l)
      BY <1>1, <2>1, <3>1 DEF Ownership, Mine
    <3>4. word'[l] = word[l]
      BY <3>2, <3>3 DEF WordStep
    <3> QED
      BY <3>2, <3>4
  <2> QED
    BY <1>3, <2>1
<1>4. ASSUME NEW u \in Thread, u # t, NEW l \in Lock, Mine(t, l)', Mine(u, l)'
      PROVE  FALSE
  <2>1. Mine(u, l)
    BY <1>4, OthersLocks
  <2>2. word[l] % 4 # 0
    BY <2>1, MineNotFree
  <2>3. Mine(t, l)
    BY <1>4, <2>2
  <2> QED
    BY <1>1, <1>4, <2>1, <2>3 DEF Ownership
<1>5. \A u \in Thread : Versions(u)' /\ Lists(u)' /\ Guarding(u)'
  BY <1>2
<1>6. ASSUME NEW u \in Thread, NEW v \in Thread, u # v, u # t, v # t, NEW l \in Lock,
             Mine(u, l)', Mine(v, l)'
      PROVE  FALSE
  <2>1. Mine(u, l) /\ Mine(v, l)
    BY <1>6, OthersLocks
  <2> QED
    BY <1>1, <1>6, <2>1 DEF Ownership
<1>7. \A u, v \in Thread, l \in Lock : u # v => ~(Mine(u, l)' /\ Mine(v, l)')
  BY <1>4, <1>6
<1>8. Ownership'
  BY <1>3, <1>7 DEF Ownership
<1> QED
  BY <1>5, <1>8 DEF LockInv

(***************************************************************************)
(* Lists of lock accesses.                                                 *)
(***************************************************************************)
Accesses == {"check", "upgrade", "obsolete"} \X Role
\* What a list of <<what, role>> looks like.
GoodSteps(steps) ==
    /\ steps \in Seq(Accesses)
    /\ \A i, j \in DOMAIN steps : i # j => steps[i] # steps[j]
    /\ \A i, j \in DOMAIN steps : i < j /\ steps[i][1] = "obsolete" => steps[j][1] = "obsolete"
\* The list only checks versions.
OnlyChecks(steps) == \A i \in DOMAIN steps : steps[i][1] = "check"
\* The list does d to the node in role r.
Includes(steps, d, r) == \E i \in DOMAIN steps : steps[i] = <<d, r>>
\* The list before a commit takes the guards and retires the nodes of that commit.
Prepares(label, steps) ==
    /\ label \in Commits
    /\ \A r \in Role : Includes(steps, "upgrade", r) <=> Guards(label, r)
    /\ \A r \in Role : Includes(steps, "obsolete", r) <=> Retires(label, r)
\* The nodes in the roles of a list differ.
RolesDiffer(t, steps) ==
    \A i, j \in DOMAIN steps :
        steps[i][2] # steps[j][2] => at[t][steps[i][2]] # at[t][steps[j][2]]

\* The entries of a new list.
LEMMA PlanIs ==
    ASSUME LockTypes, NEW t \in Thread, NEW steps, GoodSteps(steps), Plan(t, steps)
    PROVE  /\ todo' \in [Thread -> Seq(Entry)]
           /\ DOMAIN todo'[t] = DOMAIN steps
           /\ DOMAIN steps = 1 .. Len(steps) /\ Len(steps) \in Nat /\ Len(todo'[t]) = Len(steps)
           /\ \A i \in DOMAIN steps : /\ todo'[t][i].do = steps[i][1]
                                      /\ todo'[t][i].on = at[t][steps[i][2]]
                                      /\ todo'[t][i].ver = ver[t][steps[i][2]]
           /\ \A i \in DOMAIN steps : /\ steps[i][1] \in {"check", "upgrade", "obsolete"}
                                      /\ steps[i][2] \in Role
           /\ \A u \in Thread \ {t} : todo'[u] = todo[u]
<1>1. steps \in Seq(Accesses) /\ Len(steps) \in Nat /\ DOMAIN steps = 1 .. Len(steps)
  BY LenProperties DEF GoodSteps
<1>2. \A i \in DOMAIN steps : steps[i] \in Accesses
  BY <1>1
<1>3. \A i \in DOMAIN steps : steps[i][1] \in {"check", "upgrade", "obsolete"}
                              /\ steps[i][2] \in Role
  BY <1>2 DEF Accesses
<1> DEFINE q == [i \in DOMAIN steps |-> [do |-> steps[i][1], on |-> at[t][steps[i][2]],
                                         ver |-> ver[t][steps[i][2]]]]
<1>4. \A i \in DOMAIN steps : at[t][steps[i][2]] \in Lock /\ ver[t][steps[i][2]] \in Nat
  BY <1>3 DEF LockTypes
<1>5. \A i \in DOMAIN steps : q[i] \in Entry
  BY <1>3, <1>4 DEF Entry
<1>6. q \in [1 .. Len(steps) -> Entry]
  BY <1>1, <1>5
<1>7. q \in Seq(Entry) /\ Len(q) = Len(steps)
  BY <1>1, <1>6, SeqDef
<1>8. todo' = [todo EXCEPT ![t] = q]
  BY DEF Plan
<1>9. todo \in [Thread -> Seq(Entry)]
  BY DEF LockTypes
<1>10. todo'[t] = q /\ todo' \in [Thread -> Seq(Entry)] /\ \A u \in Thread \ {t} : todo'[u] = todo[u]
  BY <1>7, <1>8, <1>9
<1> QED
  BY <1>1, <1>3, <1>7, <1>10

\* The accesses of a list are distinct, and retire nodes last.
LEMMA PlanLists ==
    ASSUME LockTypes, NEW t \in Thread, NEW steps, GoodSteps(steps), Plan(t, steps),
           RolesDiffer(t, steps)
    PROVE  /\ \A i, j \in DOMAIN todo'[t] :
                i # j => todo'[t][i].do # todo'[t][j].do \/ todo'[t][i].on # todo'[t][j].on
           /\ \A i, j \in DOMAIN todo'[t] :
                i < j /\ todo'[t][i].do = "obsolete" => todo'[t][j].do = "obsolete"
           /\ \A i \in DOMAIN todo'[t] : todo'[t][i].do # "unlock"
           /\ \A r \in Role : \A d, l : l = at[t][r] /\ Includes(steps, d, r) => ToDo(t, d, l)'
           /\ \A l, d : ToDo(t, d, l)' => \E r \in Role : l = at[t][r] /\ Includes(steps, d, r)
<1>1. /\ DOMAIN todo'[t] = DOMAIN steps
      /\ \A i \in DOMAIN steps : /\ todo'[t][i].do = steps[i][1]
                                 /\ todo'[t][i].on = at[t][steps[i][2]]
      /\ \A i \in DOMAIN steps : /\ steps[i][1] \in {"check", "upgrade", "obsolete"}
                                 /\ steps[i][2] \in Role
  BY PlanIs
<1>2. steps \in Seq(Accesses)
  BY DEF GoodSteps
<1>3. \A i \in DOMAIN steps : steps[i] \in Accesses
  BY <1>2
<1>4. \A i \in DOMAIN steps : steps[i] = <<steps[i][1], steps[i][2]>>
  BY <1>3 DEF Accesses
<1>5. ASSUME NEW i \in DOMAIN steps, NEW j \in DOMAIN steps, i # j,
             todo'[t][i].do = todo'[t][j].do, todo'[t][i].on = todo'[t][j].on
      PROVE  FALSE
  <2>1. steps[i][1] = steps[j][1] /\ at[t][steps[i][2]] = at[t][steps[j][2]]
    BY <1>1, <1>5
  <2>2. steps[i][2] = steps[j][2]
    BY <2>1 DEF RolesDiffer
  <2>3. steps[i] = steps[j]
    BY <1>4, <2>1, <2>2
  <2> QED
    BY <1>5, <2>3 DEF GoodSteps
<1>6. ASSUME NEW r \in Role, NEW d, NEW l, l = at[t][r], Includes(steps, d, r)
      PROVE  ToDo(t, d, l)'
  <2>1. PICK i \in DOMAIN steps : steps[i] = <<d, r>>
    BY <1>6 DEF Includes
  <2>2. todo'[t][i].do = d /\ todo'[t][i].on = l
    BY <1>1, <1>6, <2>1
  <2> QED
    BY <1>1, <2>2 DEF ToDo
<1>7. ASSUME NEW l, NEW d, ToDo(t, d, l)'
      PROVE  \E r \in Role : l = at[t][r] /\ Includes(steps, d, r)
  <2>1. PICK i \in DOMAIN todo'[t] : todo'[t][i].do = d /\ todo'[t][i].on = l
    BY <1>7 DEF ToDo
  <2>2. i \in DOMAIN steps /\ steps[i] = <<d, steps[i][2]>> /\ l = at[t][steps[i][2]]
        /\ steps[i][2] \in Role
    BY <1>1, <1>4, <2>1
  <2> QED
    BY <2>2 DEF Includes
<1>8. \A i, j \in DOMAIN todo'[t] :
         i < j /\ todo'[t][i].do = "obsolete" => todo'[t][j].do = "obsolete"
  BY <1>1 DEF GoodSteps
<1> QED
  BY <1>1, <1>5, <1>6, <1>7, <1>8

(***************************************************************************)
(* Steps that touch no lock word.                                          *)
(***************************************************************************)
\* The thread is in no write section after the step and owns nothing new.
LEMMA QuietStep ==
    ASSUME LockInv, NEW t \in Thread, Others(t), word' = word,
           LockTypes', Versions(t)', Lists(t)', pc'[t] \notin Commits,
           \A l \in Lock : Owns(t, l)' => Owns(t, l)
    PROVE  LockInv'
<1>1. Guarding(t)'
  BY DEF Guarding
<1>2. \A l \in Lock : WordStep(t, l)
  BY DEF WordStep
<1>3. \A l \in Lock : Owns(t, l)' => word'[l] % 4 = 2
  BY DEF LockInv, Ownership
<1>4. \A l \in Lock : ~Retired(t, l)'
  BY DEF Retired, Retires, Commits, RemovesChild
<1>5. \A l \in Lock : Mine(t, l)' => Mine(t, l) \/ word[l] % 4 = 0
  BY <1>4 DEF Mine
<1> QED
  BY <1>1, <1>2, <1>3, <1>5, LockStep

\* Outside of write sections a thread holds no guard.
LEMMA NoGuards ==
    ASSUME LockInv, NEW t \in Thread, pc[t] \notin Commits, todo[t] = <<>>
    PROVE  held[t] = <<>> /\ (\A l : ~Mine(t, l)) /\ (\A d, l : ~ToDo(t, d, l))
<1>1. held[t] = <<>>
  BY DEF LockInv, Lists
<1>2. \A d, l : ~ToDo(t, d, l)
  BY DEF ToDo
<1>3. \A l : ~Owns(t, l)
  BY <1>1, <1>2 DEF Owns, Holds
<1>4. \A l : ~Retired(t, l)
  BY DEF Retired, Retires, Commits, RemovesChild
<1> QED
  BY <1>1, <1>2, <1>3, <1>4 DEF Mine

\* A thread goes on with nothing to do.
LEMMA NoListStep ==
    ASSUME LockInv, NEW t \in Thread, Others(t), word' = word,
           pc[t] \notin Commits, todo[t] = <<>>,
           LockTypes', todo' = todo, held' = held,
           \A r \in Role : Past(at[t][r], ver[t][r])',
           pc'[t] \in {"idle", "root_lock", "load_root", "lock_node"} => ver'[t]["node"] = 0,
           pc'[t] \notin Commits \cup {"at_child", "return"} => ver'[t]["child"] = 0,
           pc'[t] \in {"idle", "root_lock", "load_root"} => at'[t] = Nowhere,
           pc'[t] \notin Commits
    PROVE  LockInv'
<1>1. held'[t] = <<>> /\ todo'[t] = <<>>
  BY NoGuards
<1>2. Versions(t)'
  BY <1>1 DEF Versions
<1>3. Lists(t)'
  BY <1>1 DEF Lists
<1>4. \A l \in Lock : ~Owns(t, l)'
  BY <1>1 DEF Owns, Holds, ToDo
<1> QED
  BY <1>2, <1>3, <1>4, QuietStep

\* A thread goes on with a list of checks.
LEMMA ChecksStep ==
    ASSUME LockInv, NEW t \in Thread, Others(t), word' = word,
           pc[t] \notin Commits, todo[t] = <<>>,
           NEW steps, GoodSteps(steps), OnlyChecks(steps), Plan(t, steps), RolesDiffer(t, steps),
           LockTypes', held' = held,
           \A r \in Role : Past(at[t][r], ver[t][r])',
           pc'[t] \in {"idle", "root_lock", "load_root", "lock_node"} => ver'[t]["node"] = 0,
           pc'[t] \notin Commits \cup {"at_child", "return"} => ver'[t]["child"] = 0,
           pc'[t] \in {"idle", "root_lock", "load_root"} => at'[t] = Nowhere,
           pc'[t] \notin Commits \cup {"idle", "load_root", "find_child", "at_child"},
           op'[t] = "get" /\ pc'[t] = "at_node" =>
              /\ Len(steps) = 1 /\ steps[1] = <<"check", "parent">>
              /\ at'[t]["parent"] = at[t]["parent"] /\ ver'[t]["parent"] = ver[t]["parent"]
    PROVE  LockInv'
<1>0. LockTypes /\ Versions(t) /\ Lists(t)
  BY DEF LockInv
<1>1. held'[t] = <<>>
  BY NoGuards
<1>2. /\ todo' \in [Thread -> Seq(Entry)]
      /\ DOMAIN todo'[t] = DOMAIN steps
      /\ DOMAIN steps = 1 .. Len(steps) /\ Len(steps) \in Nat /\ Len(todo'[t]) = Len(steps)
      /\ \A i \in DOMAIN steps : /\ todo'[t][i].do = steps[i][1]
                                 /\ todo'[t][i].on = at[t][steps[i][2]]
                                 /\ todo'[t][i].ver = ver[t][steps[i][2]]
      /\ \A i \in DOMAIN steps : steps[i][2] \in Role
  BY <1>0, PlanIs
<1>3. \A i \in DOMAIN todo'[t] : todo'[t][i].do = "check"
  BY <1>2 DEF OnlyChecks
<1>4. ASSUME NEW i \in DOMAIN todo'[t] PROVE Past(todo[t][i].on, todo[t][i].ver)'
  <2>1. PICK r \in Role : todo'[t][i].on = at[t][r] /\ todo'[t][i].ver = ver[t][r]
    BY <1>2
  <2>2. Past(at[t][r], ver[t][r])
    BY <1>0 DEF Versions
  <2> QED
    BY <2>1, <2>2 DEF Past
<1>5. Versions(t)'
  BY <1>4 DEF Versions
<1>6. op'[t] = "get" /\ pc'[t] = "at_node" =>
         /\ Len(todo'[t]) = 1
         /\ todo'[t][1] = [do |-> "check", on |-> at'[t]["parent"], ver |-> ver'[t]["parent"]]
  <2> SUFFICES ASSUME op'[t] = "get", pc'[t] = "at_node"
               PROVE  /\ Len(todo'[t]) = 1
                      /\ todo'[t][1] = [do |-> "check", on |-> at'[t]["parent"],
                                        ver |-> ver'[t]["parent"]]
    OBVIOUS
  <2>1. Len(steps) = 1 /\ steps[1] = <<"check", "parent">> /\ 1 \in DOMAIN steps
    BY <1>2
  <2>2. /\ todo'[t][1].do = "check" /\ todo'[t][1].on = at'[t]["parent"]
        /\ todo'[t][1].ver = ver'[t]["parent"]
    BY <1>2, <2>1
  <2>3. todo'[t] \in Seq(Entry)
    BY <1>2
  <2>4. todo'[t][1] \in Entry
    <3>1. PICK q : q = todo'[t]
      OBVIOUS
    <3>2. q \in Seq(Entry) /\ Len(q) = 1
      BY <1>2, <2>1, <2>3, <3>1
    <3>3. q[1] \in Entry
      BY <3>2, ElementOfSeq
    <3> QED
      BY <3>1, <3>3
  <2> QED
    BY <1>2, <2>1, <2>2, <2>4 DEF Entry
<1>7. \A i, j \in DOMAIN todo'[t] :
         i # j => todo'[t][i].do # todo'[t][j].do \/ todo'[t][i].on # todo'[t][j].on
  BY <1>0, PlanLists
<1>8. Lists(t)'
  BY <1>1, <1>3, <1>6, <1>7 DEF Lists
<1>9. \A l \in Lock : ~Owns(t, l)'
  BY <1>1, <1>3 DEF Owns, Holds, ToDo
<1> QED
  BY <1>5, <1>8, <1>9, QuietStep

\* A thread goes on to a commit.
LEMMA CommitStep ==
    ASSUME LockInv, NEW t \in Thread, Others(t), word' = word,
           pc[t] \notin Commits, todo[t] = <<>>,
           NEW steps, GoodSteps(steps), Plan(t, steps), RolesDiffer(t, steps),
           Prepares(pc'[t], steps),
           LockTypes', held' = held, at' = at, ver' = ver,
           at[t]["parent"] # at[t]["node"] \/ pc'[t] = "insert_root",
           pc'[t] \in RemovesChild => /\ at[t]["child"] # at[t]["node"]
                                      /\ at[t]["child"] # at[t]["parent"]
    PROVE  LockInv'
<1>0. LockTypes /\ Versions(t) /\ Lists(t) /\ pc'[t] \in Commits
  BY DEF LockInv, Prepares
<1>1. held'[t] = <<>>
  BY NoGuards
<1>2. /\ DOMAIN todo'[t] = DOMAIN steps
      /\ \A i \in DOMAIN steps : /\ todo'[t][i].do = steps[i][1]
                                 /\ todo'[t][i].on = at[t][steps[i][2]]
                                 /\ todo'[t][i].ver = ver[t][steps[i][2]]
      /\ \A i \in DOMAIN steps : steps[i][2] \in Role
  BY <1>0, PlanIs
<1>3. /\ \A i, j \in DOMAIN todo'[t] :
           i # j => todo'[t][i].do # todo'[t][j].do \/ todo'[t][i].on # todo'[t][j].on
      /\ \A i, j \in DOMAIN todo'[t] :
           i < j /\ todo'[t][i].do = "obsolete" => todo'[t][j].do = "obsolete"
      /\ \A i \in DOMAIN todo'[t] : todo'[t][i].do # "unlock"
      /\ \A r \in Role : \A d, l : l = at[t][r] /\ Includes(steps, d, r) => ToDo(t, d, l)'
      /\ \A l, d : ToDo(t, d, l)' => \E r \in Role : l = at[t][r] /\ Includes(steps, d, r)
  BY <1>0, PlanLists
<1>4. ASSUME NEW i \in DOMAIN todo'[t] PROVE Past(todo[t][i].on, todo[t][i].ver)'
  <2>1. PICK r \in Role : todo'[t][i].on = at[t][r] /\ todo'[t][i].ver = ver[t][r]
    BY <1>2
  <2>2. Past(at[t][r], ver[t][r])
    BY <1>0 DEF Versions
  <2> QED
    BY <2>1, <2>2 DEF Past
<1>5. Versions(t)'
  <2>1. \A r \in Role : Past(at[t][r], ver[t][r])'
    BY <1>0 DEF Versions, Past
  <2> QED
    BY <1>0, <1>4, <2>1 DEF Versions, Commits
<1>6. Lists(t)'
  BY <1>0, <1>1, <1>3 DEF Lists, Commits
<1>7. \A l : ~Holds(t, l)' /\ ~Owns(t, l)'
  BY <1>1, <1>3 DEF Holds, Owns, ToDo
<1>8. \A l : ~Retired(t, l)'
  <2> SUFFICES ASSUME NEW l, Retired(t, l)' PROVE FALSE
    OBVIOUS
  <2>1. PICK r \in Role : Retires(pc'[t], r) /\ l = at[t][r] /\ ~ToDo(t, "obsolete", l)'
    BY DEF Retired
  <2>2. Includes(steps, "obsolete", r)
    BY <2>1 DEF Prepares
  <2> QED
    BY <1>3, <2>1, <2>2
<1>9. Guarding(t)'
  <2>1. ASSUME NEW r \in Role, Guards(pc'[t], r)
        PROVE  (ToDo(t, "upgrade", at[t][r]) \/ Holds(t, at[t][r]) \/ Retired(t, at[t][r]))'
    <3>1. PICK l : l = at[t][r]
      OBVIOUS
    <3>2. ToDo(t, "upgrade", l)'
      BY <1>3, <2>1, <3>1 DEF Prepares
    <3> QED
      BY <3>1, <3>2 DEF ToDo
  <2>2. ASSUME NEW l \in Lock, ToDo(t, "obsolete", l)'
        PROVE  /\ ToDo(t, "upgrade", l)' \/ Holds(t, l)'
               /\ \E r \in Role : Retires(pc'[t], r) /\ l = at'[t][r]
    <3>1. PICK r \in Role : l = at[t][r] /\ Includes(steps, "obsolete", r)
      BY <1>3, <2>2
    <3>2. Retires(pc'[t], r)
      BY <3>1 DEF Prepares
    <3>3. Guards(pc'[t], r)
      BY <1>0, <3>2 DEF Retires, Guards, Commits, RemovesChild
    <3>4. ToDo(t, "upgrade", l)'
      BY <1>3, <3>1, <3>3 DEF Prepares
    <3> QED
      BY <3>1, <3>2, <3>4
  <2>4. ASSUME NEW l \in Lock, ToDo(t, "upgrade", l)'
        PROVE  \E r \in Role : Guards(pc'[t], r) /\ l = at'[t][r]
    <3>1. PICK r \in Role : l = at[t][r] /\ Includes(steps, "upgrade", r)
      BY <1>3, <2>4
    <3> QED
      BY <3>1 DEF Prepares
  <2>3. /\ at'[t]["parent"] # at'[t]["node"] \/ pc'[t] = "insert_root"
        /\ pc'[t] \in RemovesChild => /\ at'[t]["child"] # at'[t]["node"]
                                      /\ at'[t]["child"] # at'[t]["parent"]
    OBVIOUS
  <2> QED
    BY <1>7, <1>8, <2>1, <2>2, <2>3, <2>4 DEF Guarding
<1>10. \A l \in Lock : WordStep(t, l)
  BY DEF WordStep
<1>11. \A l \in Lock : Mine(t, l)' => Mine(t, l) \/ word[l] % 4 = 0
  BY <1>7, <1>8 DEF Mine
<1> QED
  BY <1>5, <1>6, <1>7, <1>9, <1>10, <1>11, LockStep

(***************************************************************************)
(* The next entry of a list is done.                                       *)
(***************************************************************************)
\* e is the first entry of the list of t; the rest of the list remains.
Consumes(t, e) ==
    /\ todo[t] # <<>> /\ e = todo[t][1] /\ 1 \in DOMAIN todo[t] /\ e \in Entry
    /\ todo' \in [Thread -> Seq(Entry)]
    /\ Len(todo'[t]) = Len(todo[t]) - 1 /\ Len(todo[t]) \in Nat
    /\ DOMAIN todo'[t] = 1 .. Len(todo[t]) - 1 /\ DOMAIN todo[t] = 1 .. Len(todo[t])
    /\ \A i \in DOMAIN todo'[t] : i + 1 \in DOMAIN todo[t] /\ todo'[t][i] = todo[t][i + 1]
    /\ \A i \in DOMAIN todo[t] : i # 1 => i - 1 \in DOMAIN todo'[t] /\ todo'[t][i - 1] = todo[t][i]

\* Taking the first entry off a list.
LEMMA ConsumeIs ==
    ASSUME LockTypes, NEW t \in Thread, todo[t] # <<>>, Done(t), NEW e, e = Head(todo[t])
    PROVE  Consumes(t, e) /\ \A u \in Thread \ {t} : todo'[u] = todo[u]
<1>1. todo \in [Thread -> Seq(Entry)]
  BY DEF LockTypes
<1>2. PICK q : q = todo[t]
  OBVIOUS
<1>3. PICK q2 : q2 = Tail(q)
  OBVIOUS
<1>4. q \in Seq(Entry) /\ q # <<>>
  BY <1>1, <1>2
<1>5. /\ Len(q) \in Nat /\ DOMAIN q = 1 .. Len(q) /\ Len(q) > 0
  BY <1>4, LenProperties, EmptySeq
<1>6. /\ q2 \in Seq(Entry) /\ Len(q2) = Len(q) - 1
      /\ \A i \in 1 .. Len(q2) : q2[i] = q[i + 1]
  BY ONLY <1>3, <1>4, HeadTailProperties
<1>7. DOMAIN q2 = 1 .. Len(q) - 1
  BY <1>6, LenProperties
<1>8. e = q[1] /\ e \in Entry
  BY <1>2, <1>4, HeadTailProperties
<1>9. todo' = [todo EXCEPT ![t] = q2]
  BY <1>2, <1>3 DEF Done
<1>10. todo'[t] = q2 /\ todo' \in [Thread -> Seq(Entry)] /\ \A u \in Thread \ {t} : todo'[u] = todo[u]
  BY <1>1, <1>6, <1>9
<1>11. \A i \in DOMAIN q2 : i + 1 \in DOMAIN q /\ q2[i] = q[i + 1]
  BY ONLY <1>5, <1>6, <1>7
<1>12. \A i \in DOMAIN q : i # 1 => i - 1 \in DOMAIN q2 /\ q2[i - 1] = q[i]
  <2> SUFFICES ASSUME NEW i \in DOMAIN q, i # 1
               PROVE  i - 1 \in DOMAIN q2 /\ q2[i - 1] = q[i]
    OBVIOUS
  <2>1. i - 1 \in DOMAIN q2 /\ (i - 1) + 1 = i
    BY <1>5, <1>7
  <2> QED
    BY <1>11, <2>1
<1>13. 1 \in DOMAIN q
  BY <1>5
<1> QED
  BY <1>2, <1>4, <1>5, <1>6, <1>7, <1>8, <1>10, <1>11, <1>12, <1>13 DEF Consumes

\* What is left to do.
LEMMA ToDoLeft ==
    ASSUME NEW t \in Thread, Lists(t), NEW e, Consumes(t, e)
    PROVE  /\ \A d, l : ToDo(t, d, l)' <=> ToDo(t, d, l) /\ (d # e.do \/ l # e.on)
           /\ ToDo(t, e.do, e.on)
<1>1. ASSUME NEW d, NEW l, ToDo(t, d, l)'
      PROVE  ToDo(t, d, l) /\ (d # e.do \/ l # e.on)
  <2>1. PICK i \in DOMAIN todo'[t] : todo'[t][i].do = d /\ todo'[t][i].on = l
    BY <1>1 DEF ToDo
  <2>2. i + 1 \in DOMAIN todo[t] /\ todo'[t][i] = todo[t][i + 1]
    BY DEF Consumes
  <2>3. i + 1 # 1
    BY DEF Consumes
  <2>4. 1 \in DOMAIN todo[t] /\ e = todo[t][1]
    BY DEF Consumes
  <2>5. todo[t][i + 1].do # todo[t][1].do \/ todo[t][i + 1].on # todo[t][1].on
    BY <2>2, <2>3, <2>4 DEF Lists
  <2>6. d # e.do \/ l # e.on
    BY <2>1, <2>2, <2>4, <2>5
  <2> QED
    BY <2>1, <2>2, <2>6 DEF ToDo
<1>2. ASSUME NEW d, NEW l, ToDo(t, d, l), d # e.do \/ l # e.on
      PROVE  ToDo(t, d, l)'
  <2>1. PICK i \in DOMAIN todo[t] : todo[t][i].do = d /\ todo[t][i].on = l
    BY <1>2 DEF ToDo
  <2>2. i # 1
    BY <1>2, <2>1 DEF Consumes
  <2>3. i - 1 \in DOMAIN todo'[t] /\ todo'[t][i - 1] = todo[t][i]
    BY <2>2 DEF Consumes
  <2> QED
    BY <2>1, <2>3 DEF ToDo
<1>3. ToDo(t, e.do, e.on)
  BY DEF ToDo, Consumes
<1> QED
  BY <1>1, <1>2, <1>3

\* The rest of a list is in order where the list is.
LEMMA ListsLeft ==
    ASSUME LockTypes, NEW t \in Thread, Lists(t), NEW e, Consumes(t, e),
           pc' = pc, op' = op,
           \A i, j \in DOMAIN held'[t] : i # j => held'[t][i] # held'[t][j],
           held'[t] # <<>> => pc[t] \in Commits
    PROVE  Lists(t)'
<1>1. \A i \in DOMAIN todo'[t] : i \in Int /\ i + 1 \in DOMAIN todo[t] /\ todo'[t][i] = todo[t][i + 1]
  BY DEF Consumes
<1>2. \A i, j \in DOMAIN todo'[t] :
         i # j => todo'[t][i].do # todo'[t][j].do \/ todo'[t][i].on # todo'[t][j].on
  <2> SUFFICES ASSUME NEW i \in DOMAIN todo'[t], NEW j \in DOMAIN todo'[t], i # j
               PROVE  todo'[t][i].do # todo'[t][j].do \/ todo'[t][i].on # todo'[t][j].on
    OBVIOUS
  <2>1. i + 1 # j + 1
    BY <1>1
  <2> QED
    BY <1>1, <2>1 DEF Lists
<1>3. \A i, j \in DOMAIN todo'[t] :
         i < j /\ todo'[t][i].do = "obsolete" => todo'[t][j].do = "obsolete"
  <2> SUFFICES ASSUME NEW i \in DOMAIN todo'[t], NEW j \in DOMAIN todo'[t], i < j,
                      todo'[t][i].do = "obsolete"
               PROVE  todo'[t][j].do = "obsolete"
    OBVIOUS
  <2>1. i + 1 < j + 1
    BY <1>1
  <2> QED
    BY <1>1, <2>1 DEF Lists
<1>4. \A i \in DOMAIN todo'[t] :
         /\ todo'[t][i].do \in {"upgrade", "obsolete"} => pc'[t] \in Commits
         /\ todo'[t][i].do = "unlock" => pc'[t] \in {"root_lock", "return"}
  BY <1>1 DEF Lists
<1>5. todo[t] # <<>>
  BY DEF Consumes
<1>6. pc'[t] \notin {"idle", "load_root", "find_child", "at_child"}
  BY <1>5 DEF Lists
<1>7. op'[t] = "get" /\ pc'[t] = "at_node" => todo'[t] = <<>>
  <2> SUFFICES ASSUME op[t] = "get", pc[t] = "at_node" PROVE todo'[t] = <<>>
    OBVIOUS
  <2>1. Len(todo[t]) = 1
    BY <1>5 DEF Lists
  <2>2. todo'[t] \in Seq(Entry) /\ Len(todo'[t]) = 0
    BY <2>1 DEF Consumes
  <2> QED
    BY <2>2, EmptySeq
<1> QED
  BY <1>2, <1>3, <1>4, <1>6, <1>7 DEF Lists

\* Versions in the rest of a list are past.
LEMMA VersionsLeft ==
    ASSUME LockTypes, Ownership, NEW t \in Thread, Versions(t), NEW e, Consumes(t, e),
           pc' = pc, at' = at, ver' = ver, \A l \in Lock : WordStep(t, l)
    PROVE  Versions(t)'
<1>1. ASSUME NEW r \in Role PROVE Past(at[t][r], ver[t][r])'
  <2>1. PICK l, v : l = at[t][r] /\ v = ver[t][r]
    OBVIOUS
  <2>2. l \in Lock /\ v \in Nat /\ Past(l, v)
    BY <2>1 DEF LockTypes, Versions
  <2>3. Past(l, v)'
    BY <2>2, PastKept
  <2> QED
    BY <2>1, <2>3 DEF Past
<1>2. ASSUME NEW i \in DOMAIN todo'[t], todo'[t][i].do \in {"check", "upgrade"}
      PROVE  Past(todo[t][i].on, todo[t][i].ver)'
  <2>1. PICK x : x = todo'[t][i]
    OBVIOUS
  <2>2. PICK j \in DOMAIN todo[t] : x = todo[t][j]
    BY <2>1 DEF Consumes
  <2>3. PICK l, v : l = x.on /\ v = x.ver
    OBVIOUS
  <2>4. todo[t] \in Seq(Entry)
    BY DEF LockTypes
  <2>5. x \in Entry
    BY <2>2, <2>4
  <2>6. l \in Lock /\ v \in Nat /\ Past(l, v)
    BY <1>2, <2>1, <2>2, <2>3, <2>5 DEF Entry, Versions
  <2>7. Past(l, v)'
    BY <2>6, PastKept
  <2> QED
    BY <2>1, <2>3, <2>7 DEF Past
<1> QED
  BY <1>1, <1>2 DEF Versions

\* A step of t that only does the next entry of its list, and changes at most its lock.
LEMMA ConsumeTypes ==
    ASSUME LockTypes, NEW t \in Thread, NEW e, Consumes(t, e),
           UNCHANGED <<op, key, depth, result, seen, pc, at, ver>>,
           \A u \in Thread \ {t} : todo'[u] = todo[u] /\ held'[u] = held[u],
           held' \in [Thread -> Seq(Lock)],
           word' \in [Lock -> Nat],
           \A l \in Lock : word'[l] % 4 \in {0, 2} \/ is_obsolete(word'[l]),
           ~is_obsolete(word'[Nil])
    PROVE  LockTypes' /\ Others(t)
<1>1. todo' \in [Thread -> Seq(Entry)]
  BY DEF Consumes
<1> QED
  BY <1>1 DEF LockTypes, Others

\* What the four accesses have in common.
LockAccess(t, e) ==
    /\ Consumes(t, e) /\ Others(t)
    /\ UNCHANGED <<root, nodes, map, seen, torn, op, key, pc, depth, at, ver, result>>
    /\ \A l \in Lock : WordStep(t, l)
    /\ \A l \in Lock : l # e.on => word'[l] = word[l]
    /\ is_obsolete(word'[e.on]) => is_obsolete(word[e.on]) \/ Retired(t, e.on)'
    /\ e.do \in {"check", "upgrade"} => word[e.on] = e.ver
    /\ \A l : Holds(t, l)' => Holds(t, l) \/ l = e.on

\* Each access on a list, and each step that leaves an operation, keeps the lock part of
\* the invariant: a check first.
LEMMA CheckLocks ==
    ASSUME LockInv, NEW t \in Thread, check(t)
    PROVE  LockInv' /\ \E e : LockAccess(t, e)
<1>0. LockTypes /\ Ownership /\ Versions(t) /\ Lists(t) /\ Guarding(t)
  BY DEF LockInv
<1>1. PICK e : e = Head(todo[t])
  OBVIOUS
<1>2. todo[t] # <<>> /\ e.do = "check" /\ Done(t)
      /\ UNCHANGED <<word, op, key, depth, result, seen, pc, at, ver, held>>
  BY <1>1 DEF check, Must, historyVars, opVars, rcsVars
<1>3. Consumes(t, e) /\ \A u \in Thread \ {t} : todo'[u] = todo[u]
  BY <1>0, <1>1, <1>2, ConsumeIs
<1>4. LockTypes' /\ Others(t)
  <2>1. held' \in [Thread -> Seq(Lock)] /\ word' \in [Lock -> Nat]
        /\ (\A l \in Lock : word'[l] % 4 \in {0, 2} \/ is_obsolete(word'[l]))
        /\ ~is_obsolete(word'[Nil])
        /\ \A u \in Thread \ {t} : todo'[u] = todo[u] /\ held'[u] = held[u]
    BY <1>0, <1>2, <1>3 DEF LockTypes
  <2> QED
    BY <1>0, <1>2, <1>3, <2>1, ConsumeTypes
<1>5. \A l \in Lock : WordStep(t, l)
  BY <1>2 DEF WordStep
<1>6. Versions(t)'
  BY <1>0, <1>2, <1>3, <1>5, VersionsLeft
<1>7. Lists(t)'
  <2>1. /\ \A i, j \in DOMAIN held'[t] : i # j => held'[t][i] # held'[t][j]
        /\ held'[t] # <<>> => pc[t] \in Commits
    BY <1>0, <1>2 DEF Lists
  <2> QED
    BY <1>0, <1>2, <1>3, <2>1, ListsLeft
<1>8. \A d, l : d # "check" => (ToDo(t, d, l)' <=> ToDo(t, d, l))
  BY <1>0, <1>2, <1>3, ToDoLeft
<1>9. \A l : Holds(t, l)' <=> Holds(t, l)
  BY <1>2 DEF Holds
<1>10. \A l : Retired(t, l)' <=> Retired(t, l)
  BY <1>2, <1>8 DEF Retired
<1>11. \A l : (Owns(t, l)' <=> Owns(t, l)) /\ (Mine(t, l)' <=> Mine(t, l))
  BY <1>8, <1>9, <1>10 DEF Owns, Mine
<1>12. Guarding(t)'
  <2>0. CASE pc[t] \notin Commits
    BY <1>2, <2>0 DEF Guarding
  <2>1. CASE pc[t] \in Commits
    <3>1. ASSUME NEW r \in Role, Guards(pc'[t], r)
          PROVE  (ToDo(t, "upgrade", at[t][r]) \/ Holds(t, at[t][r]) \/ Retired(t, at[t][r]))'
      <4>1. PICK l : l = at[t][r]
        OBVIOUS
      <4>2. ToDo(t, "upgrade", l) \/ Holds(t, l) \/ Retired(t, l)
        BY <1>0, <1>2, <2>1, <3>1, <4>1 DEF Guarding
      <4>3. ToDo(t, "upgrade", l)' \/ Holds(t, l)' \/ Retired(t, l)'
        BY <1>8, <1>9, <1>10, <4>2
      <4> QED
        BY <1>2, <4>1, <4>3 DEF ToDo, Holds, Retired
    <3>2. \A l \in Lock : Holds(t, l)' => /\ \E r \in Role : Guards(pc'[t], r) /\ l = at'[t][r]
                                          /\ ~ToDo(t, "upgrade", l)'
                                          /\ ~Retired(t, l)'
      BY <1>0, <1>2, <1>8, <1>9, <1>10, <2>1 DEF Guarding
    <3>3. \A l \in Lock : ToDo(t, "obsolete", l)' =>
            /\ ToDo(t, "upgrade", l)' \/ Holds(t, l)'
            /\ \E r \in Role : Retires(pc'[t], r) /\ l = at'[t][r]
      BY <1>0, <1>2, <1>8, <1>9, <2>1 DEF Guarding
    <3>7. \A l \in Lock : ToDo(t, "upgrade", l)' => \E r \in Role : Guards(pc'[t], r) /\ l = at'[t][r]
      BY <1>0, <1>2, <1>8, <2>1 DEF Guarding
    <3>4. \A l \in Lock : Retired(t, l)' => is_obsolete(word'[l])
      BY <1>0, <1>2, <1>10, <2>1 DEF Guarding
    <3>5. \A l \in Lock : ~Retired(t, l)'
      <4>1. 1 \in DOMAIN todo[t] /\ todo[t][1].do # "obsolete"
        BY <1>2, <1>3 DEF Consumes
      <4>2. \A l \in Lock : ~Retired(t, l)
        BY <1>0, <2>1, <4>1 DEF Guarding
      <4> QED
        BY <1>10, <4>2
    <3>6. /\ at'[t]["parent"] # at'[t]["node"] \/ pc'[t] = "insert_root"
          /\ pc'[t] \in RemovesChild => /\ at'[t]["child"] # at'[t]["node"]
                                        /\ at'[t]["child"] # at'[t]["parent"]
      BY <1>0, <1>2, <2>1 DEF Guarding
    <3> QED
      BY <3>1, <3>2, <3>3, <3>4, <3>5, <3>6, <3>7 DEF Guarding
  <2> QED
    BY <2>0, <2>1
<1>13. \A l \in Lock : Owns(t, l)' => word'[l] % 4 = 2
  BY <1>0, <1>2, <1>11 DEF Ownership
<1>14. LockInv'
  BY <1>4, <1>5, <1>6, <1>7, <1>11, <1>12, <1>13, LockStep
<1>15. word[e.on] = e.ver /\ UNCHANGED <<root, nodes, map, torn>>
  BY <1>1 DEF check, SameVersion, treeVars, historyVars
<1>16. LockAccess(t, e)
  BY <1>2, <1>3, <1>4, <1>5, <1>9, <1>15 DEF LockAccess
<1> QED
  BY <1>14, <1>16

\* An upgrade, which takes a lock no thread owns.
LEMMA UpgradeLocks ==
    ASSUME LockInv, NEW t \in Thread, try_upgrade_to_write_lock(t)
    PROVE  LockInv' /\ \E e : LockAccess(t, e)
<1>0. LockTypes /\ Ownership /\ Versions(t) /\ Lists(t) /\ Guarding(t)
  BY DEF LockInv
<1>1. PICK e : e = Head(todo[t])
  OBVIOUS
<1>q. PICK q : q = held[t]
  OBVIOUS
<1>2. /\ todo[t] # <<>> /\ e.do = "upgrade" /\ Done(t)
      /\ word[e.on] = e.ver /\ word' = [word EXCEPT ![e.on] = word[e.on] + 2]
      /\ held' = [held EXCEPT ![t] = Append(q, e.on)]
      /\ UNCHANGED <<op, key, depth, result, seen, pc, at, ver>>
  BY <1>1, <1>q DEF try_upgrade_to_write_lock, Must, SameVersion, SetWord, historyVars, opVars, rcsVars
<1>3. Consumes(t, e) /\ \A u \in Thread \ {t} : todo'[u] = todo[u]
  BY <1>0, <1>1, <1>2, ConsumeIs
<1>4. e.on \in Lock /\ e.ver \in Nat /\ 1 \in DOMAIN todo[t] /\ todo[t][1] = e
  BY <1>3 DEF Consumes, Entry
<1>5. Past(e.on, e.ver) /\ pc[t] \in Commits
  BY <1>0, <1>2, <1>4 DEF Versions, Lists
<1>6. word[e.on] % 4 = 0 /\ word[e.on] \in Nat /\ word \in [Lock -> Nat]
  BY <1>0, <1>2, <1>4, <1>5 DEF Past, LockTypes
<1>7. /\ word' \in [Lock -> Nat] /\ word'[e.on] = word[e.on] + 2
      /\ \A l \in Lock : l # e.on => word'[l] = word[l]
  BY <1>2, <1>4, <1>6
<1>8. word'[e.on] % 4 = 2
  <2>1. PICK w : w = word[e.on]
    OBVIOUS
  <2>2. w \in Nat /\ w % 4 = 0
    BY <1>6, <2>1
  <2>3. (w + 2) % 4 = 2
    BY ONLY <2>2
  <2> QED
    BY <1>7, <2>1, <2>3
<1>9. /\ q \in Seq(Lock) /\ held'[t] = Append(q, e.on)
      /\ held' \in [Thread -> Seq(Lock)]
      /\ \A u \in Thread \ {t} : held'[u] = held[u]
  <2>1. held \in [Thread -> Seq(Lock)] /\ q \in Seq(Lock)
    BY <1>0, <1>q DEF LockTypes
  <2>2. Append(q, e.on) \in Seq(Lock)
    BY <1>4, <2>1, AppendProperties
  <2> QED
    BY <1>2, <2>1, <2>2
<1>10. /\ DOMAIN held'[t] = 1 .. Len(q) + 1 /\ DOMAIN q = 1 .. Len(q) /\ Len(q) \in Nat
       /\ held'[t][Len(q) + 1] = e.on
       /\ \A i \in 1 .. Len(q) : held'[t][i] = q[i]
  <2>1. PICK q2 : q2 = Append(q, e.on)
    OBVIOUS
  <2>2. /\ q2 \in Seq(Lock) /\ Len(q2) = Len(q) + 1
        /\ q2[Len(q) + 1] = e.on
        /\ \A i \in 1 .. Len(q) : q2[i] = q[i]
    BY <1>4, <1>9, <2>1, AppendProperties
  <2>3. DOMAIN q2 = 1 .. Len(q) + 1 /\ DOMAIN q = 1 .. Len(q) /\ Len(q) \in Nat
    BY <1>9, <2>2, LenProperties
  <2> QED
    BY <1>9, <2>1, <2>2, <2>3
<1>11. \A l : Holds(t, l)' <=> Holds(t, l) \/ l = e.on
  <2>1. \A l : Holds(t, l) <=> \E i \in 1 .. Len(q) : q[i] = l
    BY <1>q, <1>10 DEF Holds
  <2>2. \A l : Holds(t, l)' <=> \E i \in 1 .. Len(q) + 1 : held'[t][i] = l
    BY <1>10 DEF Holds
  <2>3. \A i \in 1 .. Len(q) + 1 : i \in 1 .. Len(q) \/ i = Len(q) + 1
    BY ONLY Len(q) \in Nat, <1>10
  <2>4. Len(q) + 1 \in 1 .. Len(q) + 1 /\ 1 .. Len(q) \subseteq 1 .. Len(q) + 1
    BY ONLY <1>10
  <2> QED
    BY <1>10, <2>1, <2>2, <2>3, <2>4
<1>12. \A d, l : ToDo(t, d, l)' <=> ToDo(t, d, l) /\ (d # "upgrade" \/ l # e.on)
  BY <1>0, <1>2, <1>3, ToDoLeft
<1>13. ToDo(t, "upgrade", e.on)
  BY <1>0, <1>2, <1>3, ToDoLeft
<1>14. \A l \in Lock : ~Retired(t, l) /\ ~Retired(t, l)'
  <2>1. \A l \in Lock : ~Retired(t, l)
    BY <1>0, <1>2, <1>4, <1>5 DEF Guarding
  <2>2. \A l : Retired(t, l)' <=> Retired(t, l)
    BY <1>2, <1>12 DEF Retired
  <2> QED
    BY <2>1, <2>2
<1>15. LockTypes' /\ Others(t)
  <2>1. \A l \in Lock : word'[l] % 4 \in {0, 2} \/ is_obsolete(word'[l])
    BY <1>0, <1>7, <1>8 DEF LockTypes
  <2>2. ~is_obsolete(word'[Nil])
    <3>1. CASE e.on = Nil
      BY <1>6, <1>7, <3>1 DEF is_obsolete, obsolete_lock_word
    <3>2. CASE e.on # Nil
      <4>1. Nil \in Lock
        BY BoundAssumption DEF Nil, Lock
      <4> QED
        BY <1>0, <1>7, <3>2, <4>1 DEF LockTypes
    <3> QED
      BY <3>1, <3>2
  <2> QED
    BY <1>0, <1>2, <1>3, <1>7, <1>9, <2>1, <2>2, ConsumeTypes
<1>16. \A l \in Lock : WordStep(t, l)
  BY <1>6, <1>7 DEF WordStep
<1>17. Versions(t)'
  BY <1>0, <1>2, <1>3, <1>16, VersionsLeft
<1>18. Lists(t)'
  <2>1. ~Holds(t, e.on)
    BY <1>0, <1>4, <1>5, <1>13 DEF Guarding
  <2>2. \A i \in 1 .. Len(q) : q[i] # e.on
    BY <1>q, <1>10, <2>1 DEF Holds
  <2>3. \A i, j \in 1 .. Len(q) : i # j => q[i] # q[j]
    BY <1>0, <1>q, <1>10 DEF Lists
  <2>4. \A i \in DOMAIN held'[t] : i \in 1 .. Len(q) \/ i = Len(q) + 1
    BY ONLY <1>10
  <2>5. \A i, j \in DOMAIN held'[t] : i # j => held'[t][i] # held'[t][j]
    BY <1>10, <2>2, <2>3, <2>4
  <2> QED
    BY <1>0, <1>2, <1>3, <1>5, <2>5, ListsLeft
<1>19. Guarding(t)'
  <2>1. ASSUME NEW r \in Role, Guards(pc'[t], r)
        PROVE  (ToDo(t, "upgrade", at[t][r]) \/ Holds(t, at[t][r]) \/ Retired(t, at[t][r]))'
    <3>1. PICK l : l = at[t][r]
      OBVIOUS
    <3>2. l \in Lock
      BY <1>0, <3>1 DEF LockTypes
    <3>3. ToDo(t, "upgrade", l) \/ Holds(t, l)
      BY <1>0, <1>2, <1>5, <1>14, <2>1, <3>1, <3>2 DEF Guarding
    <3>4. ToDo(t, "upgrade", l)' \/ Holds(t, l)'
      BY <1>11, <1>12, <3>3
    <3> QED
      BY <1>2, <3>1, <3>4 DEF ToDo, Holds
  <2>2. ASSUME NEW l \in Lock, Holds(t, l)'
        PROVE  (\E r \in Role : Guards(pc'[t], r) /\ l = at'[t][r]) /\ ~ToDo(t, "upgrade", l)'
    <3>1. CASE l = e.on
      <4>1. ~ToDo(t, "upgrade", l)'
        BY <1>12, <3>1
      <4>2. \E r \in Role : Guards(pc[t], r) /\ l = at[t][r]
        BY <1>0, <1>5, <1>13, <3>1 DEF Guarding
      <4> QED
        BY <1>2, <4>1, <4>2
    <3>2. CASE l # e.on
      BY <1>0, <1>2, <1>5, <1>11, <1>12, <2>2, <3>2 DEF Guarding
    <3> QED
      BY <3>1, <3>2
  <2>3. \A l \in Lock : ToDo(t, "obsolete", l)' =>
            /\ ToDo(t, "upgrade", l)' \/ Holds(t, l)'
            /\ \E r \in Role : Retires(pc'[t], r) /\ l = at'[t][r]
    BY <1>0, <1>2, <1>5, <1>11, <1>12 DEF Guarding
  <2>5. \A l \in Lock : ToDo(t, "upgrade", l)' => \E r \in Role : Guards(pc'[t], r) /\ l = at'[t][r]
    BY <1>0, <1>2, <1>5, <1>12 DEF Guarding
  <2>4. /\ at'[t]["parent"] # at'[t]["node"] \/ pc'[t] = "insert_root"
        /\ pc'[t] \in RemovesChild => /\ at'[t]["child"] # at'[t]["node"]
                                      /\ at'[t]["child"] # at'[t]["parent"]
    BY <1>0, <1>2, <1>5 DEF Guarding
  <2> QED
    BY <1>14, <2>1, <2>2, <2>3, <2>4, <2>5 DEF Guarding
<1>20. \A l \in Lock : Owns(t, l)' => (Owns(t, l) \/ l = e.on)
  BY <1>11, <1>12 DEF Owns
<1>21. \A l \in Lock : Owns(t, l)' => word'[l] % 4 = 2
  BY <1>0, <1>7, <1>8, <1>20 DEF Ownership
<1>22. \A l \in Lock : Mine(t, l)' => Mine(t, l) \/ word[l] % 4 = 0
  BY <1>6, <1>14, <1>20 DEF Mine
<1>23. LockInv'
  BY <1>15, <1>16, <1>17, <1>18, <1>19, <1>21, <1>22, LockStep
<1>24. UNCHANGED <<root, nodes, map, torn>>
  BY DEF try_upgrade_to_write_lock, treeVars, historyVars
<1>25. ~is_obsolete(word'[e.on])
  BY <1>8 DEF is_obsolete, obsolete_lock_word
<1>26. LockAccess(t, e)
  BY <1>2, <1>3, <1>7, <1>11, <1>15, <1>16, <1>24, <1>25 DEF LockAccess
<1> QED
  BY <1>23, <1>26

\* A sequence of distinct locks without its i-th.
Without(q, i) == SubSeq(q, 1, i - 1) \o SubSeq(q, i + 1, Len(q))
\* l occurs in q.
Has(q, l) == \E j \in DOMAIN q : q[j] = l
\* No lock occurs twice in q.
Distinct(q) == \A j, k \in DOMAIN q : j # k => q[j] # q[k]

\* Taking one element out of a list of different locks.
LEMMA RemoveOne ==
    ASSUME NEW q \in Seq(Lock), NEW i \in DOMAIN q, Distinct(q)
    PROVE  /\ Without(q, i) \in Seq(Lock) /\ Distinct(Without(q, i))
           /\ \A l : Has(Without(q, i), l) <=> Has(q, l) /\ l # q[i]
<1>0. PICK q2 : q2 = Without(q, i)
  OBVIOUS
<1>1. Len(q) \in Nat /\ DOMAIN q = 1 .. Len(q) /\ \A j \in 1 .. Len(q) : q[j] \in Lock
  BY LenProperties
<1>2. PICK a, b : a = SubSeq(q, 1, i - 1) /\ b = SubSeq(q, i + 1, Len(q))
  OBVIOUS
<1>3. /\ a \in Seq(Lock) /\ Len(a) = i - 1 /\ \A j \in 1 .. i - 1 : a[j] = q[j]
  <2>1. \A j \in 1 .. i - 1 : q[j] \in Lock
    BY <1>1
  <2>2. /\ a \in Seq(Lock)
        /\ Len(a) = IF 1 <= i - 1 THEN (i - 1) - 1 + 1 ELSE 0
        /\ \A j \in 1 .. (i - 1) - 1 + 1 : a[j] = q[1 + j - 1]
    <3>1. 1 \in Int /\ i - 1 \in Int
      BY <1>1
    <3> QED
      BY <1>2, <2>1, <3>1, SubSeqProperties
  <2>3. i \in Nat /\ i >= 1
    BY <1>1
  <2>4. Len(a) = i - 1
    BY ONLY <2>2, <2>3
  <2>5. \A j \in 1 .. i - 1 : j \in 1 .. (i - 1) - 1 + 1 /\ 1 + j - 1 = j
    BY ONLY <2>3
  <2> QED
    BY <2>2, <2>4, <2>5
<1>4. /\ b \in Seq(Lock) /\ Len(b) = Len(q) - i /\ \A j \in 1 .. Len(q) - i : b[j] = q[i + j]
  <2>1. \A j \in i + 1 .. Len(q) : q[j] \in Lock
    BY <1>1
  <2>2. /\ b \in Seq(Lock)
        /\ Len(b) = IF i + 1 <= Len(q) THEN Len(q) - (i + 1) + 1 ELSE 0
        /\ \A j \in 1 .. Len(q) - (i + 1) + 1 : b[j] = q[(i + 1) + j - 1]
    <3>1. i + 1 \in Int /\ Len(q) \in Int
      BY <1>1
    <3> QED
      BY <1>2, <2>1, <3>1, SubSeqProperties
  <2>3. i \in Nat /\ i >= 1 /\ i <= Len(q) /\ Len(q) \in Nat
    BY <1>1
  <2>4. Len(b) = Len(q) - i
    BY ONLY <2>2, <2>3
  <2>5. \A j \in 1 .. Len(q) - i : j \in 1 .. Len(q) - (i + 1) + 1 /\ (i + 1) + j - 1 = i + j
    BY ONLY <2>3
  <2> QED
    BY <2>2, <2>4, <2>5
<1>5. q2 = a \o b
  BY <1>0, <1>2 DEF Without
<1>6. /\ q2 \in Seq(Lock) /\ Len(q2) = Len(a) + Len(b)
      /\ \A j \in 1 .. Len(a) + Len(b) : q2[j] = IF j <= Len(a) THEN a[j] ELSE b[j - Len(a)]
  BY ONLY <1>3, <1>4, <1>5, ConcatProperties
<1>7. i \in Nat /\ i >= 1 /\ i <= Len(q) /\ Len(q) \in Nat
  BY <1>1
<1>8. Len(a) + Len(b) = Len(q) - 1
  BY ONLY <1>3, <1>4, <1>7
<1>9. DOMAIN q2 = 1 .. Len(q) - 1
  BY <1>6, <1>8, LenProperties
<1>10. ASSUME NEW j \in DOMAIN q2
       PROVE  /\ j < i => q2[j] = q[j] /\ j \in DOMAIN q
              /\ j >= i => q2[j] = q[j + 1] /\ j + 1 \in DOMAIN q
              /\ j \in Nat
  <2>1. j \in 1 .. Len(q) - 1
    BY <1>9
  <2>2. q2[j] = IF j <= i - 1 THEN a[j] ELSE b[j - (i - 1)]
    BY <1>3, <1>6, <1>8, <2>1
  <2>3. CASE j < i
    <3>1. j <= i - 1 /\ j \in 1 .. i - 1 /\ j \in 1 .. Len(q)
      BY ONLY <1>7, <2>1, <2>3
    <3> QED
      BY <1>1, <1>3, <2>1, <2>2, <2>3, <3>1
  <2>4. CASE j >= i
    <3>1. /\ ~(j <= i - 1) /\ j - (i - 1) \in 1 .. Len(q) - i /\ i + (j - (i - 1)) = j + 1
          /\ j + 1 \in 1 .. Len(q) /\ j \in Nat /\ ~(j < i)
      BY ONLY <1>7, <2>1, <2>4
    <3>2. b[j - (i - 1)] = q[j + 1]
      BY <1>4, <3>1
    <3> QED
      BY <1>1, <2>2, <3>1, <3>2
  <2>5. j < i \/ j >= i
    BY ONLY <1>7, <2>1
  <2> QED
    BY <2>3, <2>4, <2>5
<1>14. ASSUME NEW j \in DOMAIN q2
       PROVE  \E jj \in DOMAIN q : q2[j] = q[jj] /\ ((j < i /\ jj = j) \/ (j >= i /\ jj = j + 1))
  <2>1. CASE j < i
    BY <1>10, <2>1
  <2>2. CASE j >= i
    BY <1>10, <2>2
  <2>3. j \in Nat
    BY <1>10
  <2> QED
    BY <1>7, <2>1, <2>2, <2>3
<1>11. ASSUME NEW j \in DOMAIN q2, NEW k \in DOMAIN q2, j # k
       PROVE  q2[j] # q2[k]
  <2>1. PICK jj \in DOMAIN q : q2[j] = q[jj] /\ ((j < i /\ jj = j) \/ (j >= i /\ jj = j + 1))
    BY <1>14
  <2>2. PICK kk \in DOMAIN q : q2[k] = q[kk] /\ ((k < i /\ kk = k) \/ (k >= i /\ kk = k + 1))
    BY <1>14
  <2>3. j \in Nat /\ k \in Nat
    BY <1>10
  <2>4. jj # kk
    BY ONLY <1>7, <1>11, <2>1, <2>2, <2>3
  <2> QED
    BY <2>1, <2>2, <2>4 DEF Distinct
<1>12. ASSUME NEW l, NEW j \in DOMAIN q2, q2[j] = l
       PROVE  (\E k \in DOMAIN q : q[k] = l) /\ l # q[i]
  <2>1. PICK jj \in DOMAIN q : q2[j] = q[jj] /\ ((j < i /\ jj = j) \/ (j >= i /\ jj = j + 1))
    BY <1>14
  <2>2. jj # i
    BY <1>7, <1>10, <2>1
  <2> QED
    BY <1>12, <2>1, <2>2 DEF Distinct
<1>13. ASSUME NEW l, NEW k \in DOMAIN q, q[k] = l, l # q[i]
       PROVE  \E j \in DOMAIN q2 : q2[j] = l
  <2>1. k \in 1 .. Len(q) /\ k # i
    BY <1>1, <1>13
  <2>2. CASE k < i
    <3>1. k \in 1 .. Len(q) - 1
      BY ONLY <1>7, <2>1, <2>2
    <3> QED
      BY <1>9, <1>10, <1>13, <2>2, <3>1
  <2>3. CASE k > i
    <3>1. k - 1 \in 1 .. Len(q) - 1 /\ k - 1 >= i /\ (k - 1) + 1 = k
      BY ONLY <1>7, <2>1, <2>3
    <3>2. q2[k - 1] = q[k]
      BY <1>9, <1>10, <3>1
    <3> QED
      BY <1>9, <1>13, <3>1, <3>2
  <2> QED
    BY ONLY <1>7, <2>1, <2>2, <2>3
<1>15. Distinct(q2)
  BY <1>11 DEF Distinct
<1>16. \A l : Has(q2, l) <=> Has(q, l) /\ l # q[i]
  BY <1>12, <1>13 DEF Has
<1> QED
  BY <1>0, <1>6, <1>15, <1>16

\* Unlocking as obsolete: the node is no more owned, and is retired until the commit.
LEMMA ObsoleteLocks ==
    ASSUME LockInv, NEW t \in Thread, unlock_and_obsolete(t),
           \A r \in Role : Retires(pc[t], r) => at[t][r] # Nil
    PROVE  LockInv' /\ \E e : LockAccess(t, e)
<1>0. LockTypes /\ Ownership /\ Versions(t) /\ Lists(t) /\ Guarding(t)
  BY DEF LockInv
<1>1. PICK e : e = Head(todo[t])
  OBVIOUS
<1>q. PICK q : q = held[t]
  OBVIOUS
<1>i. PICK i : i = CHOOSE j \in DOMAIN q : q[j] = e.on
  OBVIOUS
<1>q2. PICK q2 : q2 = Without(q, i)
  OBVIOUS
<1>2. /\ todo[t] # <<>> /\ e.do = "obsolete" /\ Done(t)
      /\ word' = [word EXCEPT ![e.on] = obsolete_lock_word]
      /\ held' = [held EXCEPT ![t] = q2]
      /\ UNCHANGED <<op, key, depth, result, seen, pc, at, ver>>
  BY <1>1, <1>q, <1>i, <1>q2
     DEF unlock_and_obsolete, Must, SetWord, Without, historyVars, opVars, rcsVars
<1>3. Consumes(t, e) /\ \A u \in Thread \ {t} : todo'[u] = todo[u]
  BY <1>0, <1>1, <1>2, ConsumeIs
<1>4. e.on \in Lock /\ 1 \in DOMAIN todo[t] /\ todo[t][1] = e
  BY <1>3 DEF Consumes, Entry
<1>5. pc[t] \in Commits
  BY <1>0, <1>2, <1>4 DEF Lists
<1>6. \A j \in DOMAIN todo[t] : todo[t][j].do = "obsolete"
  <2> SUFFICES ASSUME NEW j \in DOMAIN todo[t] PROVE todo[t][j].do = "obsolete"
    OBVIOUS
  <2>1. j = 1 \/ 1 < j
    BY <1>3 DEF Consumes
  <2> QED
    BY <1>0, <1>2, <1>4, <2>1 DEF Lists
<1>7. \A l : ~ToDo(t, "upgrade", l) /\ ~ToDo(t, "unlock", l)
  BY <1>6 DEF ToDo
<1>8. ToDo(t, "obsolete", e.on)
  BY <1>0, <1>2, <1>3, ToDoLeft
<1>9. Holds(t, e.on) /\ \E r \in Role : Retires(pc[t], r) /\ e.on = at[t][r]
  BY <1>0, <1>4, <1>5, <1>7, <1>8 DEF Guarding
<1>10. e.on # Nil /\ Owns(t, e.on) /\ Mine(t, e.on)
  BY <1>9 DEF Owns, Mine
<1>11. q \in Seq(Lock) /\ held \in [Thread -> Seq(Lock)]
  BY <1>0, <1>q DEF LockTypes
<1>12. i \in DOMAIN q /\ q[i] = e.on
  BY <1>q, <1>i, <1>9 DEF Holds
<1>13. Distinct(q)
  BY <1>0, <1>q DEF Lists, Distinct
<1>14. /\ q2 \in Seq(Lock) /\ Distinct(q2)
       /\ \A l : Has(q2, l) <=> Has(q, l) /\ l # e.on
  BY ONLY <1>11, <1>12, <1>13, <1>q2, RemoveOne
<1>15. held'[t] = q2 /\ held' \in [Thread -> Seq(Lock)] /\ \A u \in Thread \ {t} : held'[u] = held[u]
  BY <1>2, <1>11, <1>14
<1>16. \A l : Holds(t, l)' <=> Holds(t, l) /\ l # e.on
  <2>1. \A l : Holds(t, l) <=> Has(q, l)
    BY <1>q DEF Holds, Has
  <2>2. \A l : Holds(t, l)' <=> Has(q2, l)
    BY <1>15 DEF Holds, Has
  <2> QED
    BY <1>14, <2>1, <2>2
<1>17. \A d, l : ToDo(t, d, l)' <=> ToDo(t, d, l) /\ (d # "obsolete" \/ l # e.on)
  BY <1>0, <1>2, <1>3, ToDoLeft
<1>18. /\ word' \in [Lock -> Nat] /\ word'[e.on] = 1
       /\ \A l \in Lock : l # e.on => word'[l] = word[l]
  BY <1>0, <1>2, <1>4 DEF LockTypes, obsolete_lock_word
<1>19. Retired(t, e.on)' /\ \A l : Retired(t, l)' <=> Retired(t, l) \/ l = e.on
  <2>1. Retired(t, e.on)'
    BY <1>2, <1>9, <1>17 DEF Retired
  <2>2. \A l : l # e.on => (Retired(t, l)' <=> Retired(t, l))
    BY <1>2, <1>17 DEF Retired
  <2> QED
    BY <2>1, <2>2
<1>20. LockTypes' /\ Others(t)
  <2>1. \A l \in Lock : word'[l] % 4 \in {0, 2} \/ is_obsolete(word'[l])
    BY <1>0, <1>18 DEF LockTypes, is_obsolete, obsolete_lock_word
  <2>2. ~is_obsolete(word'[Nil])
    <3>1. Nil \in Lock
      BY BoundAssumption DEF Nil, Lock
    <3> QED
      BY <1>0, <1>10, <1>18, <3>1 DEF LockTypes
  <2> QED
    BY <1>0, <1>2, <1>3, <1>15, <1>18, <2>1, <2>2, ConsumeTypes
<1>21. \A l \in Lock : WordStep(t, l)
  BY <1>10, <1>18 DEF WordStep, obsolete_lock_word
<1>22. Versions(t)'
  BY <1>0, <1>2, <1>3, <1>21, VersionsLeft
<1>23. Lists(t)'
  <2>1. \A j, k \in DOMAIN held'[t] : j # k => held'[t][j] # held'[t][k]
    BY <1>14, <1>15 DEF Distinct
  <2> QED
    BY <1>0, <1>2, <1>3, <1>5, <2>1, ListsLeft
<1>24. Guarding(t)'
  <2>1. ASSUME NEW r \in Role, Guards(pc'[t], r)
        PROVE  (ToDo(t, "upgrade", at[t][r]) \/ Holds(t, at[t][r]) \/ Retired(t, at[t][r]))'
    <3>1. PICK l : l = at[t][r]
      OBVIOUS
    <3>2. Holds(t, l) \/ Retired(t, l)
      BY <1>0, <1>2, <1>5, <1>7, <2>1, <3>1 DEF Guarding
    <3>3. Holds(t, l)' \/ Retired(t, l)'
      BY <1>16, <1>19, <3>2
    <3> QED
      BY <1>2, <3>1, <3>3 DEF Holds, Retired
  <2>2. \A l \in Lock : Holds(t, l)' => /\ \E r \in Role : Guards(pc'[t], r) /\ l = at'[t][r]
                                        /\ ~ToDo(t, "upgrade", l)'
                                        /\ ~Retired(t, l)'
    BY <1>0, <1>2, <1>5, <1>16, <1>17, <1>19 DEF Guarding
  <2>3. \A l \in Lock : ToDo(t, "upgrade", l)' => \E r \in Role : Guards(pc'[t], r) /\ l = at'[t][r]
    BY <1>7, <1>17
  <2>4. \A l \in Lock : ToDo(t, "obsolete", l)' =>
            /\ ToDo(t, "upgrade", l)' \/ Holds(t, l)'
            /\ \E r \in Role : Retires(pc'[t], r) /\ l = at'[t][r]
    <3> SUFFICES ASSUME NEW l \in Lock, ToDo(t, "obsolete", l)'
                 PROVE  Holds(t, l)' /\ \E r \in Role : Retires(pc[t], r) /\ l = at[t][r]
      BY <1>2
    <3>1. ToDo(t, "obsolete", l) /\ l # e.on
      BY <1>17
    <3> QED
      BY <1>0, <1>5, <1>7, <1>16, <3>1 DEF Guarding
  <2>5. \A l \in Lock : Retired(t, l)' => is_obsolete(word'[l])
    BY <1>0, <1>5, <1>18, <1>19 DEF Guarding, is_obsolete, obsolete_lock_word
  <2>6. \A j \in DOMAIN todo'[t] : todo'[t][j].do = "obsolete"
    BY <1>3, <1>6 DEF Consumes
  <2>7. /\ at'[t]["parent"] # at'[t]["node"] \/ pc'[t] = "insert_root"
        /\ pc'[t] \in RemovesChild => /\ at'[t]["child"] # at'[t]["node"]
                                      /\ at'[t]["child"] # at'[t]["parent"]
    BY <1>0, <1>2, <1>5 DEF Guarding
  <2> QED
    BY <2>1, <2>2, <2>3, <2>4, <2>5, <2>6, <2>7 DEF Guarding
<1>25. \A l \in Lock : Owns(t, l)' => Owns(t, l) /\ l # e.on
  BY <1>7, <1>16, <1>17 DEF Owns
<1>26. \A l \in Lock : Owns(t, l)' => word'[l] % 4 = 2
  BY <1>0, <1>18, <1>25 DEF Ownership
<1>27. \A l \in Lock : Mine(t, l)' => Mine(t, l) \/ word[l] % 4 = 0
  BY <1>10, <1>19, <1>25 DEF Mine
<1>28. LockInv'
  BY <1>20, <1>21, <1>22, <1>23, <1>24, <1>26, <1>27, LockStep
<1>29. UNCHANGED <<root, nodes, map, torn>>
  BY DEF unlock_and_obsolete, treeVars, historyVars
<1>30. LockAccess(t, e)
  BY <1>2, <1>3, <1>16, <1>18, <1>19, <1>20, <1>21, <1>29 DEF LockAccess
<1> QED
  BY <1>28, <1>30

\* The unlocking at the end of a write section or of a failed attempt.
LEMMA UnlockLocks ==
    ASSUME LockInv, NEW t \in Thread, write_unlock(t)
    PROVE  LockInv' /\ \E e : LockAccess(t, e)
<1>0. LockTypes /\ Ownership /\ Versions(t) /\ Lists(t)
  BY DEF LockInv
<1>1. PICK e : e = Head(todo[t])
  OBVIOUS
<1>2. /\ todo[t] # <<>> /\ e.do = "unlock" /\ Done(t)
      /\ word' = [word EXCEPT ![e.on] = word[e.on] + 2]
      /\ UNCHANGED <<op, key, depth, result, seen, pc, at, ver, held>>
  BY <1>1 DEF write_unlock, Must, SetWord, historyVars, opVars, rcsVars
<1>3. Consumes(t, e) /\ \A u \in Thread \ {t} : todo'[u] = todo[u]
  BY <1>0, <1>1, <1>2, ConsumeIs
<1>4. e.on \in Lock /\ 1 \in DOMAIN todo[t] /\ todo[t][1] = e
  BY <1>3 DEF Consumes, Entry
<1>5. pc[t] \in {"root_lock", "return"} /\ pc[t] \notin Commits
  BY <1>0, <1>2, <1>4 DEF Lists, Commits
<1>6. held[t] = <<>> /\ held'[t] = <<>>
  BY <1>0, <1>2, <1>5 DEF Lists
<1>7. Owns(t, e.on)
  BY <1>0, <1>2, <1>3, ToDoLeft DEF Owns
<1>8. word[e.on] \in Nat /\ word[e.on] % 4 = 2 /\ word \in [Lock -> Nat]
  BY <1>0, <1>4, <1>7 DEF Ownership, LockTypes
<1>9. /\ word' \in [Lock -> Nat] /\ word'[e.on] = word[e.on] + 2
      /\ \A l \in Lock : l # e.on => word'[l] = word[l]
  BY <1>2, <1>4, <1>8
<1>10. word'[e.on] % 4 = 0 /\ word'[e.on] # 1
  <2>1. PICK w : w = word[e.on]
    OBVIOUS
  <2>2. w \in Nat /\ w % 4 = 2
    BY <1>8, <2>1
  <2>3. (w + 2) % 4 = 0 /\ w + 2 # 1
    BY ONLY <2>2
  <2> QED
    BY <1>9, <2>1, <2>3
<1>11. LockTypes' /\ Others(t)
  <2>1. \A l \in Lock : word'[l] % 4 \in {0, 2} \/ is_obsolete(word'[l])
    BY <1>0, <1>9, <1>10 DEF LockTypes
  <2>2. ~is_obsolete(word'[Nil])
    <3>1. Nil \in Lock
      BY BoundAssumption DEF Nil, Lock
    <3> QED
      BY <1>0, <1>9, <1>10, <3>1 DEF LockTypes, is_obsolete, obsolete_lock_word
  <2>3. held' \in [Thread -> Seq(Lock)] /\ \A u \in Thread \ {t} : todo'[u] = todo[u] /\ held'[u] = held[u]
    BY <1>0, <1>2, <1>3 DEF LockTypes
  <2> QED
    BY <1>0, <1>2, <1>3, <1>9, <2>1, <2>2, <2>3, ConsumeTypes
<1>12. \A l \in Lock : WordStep(t, l)
  BY <1>7, <1>9 DEF WordStep
<1>13. Versions(t)'
  BY <1>0, <1>2, <1>3, <1>12, VersionsLeft
<1>14. Lists(t)'
  <2>1. \A j, k \in DOMAIN held'[t] : j # k => held'[t][j] # held'[t][k]
    BY <1>6
  <2> QED
    BY <1>0, <1>2, <1>3, <1>6, <2>1, ListsLeft
<1>15. Guarding(t)'
  BY <1>2, <1>5 DEF Guarding
<1>16. \A d, l : ToDo(t, d, l)' <=> ToDo(t, d, l) /\ (d # "unlock" \/ l # e.on)
  BY <1>0, <1>2, <1>3, ToDoLeft
<1>17. \A l : ~Holds(t, l)'
  BY <1>6 DEF Holds
<1>18. \A l : Owns(t, l)' => Owns(t, l) /\ l # e.on
  BY <1>16, <1>17 DEF Owns
<1>19. \A l \in Lock : Owns(t, l)' => word'[l] % 4 = 2
  BY <1>0, <1>9, <1>18 DEF Ownership
<1>20. \A l : ~Retired(t, l)'
  BY <1>2, <1>5 DEF Retired, Retires, RemovesChild
<1>21. \A l \in Lock : Mine(t, l)' => Mine(t, l) \/ word[l] % 4 = 0
  BY <1>18, <1>20 DEF Mine
<1>22. LockInv'
  BY <1>11, <1>12, <1>13, <1>14, <1>15, <1>19, <1>21, LockStep
<1>23. UNCHANGED <<root, nodes, map, torn>>
  BY DEF write_unlock, treeVars, historyVars
<1>24. ~is_obsolete(word'[e.on])
  BY <1>10 DEF is_obsolete, obsolete_lock_word
<1>25. LockAccess(t, e)
  BY <1>2, <1>3, <1>9, <1>11, <1>12, <1>17, <1>23, <1>24 DEF LockAccess
<1> QED
  BY <1>22, <1>25

(***************************************************************************)
(* Guards are released.                                                    *)
(***************************************************************************)
\* The list is to release the guards, and nothing else.
LEMMA Releases ==
    ASSUME LockTypes, NEW t \in Thread, Lists(t),
           todo' = [todo EXCEPT ![t] = Unlocks(held[t])],
           held' = [held EXCEPT ![t] = <<>>]
    PROVE  /\ todo' \in [Thread -> Seq(Entry)] /\ held' \in [Thread -> Seq(Lock)]
           /\ held'[t] = <<>>
           /\ \A u \in Thread \ {t} : todo'[u] = todo[u] /\ held'[u] = held[u]
           /\ \A i \in DOMAIN todo'[t] : /\ todo'[t][i].do = "unlock"
                                         /\ Holds(t, todo'[t][i].on)
           /\ \A i, j \in DOMAIN todo'[t] : i # j => todo'[t][i].on # todo'[t][j].on
           /\ \A l : Owns(t, l)' => Holds(t, l)
<1>1. PICK q : q = held[t]
  OBVIOUS
<1>2. /\ q \in Seq(Lock) /\ held \in [Thread -> Seq(Lock)] /\ todo \in [Thread -> Seq(Entry)]
      /\ \A i, j \in DOMAIN q : i # j => q[i] # q[j]
  BY <1>1 DEF LockTypes, Lists
<1>3. Len(q) \in Nat /\ DOMAIN q = 1 .. Len(q) /\ \A j \in 1 .. Len(q) : q[j] \in Lock
  BY <1>2, LenProperties
<1>4. PICK z : z = Unlocks(q)
  OBVIOUS
<1>5. /\ DOMAIN z = 1 .. Len(q)
      /\ \A i \in 1 .. Len(q) : z[i] = [do |-> "unlock", on |-> q[Len(q) + 1 - i], ver |-> 0]
      /\ z = [i \in 1 .. Len(q) |-> [do |-> "unlock", on |-> q[Len(q) + 1 - i], ver |-> 0]]
  BY <1>3, <1>4 DEF Unlocks
<1>6. \A i \in 1 .. Len(q) : Len(q) + 1 - i \in 1 .. Len(q)
  BY ONLY <1>3
<1>7. \A i \in 1 .. Len(q) : z[i] \in Entry
  BY <1>3, <1>5, <1>6 DEF Entry
<1>8. z \in [1 .. Len(q) -> Entry]
  BY <1>5, <1>7
<1>9. z \in Seq(Entry)
  BY <1>3, <1>8, SeqDef
<1>10. \A i \in 1 .. Len(q) : z[i].do = "unlock" /\ z[i].on = q[Len(q) + 1 - i]
  BY <1>5
<1>11. \A i, j \in 1 .. Len(q) : i # j => Len(q) + 1 - i # Len(q) + 1 - j
  BY ONLY <1>3
<1>12. \A i, j \in 1 .. Len(q) : i # j => z[i].on # z[j].on
  BY <1>2, <1>3, <1>6, <1>10, <1>11, ZenonT(30)
<1>13. \A i \in 1 .. Len(q) : Holds(t, z[i].on)
  BY <1>1, <1>3, <1>6, <1>10 DEF Holds
<1>14. <<>> \in Seq(Lock)
  BY EmptySeq
<1>15. /\ todo'[t] = z /\ todo' \in [Thread -> Seq(Entry)] /\ held'[t] = <<>>
       /\ held' \in [Thread -> Seq(Lock)]
       /\ \A u \in Thread \ {t} : todo'[u] = todo[u] /\ held'[u] = held[u]
  BY <1>1, <1>2, <1>4, <1>9, <1>14
<1>16. ASSUME NEW l, Owns(t, l)' PROVE Holds(t, l)
  <2>1. ~Holds(t, l)'
    BY <1>15 DEF Holds
  <2>2. PICK i \in 1 .. Len(q) : z[i].on = l
    BY <1>5, <1>15, <1>16, <2>1 DEF Owns, ToDo
  <2> QED
    BY <1>13, <2>2
<1>17. DOMAIN todo'[t] = 1 .. Len(q)
  BY <1>5, <1>15
<1>18. \A i \in DOMAIN todo'[t] : todo'[t][i].do = "unlock" /\ Holds(t, todo'[t][i].on)
  BY <1>10, <1>13, <1>15, <1>17
<1>19. \A i, j \in DOMAIN todo'[t] : i # j => todo'[t][i].on # todo'[t][j].on
  BY <1>12, <1>15, <1>17
<1> QED
  BY <1>15, <1>16, <1>18, <1>19

\* A restart, which leaves what is held to be unlocked.
LEMMA RestartLocks ==
    ASSUME LockInv, NEW t \in Thread, Restart(t)
    PROVE  LockInv' /\ Others(t)
<1>0. LockTypes /\ Ownership /\ Versions(t) /\ Lists(t)
  BY DEF LockInv
<1>1. /\ todo' = [todo EXCEPT ![t] = Unlocks(held[t])]
      /\ held' = [held EXCEPT ![t] = <<>>]
      /\ at' = [at EXCEPT ![t] = Nowhere] /\ ver' = [ver EXCEPT ![t] = Nowhere]
      /\ pc' = [pc EXCEPT ![t] = "root_lock"]
      /\ depth' = [depth EXCEPT ![t] = 0] /\ result' = [result EXCEPT ![t] = Nil]
      /\ UNCHANGED <<word, seen, op, key>>
  BY DEF Restart, Goto, opVars
<1>2. /\ todo' \in [Thread -> Seq(Entry)] /\ held' \in [Thread -> Seq(Lock)]
      /\ held'[t] = <<>>
      /\ \A u \in Thread \ {t} : todo'[u] = todo[u] /\ held'[u] = held[u]
      /\ \A i \in DOMAIN todo'[t] : /\ todo'[t][i].do = "unlock"
                                    /\ Holds(t, todo'[t][i].on)
      /\ \A i, j \in DOMAIN todo'[t] : i # j => todo'[t][i].on # todo'[t][j].on
      /\ \A l : Owns(t, l)' => Holds(t, l)
  BY <1>0, <1>1, Releases
<1>3. Nil \in Lock /\ Nil \in Nat /\ Nowhere \in [Role -> Lock] /\ Nowhere \in [Role -> Nat]
      /\ "root_lock" \in Labels
  BY BoundAssumption DEF Nil, Lock, Nowhere, Labels
<1>4. at' \in [Thread -> [Role -> Lock]] /\ ver' \in [Thread -> [Role -> Nat]] /\ pc' \in [Thread -> Labels]
      /\ at'[t] = Nowhere /\ ver'[t] = Nowhere /\ pc'[t] = "root_lock"
  BY <1>0, <1>1, <1>3 DEF LockTypes
<1>5. LockTypes'
  BY <1>0, <1>1, <1>2, <1>4 DEF LockTypes
<1>6. Others(t)
  BY <1>0, <1>1, <1>2 DEF Others, LockTypes
<1>7. Versions(t)'
  <2>1. \A r \in Role : at'[t][r] = 0 /\ ver'[t][r] = 0
    BY <1>4 DEF Nowhere, Nil
  <2>2. word'[0] \in Nat
    BY <1>3, <1>5 DEF LockTypes, Nil
  <2>3. \A r \in Role : Past(at[t][r], ver[t][r])'
    BY <2>1, <2>2 DEF Past
  <2>4. ver'[t]["node"] = 0 /\ ver'[t]["child"] = 0
    BY <2>1 DEF Role
  <2> QED
    BY <1>2, <1>4, <2>3, <2>4 DEF Versions
<1>8. Lists(t)'
  BY <1>2, <1>4 DEF Lists, Commits
<1>9. pc'[t] \notin Commits /\ \A l \in Lock : Owns(t, l)' => Owns(t, l)
  BY <1>2, <1>4 DEF Commits, Owns
<1> QED
  BY <1>1, <1>5, <1>6, <1>7, <1>8, <1>9, QuietStep

\* The write section leaves what is held to be unlocked.
LEMMA WriteLocks ==
    ASSUME LockInv, NEW t \in Thread, NEW label, WriteSection(t, label), DOMAIN seen' = Thread
    PROVE  LockInv' /\ Others(t)
<1>0. LockTypes /\ Ownership /\ Versions(t) /\ Lists(t)
  BY DEF LockInv
<1>1. /\ todo' = [todo EXCEPT ![t] = Unlocks(held[t])]
      /\ held' = [held EXCEPT ![t] = <<>>]
      /\ pc' = [pc EXCEPT ![t] = "return"]
      /\ UNCHANGED <<word, at, ver, depth, result, op, key>>
  BY DEF WriteSection, Goto, opVars, rcsVars
<1>2. /\ todo' \in [Thread -> Seq(Entry)] /\ held' \in [Thread -> Seq(Lock)]
      /\ held'[t] = <<>>
      /\ \A u \in Thread \ {t} : todo'[u] = todo[u] /\ held'[u] = held[u]
      /\ \A i \in DOMAIN todo'[t] : /\ todo'[t][i].do = "unlock"
                                    /\ Holds(t, todo'[t][i].on)
      /\ \A i, j \in DOMAIN todo'[t] : i # j => todo'[t][i].on # todo'[t][j].on
      /\ \A l : Owns(t, l)' => Holds(t, l)
  BY <1>0, <1>1, Releases
<1>3. "return" \in Labels
  BY DEF Labels
<1>4. pc' \in [Thread -> Labels] /\ pc'[t] = "return"
  BY <1>0, <1>1, <1>3 DEF LockTypes
<1>5. LockTypes'
  BY <1>0, <1>1, <1>2, <1>4 DEF LockTypes
<1>6. Others(t)
  BY <1>0, <1>1, <1>2 DEF Others, LockTypes
<1>7. Versions(t)'
  <2>1. \A r \in Role : Past(at[t][r], ver[t][r])'
    BY <1>0, <1>1 DEF Versions, Past
  <2> QED
    BY <1>2, <1>4, <2>1 DEF Versions
<1>8. Lists(t)'
  BY <1>2, <1>4 DEF Lists, Commits
<1>9. pc'[t] \notin Commits /\ \A l \in Lock : Owns(t, l)' => Owns(t, l)
  BY <1>2, <1>4 DEF Commits, Owns
<1> QED
  BY <1>1, <1>5, <1>6, <1>7, <1>8, <1>9, QuietStep

(***************************************************************************)
(* Steps that change no node.                                              *)
(***************************************************************************)
\* The tree and the map stay.
SameTree == root' = root /\ nodes' = nodes /\ map' = map

\* A step that changes no node leaves the tree as it fits.
LEMMA TreeFitsSame ==
    ASSUME NEW tree, NEW rep, NEW end, NEW start, TreeFits(tree, rep, end, start), SameTree
    PROVE  /\ TreeFits(tree, rep, end, start)'
           /\ \A n : (IsUsed(n)' <=> IsUsed(n)) /\ (IsLeaf(n)' <=> IsLeaf(n))
                     /\ (IsInode(n)' <=> IsInode(n))
<1>0. root' = root /\ nodes' = nodes /\ map' = map
  BY DEF SameTree
<1>1. \A n : (IsUsed(n)' <=> IsUsed(n)) /\ (IsLeaf(n)' <=> IsLeaf(n)) /\ (IsInode(n)' <=> IsInode(n))
  BY <1>0 DEF IsUsed, IsLeaf, IsInode
<1>2. used' = used /\ kidsOf' = kidsOf
  BY <1>0 DEF used, kidsOf
<1>3. TreeTypes(tree, rep, end, start)'
  BY <1>0, <1>2 DEF TreeFits, TreeTypes
<1>4. LabelsFit(rep, end)'
  BY <1>0, <1>1 DEF TreeFits, LabelsFit, GoodKid
<1>5. SizesFit'
  BY <1>0, <1>1 DEF TreeFits, SizesFit, SizeFits
<1>6. Paths(root, kidsOf, tree, rep, end, start)'
  BY <1>0, <1>2 DEF TreeFits, Paths, Laminar
<1>7. PrefixesFit(tree, rep, end, start)'
  BY <1>0, <1>1 DEF TreeFits, PrefixesFit
<1>8. MapFits(tree)'
  BY <1>0, <1>1 DEF TreeFits, MapFits, IsLeaf, IsUsed
<1> QED
  BY <1>1, <1>3, <1>4, <1>5, <1>6, <1>7, <1>8 DEF TreeFits

\* Another thread can only lose what it relies on.
LEMMA RelianceKept ==
    ASSUME LockInv, NEW t \in Thread, Others(t), \A l \in Lock : WordStep(t, l),
           NEW u \in Thread, u # t
    PROVE  /\ Valid(u)' => Valid(u)
           /\ \A r \in Role : Current(u, r)' => Current(u, r)
           /\ ParentOK(u)' => ParentOK(u)
<1>0. LockTypes /\ Ownership /\ Versions(u)
  BY DEF LockInv
<1>1. todo'[u] = todo[u] /\ at'[u] = at[u] /\ ver'[u] = ver[u] /\ op'[u] = op[u]
  BY DEF Others
<1>2. ASSUME NEW r \in Role, Current(u, r)' PROVE Current(u, r)
  <2>1. PICK l, v : l = at[u][r] /\ v = ver[u][r]
    OBVIOUS
  <2>2. l \in Lock /\ v \in Nat /\ Past(l, v)
    BY <1>0, <2>1 DEF LockTypes, Versions
  <2>3. word'[l] = v => word[l] = v
    BY <1>0, <2>2, PastKept
  <2> QED
    BY <1>1, <1>2, <2>1, <2>3 DEF Current
<1>3. ASSUME Valid(u)' PROVE Valid(u)
  <2> SUFFICES ASSUME NEW i \in DOMAIN todo[u], todo[u][i].do \in {"check", "upgrade"}
               PROVE  word[todo[u][i].on] = todo[u][i].ver
    BY DEF Valid
  <2>1. PICK l, v : l = todo[u][i].on /\ v = todo[u][i].ver
    OBVIOUS
  <2>2. todo[u] \in Seq(Entry)
    BY <1>0 DEF LockTypes
  <2>3. todo[u][i] \in Entry
    BY <2>2
  <2>4. l \in Lock /\ v \in Nat /\ Past(l, v)
    BY <1>0, <2>1, <2>3 DEF Entry, Versions
  <2>5. word'[l] = v => word[l] = v
    BY <1>0, <2>4, PastKept
  <2>6. word'[l] = v
    BY <1>1, <1>3, <2>1 DEF Valid
  <2> QED
    BY <2>1, <2>5, <2>6
<1>4. ParentOK(u)' => ParentOK(u)
  BY <1>1, <1>2 DEF ParentOK, Role
<1> QED
  BY <1>2, <1>3, <1>4

\* What another thread knows stays known when the step changes only lock words and the
\* thread's own variables.
LEMMA OthersKnow ==
    ASSUME NEW tree, NEW rep, NEW end, NEW start, Inv(tree, rep, end, start),
           NEW t \in Thread, Others(t), \A l \in Lock : WordStep(t, l), SameTree,
           NEW u \in Thread, u # t, seen'[u] = seen[u], u \in torn' <=> u \in torn
    PROVE  ThreadTypes(u, rep, end)' /\ Knows(u, tree, rep, end, start)'
<1>0. LockInv /\ TreeFits(tree, rep, end, start) /\ ThreadTypes(u, rep, end)
      /\ Knows(u, tree, rep, end, start)
  BY DEF Inv
<1>1. /\ pc'[u] = pc[u] /\ op'[u] = op[u] /\ key'[u] = key[u] /\ depth'[u] = depth[u]
      /\ at'[u] = at[u] /\ ver'[u] = ver[u] /\ todo'[u] = todo[u] /\ held'[u] = held[u]
      /\ result'[u] = result[u]
  BY DEF Others
<1>2. root' = root /\ nodes' = nodes /\ map' = map
  BY DEF SameTree
<1>3. \A n : (IsUsed(n)' <=> IsUsed(n)) /\ (IsLeaf(n)' <=> IsLeaf(n)) /\ (IsInode(n)' <=> IsInode(n))
  BY <1>0, TreeFitsSame
<1>4. ThreadTypes(u, rep, end)'
  <2>1. \A r \in Role : IsUsed(at[u][r])' <=> IsUsed(at[u][r])
    BY <1>1, <1>2 DEF IsUsed
  <2>2. /\ \A i : (IsUsed(todo[u][i].on)' <=> IsUsed(todo[u][i].on))
        /\ \A i : (IsUsed(held[u][i])' <=> IsUsed(held[u][i]))
    BY <1>1, <1>2 DEF IsUsed
  <2>3. /\ IsUsed(at[u]["node"])' <=> IsUsed(at[u]["node"])
        /\ IsUsed(at[u]["child"])' <=> IsUsed(at[u]["child"])
        /\ IsInode(at[u]["parent"])' <=> IsInode(at[u]["parent"])
        /\ IsInode(at[u]["node"])' <=> IsInode(at[u]["node"])
        /\ IsLeaf(at[u]["node"])' <=> IsLeaf(at[u]["node"])
        /\ IsLeaf(at[u]["child"])' <=> IsLeaf(at[u]["child"])
    BY <1>1, <1>2 DEF IsUsed, IsLeaf, IsInode
  <2> QED
    BY <1>0, <1>1, <1>2, <2>1, <2>2, <2>3 DEF ThreadTypes
<1>5. /\ Valid(u)' => Valid(u)
      /\ \A r \in Role : Current(u, r)' => Current(u, r)
      /\ ParentOK(u)' => ParentOK(u)
  BY <1>0, RelianceKept
<1>6. ASSUME Valid(u)', u \notin torn' PROVE Believes(u, tree, rep, end, start)'
  <2>1. Believes(u, tree, rep, end, start)
    BY <1>0, <1>5, <1>6 DEF Knows
  <2>2. OnLink(u, tree, rep, end)' <=> OnLink(u, tree, rep, end)
    BY <1>1, <1>2 DEF OnLink, Linked, IsInode, IsUsed
  <2>3. OnPath(u, tree, rep, start)' <=> OnPath(u, tree, rep, start)
    BY <1>1, <1>2 DEF OnPath, IsInode, IsUsed
  <2>4. PastPrefix(u, tree, rep, end)' <=> PastPrefix(u, tree, rep, end)
    BY <1>1 DEF PastPrefix
  <2>5. ToChild(u, end)' <=> ToChild(u, end)
    BY <1>1, <1>2 DEF ToChild
  <2>6. Current(u, "parent")' => Current(u, "parent")
    BY <1>5 DEF Role
  <2>7. Current(u, "node")' => Current(u, "node")
    BY <1>5 DEF Role
  <2> QED
    BY <1>1, <1>2, <1>5, <2>1, <2>2, <2>3, <2>4, <2>5, <2>6, <2>7 DEF Believes
<1> QED
  BY <1>4, <1>6 DEF Knows

\* Nodes that are obsolete.
LEMMA RetiredFitsKept ==
    ASSUME NEW tree, NEW rep, NEW end, NEW start, Inv(tree, rep, end, start),
           NEW t \in Thread, Others(t), SameTree, \A l \in Lock : WordStep(t, l),
           \A l \in Lock : is_obsolete(word'[l]) => is_obsolete(word[l]) \/ Retired(t, l)',
           \A l \in Lock : Retired(t, l) => Retired(t, l)',
           \A l \in Lock : word'[l] # word[l] => l = Nil \/ IsUsed(l)
    PROVE  RetiredFits(tree)'
<1>0. LockInv /\ LockTypes /\ Ownership /\ RetiredFits(tree) /\ TreeFits(tree, rep, end, start)
  BY DEF Inv, LockInv
<1>1. Node \subseteq Lock /\ Nil \notin Node /\ tree \subseteq Node
  BY <1>0, BoundAssumption DEF Node, Lock, Nil, TreeFits, TreeTypes
<1>2. \A l \in Lock : is_obsolete(word[l]) => is_obsolete(word'[l])
  <2> SUFFICES ASSUME NEW l \in Lock, is_obsolete(word[l]) PROVE is_obsolete(word'[l])
    OBVIOUS
  <2>1. Past(l, 0)
    BY DEF Past
  <2>2. word'[l] = word[l]
    BY <1>0, <2>1, PastKept
  <2> QED
    BY <2>2
<1>3. \A n : IsUsed(n)' <=> IsUsed(n)
  BY <1>0, TreeFitsSame
<1>4. \A n \in Node : IsUsed(n)' /\ n \notin tree => is_obsolete(word'[n])
  BY <1>0, <1>1, <1>2, <1>3 DEF RetiredFits
<1>5. ASSUME NEW n \in tree, is_obsolete(word'[n])
      PROVE  \E u \in Thread : Retired(u, n)'
  <2>1. CASE Retired(t, n)'
    BY <2>1
  <2>2. CASE ~Retired(t, n)'
    <3>1. is_obsolete(word[n])
      BY <1>1, <1>5, <2>2
    <3>2. PICK u \in Thread : Retired(u, n)
      BY <1>0, <3>1 DEF RetiredFits
    <3>3. u # t
      BY <1>1, <2>2, <3>2
    <3> QED
      BY <3>2, <3>3, OthersLocks
  <2> QED
    BY <2>1, <2>2
<1>6. \A n \in Node : ~IsUsed(n)' => word'[n] = 0
  BY <1>0, <1>1, <1>3 DEF RetiredFits
<1> QED
  BY <1>4, <1>5, <1>6 DEF RetiredFits

\* A step that changes no node keeps the invariant if it does so for its own thread.
LEMMA TreeStays ==
    ASSUME NEW tree, NEW rep, NEW end, NEW start, Inv(tree, rep, end, start),
           NEW t \in Thread, Others(t), SameTree, \A l \in Lock : WordStep(t, l),
           \A l \in Lock : is_obsolete(word'[l]) => is_obsolete(word[l]) \/ Retired(t, l)',
           \A l \in Lock : Retired(t, l) => Retired(t, l)',
           \A l \in Lock : word'[l] # word[l] => l = Nil \/ IsUsed(l),
           \A u \in Thread \ {t} : seen'[u] = seen[u] /\ (u \in torn' <=> u \in torn),
           LockInv', ThreadTypes(t, rep, end)', Knows(t, tree, rep, end, start)'
    PROVE  Inv(tree, rep, end, start)'
<1>1. RetiredFits(tree)'
  BY RetiredFitsKept
<1>2. TreeFits(tree, rep, end, start)'
  BY TreeFitsSame DEF Inv
<1>3. ASSUME NEW u \in Thread
      PROVE  ThreadTypes(u, rep, end)' /\ Knows(u, tree, rep, end, start)'
  <2>1. CASE u = t
    BY <2>1
  <2>2. CASE u # t
    <3>1. seen'[u] = seen[u] /\ (u \in torn' <=> u \in torn)
      BY <2>2
    <3> QED
      BY <2>2, <3>1, OthersKnow
  <2> QED
    BY <2>1, <2>2
<1> QED
  BY <1>1, <1>2, <1>3 DEF Inv

\* Likewise where no lock word changes and the thread had retired nothing.
LEMMA QuietInv ==
    ASSUME NEW tree, NEW rep, NEW end, NEW start, Inv(tree, rep, end, start),
           NEW t \in Thread, Others(t), SameTree, word' = word,
           \A l \in Lock : ~Retired(t, l),
           \A u \in Thread \ {t} : seen'[u] = seen[u] /\ (u \in torn' <=> u \in torn),
           LockInv', ThreadTypes(t, rep, end)', Knows(t, tree, rep, end, start)'
    PROVE  Inv(tree, rep, end, start)'
<1>1. \A l \in Lock : WordStep(t, l)
  BY DEF WordStep
<1>2. \A l \in Lock : is_obsolete(word'[l]) => is_obsolete(word[l]) \/ Retired(t, l)'
  OBVIOUS
<1>3. \A l \in Lock : word'[l] # word[l] => l = Nil \/ IsUsed(l)
  OBVIOUS
<1>4. \A l \in Lock : Retired(t, l) => Retired(t, l)'
  OBVIOUS
<1> QED
  BY <1>1, <1>2, <1>3, <1>4, TreeStays

\* An access to a lock word keeps the invariant.
LEMMA AccessInv ==
    ASSUME NEW tree, NEW rep, NEW end, NEW start, Inv(tree, rep, end, start),
           NEW t \in Thread, LockInv', NEW e, LockAccess(t, e)
    PROVE  Inv(tree, rep, end, start)'
<1>0. LockInv /\ TreeFits(tree, rep, end, start) /\ ThreadTypes(t, rep, end)
      /\ Knows(t, tree, rep, end, start) /\ LockTypes /\ Ownership /\ Versions(t) /\ Lists(t)
  BY DEF Inv, LockInv
<1>1. /\ Consumes(t, e) /\ Others(t)
      /\ UNCHANGED <<root, nodes, map, seen, torn, op, key, pc, depth, at, ver, result>>
      /\ \A l \in Lock : WordStep(t, l)
      /\ \A l \in Lock : l # e.on => word'[l] = word[l]
      /\ is_obsolete(word'[e.on]) => is_obsolete(word[e.on]) \/ Retired(t, e.on)'
      /\ e.do \in {"check", "upgrade"} => word[e.on] = e.ver
      /\ \A l : Holds(t, l)' => Holds(t, l) \/ l = e.on
  BY DEF LockAccess
<1>2. SameTree
  BY <1>1 DEF SameTree
<1>3. e \in Entry /\ e.on \in Lock /\ 1 \in DOMAIN todo[t] /\ e = todo[t][1]
  BY <1>1 DEF Consumes, Entry
<1>4. \A d, l : ToDo(t, d, l)' => ToDo(t, d, l)
  BY <1>0, <1>1, ToDoLeft
<1>5. \A l \in Lock : Retired(t, l) => Retired(t, l)'
  BY <1>1, <1>4 DEF Retired
<1>6. \A l \in Lock : is_obsolete(word'[l]) => is_obsolete(word[l]) \/ Retired(t, l)'
  BY <1>1
<1>7. e.on # Nil => IsUsed(e.on)
  BY <1>0, <1>3 DEF ThreadTypes
<1>8. \A l \in Lock : word'[l] # word[l] => l = Nil \/ IsUsed(l)
  BY <1>1, <1>7
<1>9. \A n : (IsUsed(n)' <=> IsUsed(n)) /\ (IsLeaf(n)' <=> IsLeaf(n)) /\ (IsInode(n)' <=> IsInode(n))
  BY <1>0, <1>2, TreeFitsSame
<1>10. ThreadTypes(t, rep, end)'
  <2>1. \A i \in DOMAIN todo'[t] : \E j \in DOMAIN todo[t] : todo'[t][i] = todo[t][j]
    BY <1>1 DEF Consumes
  <2>2. ASSUME NEW i \in DOMAIN todo'[t], todo'[t][i].on # Nil PROVE IsUsed(todo[t][i].on)'
    <3>1. PICK l : l = todo'[t][i].on
      OBVIOUS
    <3>2. PICK j \in DOMAIN todo[t] : todo'[t][i] = todo[t][j]
      BY <2>1
    <3>3. IsUsed(l)
      BY <1>0, <2>2, <3>1, <3>2 DEF ThreadTypes
    <3> QED
      BY <1>1, <3>1, <3>3 DEF IsUsed
  <2>3. ASSUME NEW i \in DOMAIN held'[t], held'[t][i] # Nil PROVE IsUsed(held[t][i])'
    <3>1. PICK l : l = held'[t][i]
      OBVIOUS
    <3>2. Holds(t, l)'
      BY <3>1 DEF Holds
    <3>3. Holds(t, l) \/ l = e.on
      BY <1>1, <3>2
    <3>4. IsUsed(l)
      BY <1>0, <1>7, <2>3, <3>1, <3>3 DEF Holds, ThreadTypes
    <3> QED
      BY <1>1, <3>1, <3>4 DEF IsUsed
  <2>4. \A r \in Role : IsUsed(at[t][r])' <=> IsUsed(at[t][r])
    BY <1>1 DEF IsUsed
  <2>5. /\ IsUsed(at[t]["node"])' <=> IsUsed(at[t]["node"])
        /\ IsUsed(at[t]["child"])' <=> IsUsed(at[t]["child"])
        /\ IsInode(at[t]["parent"])' <=> IsInode(at[t]["parent"])
        /\ IsInode(at[t]["node"])' <=> IsInode(at[t]["node"])
        /\ IsLeaf(at[t]["node"])' <=> IsLeaf(at[t]["node"])
        /\ IsLeaf(at[t]["child"])' <=> IsLeaf(at[t]["child"])
    BY <1>1 DEF IsUsed, IsLeaf, IsInode
  <2> QED
    BY <1>0, <1>1, <2>2, <2>3, <2>4, <2>5 DEF ThreadTypes
<1>11. ASSUME Valid(t)' PROVE Valid(t)
  <2> SUFFICES ASSUME NEW i \in DOMAIN todo[t], todo[t][i].do \in {"check", "upgrade"}
               PROVE  word[todo[t][i].on] = todo[t][i].ver
    BY DEF Valid
  <2>1. CASE i = 1
    BY <1>1, <1>3, <2>1
  <2>2. CASE i # 1
    <3>1. PICK l, v : l = todo[t][i].on /\ v = todo[t][i].ver
      OBVIOUS
    <3>2. todo[t] \in Seq(Entry)
      BY <1>0 DEF LockTypes
    <3>3. todo[t][i] \in Entry
      BY <3>2
    <3>4. l \in Lock /\ v \in Nat /\ Past(l, v)
      BY <1>0, <3>1, <3>3 DEF Entry, Versions
    <3>5. word'[l] = v => word[l] = v
      BY <1>0, <1>1, <3>4, PastKept
    <3>6. i - 1 \in DOMAIN todo'[t] /\ todo'[t][i - 1] = todo[t][i]
      BY <1>1, <2>2 DEF Consumes
    <3>7. word'[l] = v
      BY <1>11, <3>1, <3>6 DEF Valid
    <3> QED
      BY <3>1, <3>5, <3>7
  <2> QED
    BY <2>1, <2>2
<1>12. ASSUME NEW r \in Role, Current(t, r)' PROVE Current(t, r)
  <2>1. PICK l, v : l = at[t][r] /\ v = ver[t][r]
    OBVIOUS
  <2>2. l \in Lock /\ v \in Nat /\ Past(l, v)
    BY <1>0, <2>1 DEF LockTypes, Versions
  <2>3. word'[l] = v => word[l] = v
    BY <1>0, <1>1, <2>2, PastKept
  <2> QED
    BY <1>1, <1>12, <2>1, <2>3 DEF Current
<1>13. Current(t, "parent")' => Current(t, "parent")
  BY <1>12 DEF Role
<1>14. Current(t, "node")' => Current(t, "node")
  BY <1>12 DEF Role
<1>15. ASSUME ParentOK(t)', pc[t] \in {"at_node", "find_child"} PROVE ParentOK(t)
  <2>1. CASE op[t] # "get" \/ todo'[t] # <<>>
    BY <1>1, <1>13, <1>15, <2>1 DEF ParentOK
  <2>2. CASE op[t] = "get"
    <3>1. todo[t] # <<>>
      BY <1>1 DEF Consumes
    <3>2. pc[t] = "at_node"
      BY <1>0, <1>15, <3>1 DEF Lists
    <3>3. e = [do |-> "check", on |-> at[t]["parent"], ver |-> ver[t]["parent"]]
      BY <1>0, <1>3, <2>2, <3>1, <3>2 DEF Lists
    <3>4. e.do = "check" /\ e.on = at[t]["parent"] /\ e.ver = ver[t]["parent"]
      BY <3>3
    <3>5. Current(t, "parent")
      BY <1>1, <3>4 DEF Current
    <3> QED
      BY <3>5 DEF ParentOK
  <2> QED
    BY <2>1, <2>2
<1>16. ASSUME Valid(t)', t \notin torn' PROVE Believes(t, tree, rep, end, start)'
  <2>1. Believes(t, tree, rep, end, start)
    BY <1>0, <1>1, <1>11, <1>16 DEF Knows
  <2>2. OnLink(t, tree, rep, end)' <=> OnLink(t, tree, rep, end)
    BY <1>1 DEF OnLink, Linked, IsInode, IsUsed
  <2>3. OnPath(t, tree, rep, start)' <=> OnPath(t, tree, rep, start)
    BY <1>1 DEF OnPath, IsInode, IsUsed
  <2>4. PastPrefix(t, tree, rep, end)' <=> PastPrefix(t, tree, rep, end)
    BY <1>1 DEF PastPrefix
  <2>5. ToChild(t, end)' <=> ToChild(t, end)
    BY <1>1 DEF ToChild
  <2> QED
    BY <1>1, <1>13, <1>14, <1>15, <2>1, <2>2, <2>3, <2>4, <2>5 DEF Believes
<1>17. Knows(t, tree, rep, end, start)'
  BY <1>16 DEF Knows
<1>18. \A u \in Thread \ {t} : seen'[u] = seen[u] /\ (u \in torn' <=> u \in torn)
  BY <1>1
<1> QED
  BY <1>1, <1>2, <1>5, <1>6, <1>8, <1>10, <1>17, <1>18, TreeStays

\* The accesses of a list.
LEMMA AccessLocks ==
    ASSUME NEW tree, NEW rep, NEW end, NEW start, Inv(tree, rep, end, start),
           NEW t \in Thread,
           check(t) \/ try_upgrade_to_write_lock(t) \/ unlock_and_obsolete(t) \/ write_unlock(t)
    PROVE  LockInv' /\ \E e : LockAccess(t, e)
<1>0. LockInv /\ ThreadTypes(t, rep, end)
  BY DEF Inv
<1>1. \A r \in Role : Retires(pc[t], r) => at[t][r] # Nil
  <2> SUFFICES ASSUME NEW r \in Role, Retires(pc[t], r) PROVE at[t][r] # Nil
    OBVIOUS
  <2>1. CASE r = "node"
    <3>1. pc[t] \in HasNode
      BY <2>1 DEF Retires, HasNode, Commits, RemovesChild
    <3>2. IsUsed(at[t][r])
      BY <1>0, <2>1, <3>1 DEF ThreadTypes
    <3> QED
      BY <3>2 DEF IsUsed, Node, Nil
  <2>2. CASE r = "child"
    <3>1. pc[t] \in HasChildNode
      BY <2>2 DEF Retires, HasChildNode
    <3>2. IsUsed(at[t][r])
      BY <1>0, <2>2, <3>1 DEF ThreadTypes
    <3> QED
      BY <3>2 DEF IsUsed, Node, Nil
  <2> QED
    BY <2>1, <2>2 DEF Retires
<1> QED
  BY <1>0, <1>1, CheckLocks, UpgradeLocks, ObsoleteLocks, UnlockLocks

\* They keep the invariant.
LEMMA AccessesInv ==
    ASSUME NEW tree, NEW rep, NEW end, NEW start, Inv(tree, rep, end, start),
           NEW t \in Thread,
           check(t) \/ try_upgrade_to_write_lock(t) \/ unlock_and_obsolete(t) \/ write_unlock(t)
    PROVE  Inv(tree, rep, end, start)'
  BY AccessLocks, AccessInv

\* A thread starts over.
LEMMA RestartInv ==
    ASSUME NEW tree, NEW rep, NEW end, NEW start, Inv(tree, rep, end, start),
           NEW t \in Thread, Restart(t), \A l \in Lock : ~Retired(t, l), pc[t] # "idle"
    PROVE  Inv(tree, rep, end, start)'
<1>0. LockInv /\ ThreadTypes(t, rep, end) /\ TreeFits(tree, rep, end, start) /\ LockTypes /\ Lists(t)
  BY DEF Inv, LockInv
<1>1. LockInv' /\ Others(t)
  BY <1>0, RestartLocks
<1>2. /\ todo' = [todo EXCEPT ![t] = Unlocks(held[t])]
      /\ held' = [held EXCEPT ![t] = <<>>]
      /\ at'[t] = Nowhere /\ pc'[t] = "root_lock" /\ depth'[t] = 0 /\ result'[t] = Nil
      /\ UNCHANGED <<word, seen, op, key, root, nodes, map>>
      /\ torn' = torn \ {t}
  BY <1>0 DEF Restart, Goto, opVars, treeVars, LockTypes
<1>3. SameTree
  BY <1>2 DEF SameTree
<1>4. /\ \A i \in DOMAIN todo'[t] : Holds(t, todo'[t][i].on)
      /\ held'[t] = <<>>
      /\ \A i \in DOMAIN todo'[t] : todo'[t][i].do = "unlock"
  BY <1>0, <1>2, Releases
<1>5. ThreadTypes(t, rep, end)'
  <2>1. ASSUME NEW i \in DOMAIN todo'[t], todo'[t][i].on # Nil PROVE IsUsed(todo[t][i].on)'
    <3>1. PICK l : l = todo'[t][i].on
      OBVIOUS
    <3>2. IsUsed(l)
      BY <1>0, <1>4, <2>1, <3>1 DEF Holds, ThreadTypes
    <3> QED
      BY <1>2, <3>1, <3>2 DEF IsUsed
  <2>2. \A r \in Role : at'[t][r] = Nil
    BY <1>2 DEF Nowhere
  <2>3. Nil \in Lock /\ 0 \in Nat
    BY BoundAssumption DEF Nil, Lock
  <2>4. key'[t] \in Key /\ op'[t] # "none" /\ map'[key'[t]] \in seen'[t]
    BY <1>0, <1>2 DEF ThreadTypes
  <2>5. /\ pc'[t] \notin Commits \cup HasNode \cup HasInode \cup HasChildNode
        /\ pc'[t] \notin RemovesChild \cup Inserts
        /\ pc'[t] \notin {"split_leaf", "remove_root", "insert_root", "lock_node", "at_node",
                          "lock_child", "at_child"}
    BY <1>2 DEF Commits, HasNode, HasInode, HasChildNode, RemovesChild, Inserts
  <2> QED
    BY <1>2, <1>4, <2>1, <2>2, <2>3, <2>4, <2>5 DEF ThreadTypes
<1>6. Knows(t, tree, rep, end, start)'
  BY <1>2 DEF Knows, Believes, RemovesChild
<1>7. \A u \in Thread \ {t} : seen'[u] = seen[u] /\ (u \in torn' <=> u \in torn)
  BY <1>2
<1> QED
  BY <1>1, <1>2, <1>3, <1>5, <1>6, <1>7, QuietInv

\* A mismatch of versions, or an obsolete node, restarts the operation.
LEMMA RestartsInv ==
    ASSUME NEW tree, NEW rep, NEW end, NEW start, Inv(tree, rep, end, start),
           NEW t \in Thread,
           version_mismatch(t) \/ \E r \in {"node", "child"} : try_read_lock_obsolete(t, r)
    PROVE  Inv(tree, rep, end, start)'
<1>0. LockInv /\ LockTypes /\ Lists(t) /\ Guarding(t)
  BY DEF Inv, LockInv
<1>1. CASE version_mismatch(t)
  <2>1. PICK e : e = Head(todo[t])
    OBVIOUS
  <2>2. todo[t] # <<>> /\ e.do \in {"check", "upgrade"} /\ Restart(t)
    BY <1>1, <2>1 DEF version_mismatch
  <2>3. todo[t] \in Seq(Entry)
    BY <1>0 DEF LockTypes
  <2>4. 1 \in DOMAIN todo[t] /\ todo[t][1] = e
    BY <2>1, <2>2, <2>3
  <2>5. pc[t] # "idle"
    BY <1>0, <2>2 DEF Lists
  <2>6. pc[t] \in Commits => \A l \in Lock : ~Retired(t, l)
    BY <1>0, <2>2, <2>4 DEF Guarding
  <2>7. pc[t] \notin Commits => \A l : ~Retired(t, l)
    BY DEF Retired, Retires, Commits, RemovesChild
  <2> QED
    BY <2>2, <2>5, <2>6, <2>7, RestartInv
<1>2. ASSUME NEW r \in {"node", "child"}, try_read_lock_obsolete(t, r)
      PROVE  Inv(tree, rep, end, start)'
  <2>1. pc[t] \in {"lock_node", "lock_child"} /\ Restart(t)
    BY <1>2 DEF try_read_lock_obsolete, Ready
  <2>2. \A l : ~Retired(t, l)
    BY <2>1 DEF Retired, Retires, RemovesChild
  <2> QED
    BY <2>1, <2>2, RestartInv
<1> QED
  BY <1>1, <1>2

\* A thread is at none of its nodes yet, or no more.
LEMMA EarlyTypes ==
    ASSUME NEW rep, NEW end, NEW t \in Thread,
           pc'[t] \in {"idle", "root_lock", "load_root"},
           at'[t] = Nowhere, depth'[t] = 0, todo'[t] = <<>>, held'[t] = <<>>, result'[t] \in Lock,
           pc'[t] # "idle" => key'[t] \in Key /\ op'[t] # "none" /\ map'[key'[t]] \in seen'[t],
           t \in torn' => op'[t] = "get" /\ pc'[t] # "idle"
    PROVE  ThreadTypes(t, rep, end)' /\ \A tree, start : Knows(t, tree, rep, end, start)'
<1>1. \A r \in Role : at'[t][r] = Nil
  BY DEF Nowhere
<1>2. /\ pc'[t] \notin Commits \cup HasNode \cup HasInode \cup HasChildNode
      /\ pc'[t] \notin RemovesChild \cup Inserts
      /\ pc'[t] \notin {"split_leaf", "remove_root", "insert_root", "lock_node", "at_node",
                        "lock_child", "at_child", "find_child", "return"}
  BY DEF Commits, HasNode, HasInode, HasChildNode, RemovesChild, Inserts
<1>3. ThreadTypes(t, rep, end)'
  BY <1>1, <1>2 DEF ThreadTypes
<1>4. ASSUME NEW tree, NEW start PROVE Believes(t, tree, rep, end, start)'
  <2>1. pc'[t] \notin {"lock_node", "at_node", "find_child", "lock_child", "at_child", "return",
                       "insert_root", "split_leaf", "split_prefix", "add_to_nonfull", "grow",
                       "remove_root", "remove_child", "leave_last_child", "shrink"}
    OBVIOUS
  <2> QED
    BY <1>2, <2>1 DEF Believes
<1> QED
  BY <1>3, <1>4 DEF Knows

\* An operation begins.
LEMMA StartInv ==
    ASSUME NEW tree, NEW rep, NEW end, NEW start, Inv(tree, rep, end, start),
           NEW t \in Thread, NEW o \in {"get", "insert", "remove"}, NEW k \in Key,
           pc[t] = "idle", Start(t, o, k)
    PROVE  Inv(tree, rep, end, start)'
<1>0. LockInv /\ ThreadTypes(t, rep, end) /\ TreeFits(tree, rep, end, start) /\ LockTypes
      /\ Lists(t) /\ Versions(t)
  BY DEF Inv, LockInv
<1>1. todo[t] = <<>> /\ pc[t] \notin Commits
  BY <1>0 DEF Lists, Commits
<1>2. held[t] = <<>> /\ \A l : ~Mine(t, l)
  BY <1>0, <1>1, NoGuards
<1>3. /\ op' = [op EXCEPT ![t] = o] /\ key' = [key EXCEPT ![t] = k]
      /\ seen' = [seen EXCEPT ![t] = {map[k]}] /\ pc' = [pc EXCEPT ![t] = "root_lock"]
      /\ UNCHANGED <<root, nodes, word, map, torn, depth, at, ver, todo, held, result>>
  BY DEF Start, Goto, treeVars, rcsVars
<1>4. LockTypes'
  <2>1. "root_lock" \in Labels
    BY DEF Labels
  <2> QED
    BY <1>0, <1>3, <2>1 DEF LockTypes
<1>5. Others(t) /\ SameTree
  BY <1>0, <1>3 DEF Others, SameTree, LockTypes
<1>6. /\ pc'[t] = "root_lock" /\ op'[t] = o /\ key'[t] = k /\ seen'[t] = {map[k]}
      /\ \A u \in Thread \ {t} : seen'[u] = seen[u]
  BY <1>0, <1>3 DEF LockTypes
<1>7. at[t] = Nowhere /\ ver[t]["node"] = 0 /\ ver[t]["child"] = 0
      /\ \A r \in Role : Past(at[t][r], ver[t][r])
  BY <1>0, <1>1 DEF Versions
<1>8. LockInv'
  <2>1. \A r \in Role : Past(at[t][r], ver[t][r])'
    BY <1>3, <1>7 DEF Past
  <2>2. pc'[t] \notin Commits
    BY <1>6 DEF Commits
  <2>3. ver'[t]["node"] = 0 /\ ver'[t]["child"] = 0 /\ at'[t] = Nowhere
    BY <1>3, <1>7
  <2> QED
    BY <1>0, <1>1, <1>3, <1>4, <1>5, <2>1, <2>2, <2>3, NoListStep
<1>9. ThreadTypes(t, rep, end)' /\ Knows(t, tree, rep, end, start)'
  <2>1. depth[t] = 0 /\ result[t] \in Lock /\ t \notin torn
    BY <1>0 DEF ThreadTypes
  <2> QED
    BY <1>1, <1>2, <1>3, <1>6, <1>7, <2>1, EarlyTypes
<1> QED
  BY <1>2, <1>3, <1>5, <1>6, <1>8, <1>9, QuietInv DEF Mine

\* Going back to idle before any write.
LEMMA LeaveInv ==
    ASSUME NEW tree, NEW rep, NEW end, NEW start, Inv(tree, rep, end, start),
           NEW t \in Thread, pc[t] \notin Commits, todo[t] = <<>>, Leave(t)
    PROVE  Inv(tree, rep, end, start)'
<1>0. LockInv /\ ThreadTypes(t, rep, end) /\ TreeFits(tree, rep, end, start) /\ LockTypes
  BY DEF Inv, LockInv
<1>2. held[t] = <<>> /\ \A l : ~Mine(t, l)
  BY <1>0, NoGuards
<1>3. /\ op' = [op EXCEPT ![t] = "none"] /\ key' = [key EXCEPT ![t] = <<>>]
      /\ result' = [result EXCEPT ![t] = Nil] /\ depth' = [depth EXCEPT ![t] = 0]
      /\ at' = [at EXCEPT ![t] = Nowhere] /\ ver' = [ver EXCEPT ![t] = Nowhere]
      /\ seen' = [seen EXCEPT ![t] = {}] /\ pc' = [pc EXCEPT ![t] = "idle"]
      /\ torn' = torn \ {t}
      /\ UNCHANGED <<root, nodes, word, map, todo, held>>
  BY DEF Leave, Goto, treeVars
<1>4. Nil \in Lock /\ Nil \in Nat /\ Nowhere \in [Role -> Lock] /\ Nowhere \in [Role -> Nat]
      /\ "idle" \in Labels /\ \A r \in Role : Nowhere[r] = 0
  BY BoundAssumption DEF Nil, Lock, Nowhere, Labels
<1>5. LockTypes'
  BY <1>0, <1>3, <1>4 DEF LockTypes
<1>6. Others(t) /\ SameTree
  BY <1>0, <1>3 DEF Others, SameTree, LockTypes
<1>7. /\ pc'[t] = "idle" /\ at'[t] = Nowhere /\ ver'[t] = Nowhere /\ depth'[t] = 0 /\ result'[t] = Nil
      /\ t \notin torn'
      /\ \A u \in Thread \ {t} : seen'[u] = seen[u] /\ (u \in torn' <=> u \in torn)
  BY <1>0, <1>3 DEF LockTypes
<1>8. LockInv'
  <2>1. word'[0] \in Nat
    BY <1>4, <1>5 DEF LockTypes, Nil
  <2>2. \A r \in Role : Past(at[t][r], ver[t][r])'
    BY <1>4, <1>7, <2>1 DEF Past
  <2>3. ver'[t]["node"] = 0 /\ ver'[t]["child"] = 0 /\ pc'[t] \notin Commits
    BY <1>4, <1>7 DEF Role, Commits
  <2> QED
    BY <1>0, <1>3, <1>5, <1>6, <1>7, <2>2, <2>3, NoListStep
<1>9. ThreadTypes(t, rep, end)' /\ Knows(t, tree, rep, end, start)'
  BY <1>2, <1>3, <1>4, <1>7, EarlyTypes
<1> QED
  BY <1>2, <1>3, <1>6, <1>7, <1>8, <1>9, QuietInv DEF Mine

\* An operation returns, or an allocation fails before any write.
LEMMA LeavesInv ==
    ASSUME NEW tree, NEW rep, NEW end, NEW start, Inv(tree, rep, end, start),
           NEW t \in Thread, return(t) \/ bad_alloc(t)
    PROVE  Inv(tree, rep, end, start)'
<1>1. Leave(t)
  BY DEF return, bad_alloc
<1>2. todo[t] = <<>> /\ pc[t] \in {"return", "load_root", "at_node", "find_child", "at_child"}
  BY DEF return, bad_alloc, Allocates, Ready, AtLeaf, PrefixDiffers, AtInode
<1>3. pc[t] \notin Commits
  BY <1>2 DEF Commits
<1> QED
  BY <1>1, <1>2, <1>3, LeaveInv

\* The root pointer's lock is read.
LEMMA LockRootInv ==
    ASSUME NEW tree, NEW rep, NEW end, NEW start, Inv(tree, rep, end, start),
           NEW t \in Thread, try_read_lock_root(t)
    PROVE  Inv(tree, rep, end, start)'
<1>0. LockInv /\ ThreadTypes(t, rep, end) /\ TreeFits(tree, rep, end, start) /\ LockTypes /\ Versions(t)
  BY DEF Inv, LockInv
<1>1. /\ pc[t] = "root_lock" /\ todo[t] = <<>> /\ word[Nil] % 4 = 0
      /\ ver' = [ver EXCEPT ![t]["parent"] = word[Nil]]
      /\ pc' = [pc EXCEPT ![t] = "load_root"]
      /\ UNCHANGED <<root, nodes, word, map, seen, torn, op, key, depth, at, todo, held, result>>
  BY DEF try_read_lock_root, Ready, is_free, Goto, treeVars, historyVars, opVars
<1>2. pc[t] \notin Commits
  BY <1>1 DEF Commits
<1>3. held[t] = <<>> /\ \A l : ~Mine(t, l)
  BY <1>0, <1>1, <1>2, NoGuards
<1>4. Nil \in Lock /\ "load_root" \in Labels /\ "parent" \in Role
  BY BoundAssumption DEF Nil, Lock, Labels, Role
<1>5. word[Nil] \in Nat /\ ver' \in [Thread -> [Role -> Nat]]
  BY <1>0, <1>1, <1>4 DEF LockTypes
<1>6. LockTypes'
  BY <1>0, <1>1, <1>4, <1>5 DEF LockTypes
<1>7. Others(t) /\ SameTree
  BY <1>0, <1>1 DEF Others, SameTree, LockTypes
<1>8. /\ pc'[t] = "load_root" /\ ver'[t]["parent"] = word[Nil]
      /\ \A r \in Role : r # "parent" => ver'[t][r] = ver[t][r]
  BY <1>0, <1>1, <1>4 DEF LockTypes
<1>9. at[t] = Nowhere /\ ver[t]["node"] = 0 /\ ver[t]["child"] = 0
      /\ \A r \in Role : Past(at[t][r], ver[t][r])
  BY <1>0, <1>1, <1>2 DEF Versions
<1>10. LockInv'
  <2>1. ASSUME NEW r \in Role PROVE Past(at[t][r], ver[t][r])'
    <3>1. CASE r = "parent"
      <4>1. at'[t][r] = Nil
        BY <1>1, <1>9, <3>1 DEF Nowhere
      <4> QED
        BY <1>1, <1>5, <1>8, <3>1, <4>1 DEF Past
    <3>2. CASE r # "parent"
      BY <1>1, <1>8, <1>9, <3>2 DEF Past
    <3> QED
      BY <3>1, <3>2
  <2>2. ver'[t]["node"] = 0 /\ ver'[t]["child"] = 0 /\ pc'[t] \notin Commits /\ at'[t] = Nowhere
    BY <1>1, <1>8, <1>9 DEF Role, Commits
  <2> QED
    BY <1>0, <1>1, <1>2, <1>6, <1>7, <2>1, <2>2, NoListStep
<1>11. ThreadTypes(t, rep, end)' /\ Knows(t, tree, rep, end, start)'
  <2>1. /\ depth[t] = 0 /\ result[t] \in Lock /\ key[t] \in Key /\ op[t] # "none"
        /\ map[key[t]] \in seen[t] /\ (t \in torn => op[t] = "get")
    BY <1>0, <1>1 DEF ThreadTypes
  <2>2. /\ depth'[t] = 0 /\ result'[t] \in Lock /\ key'[t] \in Key /\ op'[t] # "none"
        /\ map'[key'[t]] \in seen'[t] /\ (t \in torn' => op'[t] = "get")
        /\ todo'[t] = <<>> /\ held'[t] = <<>> /\ at'[t] = Nowhere
        /\ pc'[t] \in {"idle", "root_lock", "load_root"} /\ pc'[t] # "idle"
    BY <1>1, <1>3, <1>8, <1>9, <2>1
  <2> QED
    BY <2>2, EarlyTypes
<1>12. \A u \in Thread \ {t} : seen'[u] = seen[u] /\ (u \in torn' <=> u \in torn)
  BY <1>1
<1> QED
  BY <1>1, <1>3, <1>7, <1>10, <1>11, <1>12, QuietInv DEF Mine

(***************************************************************************)
(* The lists of the code.                                                  *)
(***************************************************************************)
LEMMA CheckLists ==
    /\ GoodSteps(<< <<"check", "parent">> >>) /\ OnlyChecks(<< <<"check", "parent">> >>)
    /\ GoodSteps(<< <<"check", "node">> >>) /\ OnlyChecks(<< <<"check", "node">> >>)
    /\ GoodSteps(<< <<"check", "parent">>, <<"check", "node">> >>)
    /\ OnlyChecks(<< <<"check", "parent">>, <<"check", "node">> >>)
    /\ GoodSteps(<< <<"check", "parent">>, <<"check", "node">>, <<"check", "child">> >>)
    /\ OnlyChecks(<< <<"check", "parent">>, <<"check", "node">>, <<"check", "child">> >>)
<1>1. /\ <<"check", "parent">> \in Accesses /\ <<"check", "node">> \in Accesses
      /\ <<"check", "child">> \in Accesses
  BY DEF Accesses, Role
<1>2. GoodSteps(<< <<"check", "parent">> >>) /\ OnlyChecks(<< <<"check", "parent">> >>)
  BY <1>1 DEF GoodSteps, OnlyChecks
<1>3. GoodSteps(<< <<"check", "node">> >>) /\ OnlyChecks(<< <<"check", "node">> >>)
  BY <1>1 DEF GoodSteps, OnlyChecks
<1>4. /\ GoodSteps(<< <<"check", "parent">>, <<"check", "node">> >>)
      /\ OnlyChecks(<< <<"check", "parent">>, <<"check", "node">> >>)
  BY <1>1 DEF GoodSteps, OnlyChecks
<1>5. /\ GoodSteps(<< <<"check", "parent">>, <<"check", "node">>, <<"check", "child">> >>)
      /\ OnlyChecks(<< <<"check", "parent">>, <<"check", "node">>, <<"check", "child">> >>)
  BY <1>1 DEF GoodSteps, OnlyChecks
<1> QED
  BY <1>2, <1>3, <1>4, <1>5

\* The lists of accesses that the code makes before each write section are well-formed,
\* and take and retire what that section needs.
LEMMA CommitLists ==
    /\ GoodSteps(<< <<"upgrade", "parent">> >>)
    /\ Prepares("insert_root", << <<"upgrade", "parent">> >>)
    /\ GoodSteps(<< <<"upgrade", "parent">>, <<"upgrade", "node">> >>)
    /\ \A label \in {"split_leaf", "split_prefix"} :
          Prepares(label, << <<"upgrade", "parent">>, <<"upgrade", "node">> >>)
    /\ GoodSteps(<< <<"upgrade", "parent">>, <<"upgrade", "node">>, <<"obsolete", "node">> >>)
    /\ \A label \in {"grow", "remove_root"} :
          Prepares(label, << <<"upgrade", "parent">>, <<"upgrade", "node">>, <<"obsolete", "node">> >>)
    /\ GoodSteps(<< <<"upgrade", "node">>, <<"check", "parent">> >>)
    /\ Prepares("add_to_nonfull", << <<"upgrade", "node">>, <<"check", "parent">> >>)
    /\ GoodSteps(<< <<"check", "parent">>, <<"upgrade", "node">>, <<"upgrade", "child">>,
                    <<"obsolete", "child">> >>)
    /\ Prepares("remove_child", << <<"check", "parent">>, <<"upgrade", "node">>,
                                   <<"upgrade", "child">>, <<"obsolete", "child">> >>)
    /\ GoodSteps(shrink_steps)
    /\ \A label \in {"leave_last_child", "shrink"} : Prepares(label, shrink_steps)
<1>1. \A d \in {"check", "upgrade", "obsolete"}, r \in {"parent", "node", "child"} :
         <<d, r>> \in Accesses
  BY DEF Accesses, Role
<1>2. /\ GoodSteps(<< <<"upgrade", "parent">> >>)
      /\ Prepares("insert_root", << <<"upgrade", "parent">> >>)
  BY <1>1 DEF GoodSteps, Prepares, Includes, Role, Guards, Retires, Commits, RemovesChild
<1>3. GoodSteps(<< <<"upgrade", "parent">>, <<"upgrade", "node">> >>)
  BY <1>1 DEF GoodSteps
<1>4. ASSUME NEW label \in {"split_leaf", "split_prefix"}
      PROVE  Prepares(label, << <<"upgrade", "parent">>, <<"upgrade", "node">> >>)
  BY <1>1 DEF Prepares, Includes, Role, Guards, Retires, Commits, RemovesChild
<1>5. GoodSteps(<< <<"upgrade", "parent">>, <<"upgrade", "node">>, <<"obsolete", "node">> >>)
  BY <1>1 DEF GoodSteps
<1>6. ASSUME NEW label \in {"grow", "remove_root"}
      PROVE  Prepares(label, << <<"upgrade", "parent">>, <<"upgrade", "node">>, <<"obsolete", "node">> >>)
  BY <1>1 DEF Prepares, Includes, Role, Guards, Retires, Commits, RemovesChild
<1>7. GoodSteps(<< <<"upgrade", "node">>, <<"check", "parent">> >>)
  BY <1>1 DEF GoodSteps
<1>8. Prepares("add_to_nonfull", << <<"upgrade", "node">>, <<"check", "parent">> >>)
  BY <1>1 DEF Prepares, Includes, Role, Guards, Retires, Commits, RemovesChild
<1>9. GoodSteps(<< <<"check", "parent">>, <<"upgrade", "node">>, <<"upgrade", "child">>,
                    <<"obsolete", "child">> >>)
  BY <1>1 DEF GoodSteps
<1>10. Prepares("remove_child", << <<"check", "parent">>, <<"upgrade", "node">>,
                                   <<"upgrade", "child">>, <<"obsolete", "child">> >>)
  BY <1>1 DEF Prepares, Includes, Role, Guards, Retires, Commits, RemovesChild
<1>11. GoodSteps(shrink_steps)
  BY <1>1 DEF GoodSteps, shrink_steps
<1>12. ASSUME NEW label \in {"leave_last_child", "shrink"} PROVE Prepares(label, shrink_steps)
  BY <1>1 DEF Prepares, Includes, Role, Guards, Retires, Commits, RemovesChild, shrink_steps
<1> QED
  BY <1>2, <1>3, <1>4, <1>5, <1>6, <1>7, <1>8, <1>9, <1>10, <1>11, <1>12

\* The nodes of a thread are distinct.
LEMMA RolesApart ==
    ASSUME NEW tree, NEW rep, NEW end, NEW start, Inv(tree, rep, end, start),
           NEW t \in Thread
    PROVE  /\ pc[t] \in HasNode => at[t]["parent"] # at[t]["node"]
           /\ pc[t] \in HasNode /\ pc[t] \in HasInode /\ pc[t] \in HasChildNode =>
                 at[t]["child"] # at[t]["node"] /\ at[t]["child"] # at[t]["parent"]
<1>1. end \in [Node -> 0 .. KeyLen] /\ KeyLen \in Nat
  BY KeyAssumption DEF Inv, TreeFits, TreeTypes
<1>2. PICK p, n, c : p = at[t]["parent"] /\ n = at[t]["node"] /\ c = at[t]["child"]
  OBVIOUS
<1>3. ThreadTypes(t, rep, end)
  BY DEF Inv
<1>4. \A m : IsUsed(m) => m \in Node /\ m # Nil
  BY DEF IsUsed, Node, Nil
<1>5. ASSUME pc[t] \in HasNode
      PROVE  n \in Node /\ n # Nil /\ (p # Nil => p \in Node /\ end[p] < end[n])
  BY <1>2, <1>3, <1>4, <1>5 DEF ThreadTypes, IsInode
<1>6. ASSUME pc[t] \in HasChildNode
      PROVE  c \in Node /\ c # Nil /\ end[n] < end[c]
  BY <1>2, <1>3, <1>4, <1>6 DEF ThreadTypes
<1>7. \A l \in Node : end[l] \in Nat
  BY <1>1
<1>8. pc[t] \in HasNode => p # n
  <2> SUFFICES ASSUME pc[t] \in HasNode, p = n PROVE FALSE
    OBVIOUS
  <2>1. end[n] < end[n] /\ end[n] \in Nat
    BY <1>5, <1>7
  <2> QED
    BY <2>1
<1>9. pc[t] \in HasNode /\ pc[t] \in HasChildNode => c # n /\ c # p
  <2> SUFFICES ASSUME pc[t] \in HasNode, pc[t] \in HasChildNode PROVE c # n /\ c # p
    OBVIOUS
  <2>1. end[n] < end[c] /\ end[n] \in Nat /\ end[c] \in Nat
    BY <1>5, <1>6, <1>7
  <2>2. c # n
    BY <2>1
  <2>3. p # Nil => end[p] < end[n] /\ end[p] \in Nat
    BY <1>5, <1>7
  <2>4. c # p
    BY <1>6, <2>1, <2>3
  <2> QED
    BY <2>2, <2>4
<1> QED
  BY <1>2, <1>8, <1>9

\* With an empty list, a thread that is not torn believes.
LEMMA Believing ==
    ASSUME NEW tree, NEW rep, NEW end, NEW start, Inv(tree, rep, end, start),
           NEW t \in Thread, todo[t] = <<>>, t \notin torn
    PROVE  Believes(t, tree, rep, end, start)
<1>1. Valid(t)
  BY DEF Valid
<1> QED
  BY <1>1 DEF Inv, Knows

\* The list of the step succeeds where its versions are current.
LEMMA PlanValid ==
    ASSUME LockTypes, NEW t \in Thread, NEW steps, GoodSteps(steps), Plan(t, steps),
           word' = word, Valid(t)', NEW i \in DOMAIN steps, steps[i][1] \in {"check", "upgrade"}
    PROVE  Current(t, steps[i][2])
<1>1. /\ DOMAIN todo'[t] = DOMAIN steps
      /\ todo'[t][i].do = steps[i][1]
      /\ todo'[t][i].on = at[t][steps[i][2]]
      /\ todo'[t][i].ver = ver[t][steps[i][2]]
  BY PlanIs
<1>2. word'[todo'[t][i].on] = todo'[t][i].ver
  BY <1>1 DEF Valid
<1> QED
  BY <1>1, <1>2 DEF Current

\* The locks of a list are those of the thread's nodes.
LEMMA PlanUsed ==
    ASSUME NEW rep, NEW end, LockTypes, NEW t \in Thread, ThreadTypes(t, rep, end),
           NEW steps, GoodSteps(steps), Plan(t, steps), SameTree
    PROVE  \A i \in DOMAIN todo'[t] : todo'[t][i].on # Nil => IsUsed(todo[t][i].on)'
<1> SUFFICES ASSUME NEW i \in DOMAIN todo'[t], todo'[t][i].on # Nil
             PROVE  IsUsed(todo[t][i].on)'
  OBVIOUS
<1>1. PICK r \in Role : todo'[t][i].on = at[t][r]
  BY PlanIs
<1>2. PICK l : l = todo'[t][i].on
  OBVIOUS
<1>3. IsUsed(l)
  BY <1>1, <1>2 DEF ThreadTypes
<1> QED
  BY <1>2, <1>3 DEF IsUsed, SameTree

\* The step only decides what to do next.
Steady == UNCHANGED <<treeVars, word, historyVars, opVars, rcsVars, held>>

\* A decision to return r after some checks, when r is right if they all succeed.
LEMMA ReturnInv ==
    ASSUME NEW tree, NEW rep, NEW end, NEW start, Inv(tree, rep, end, start),
           NEW t \in Thread, pc[t] \notin Commits \cup {"idle"}, todo[t] = <<>>,
           NEW steps, GoodSteps(steps), OnlyChecks(steps), RolesDiffer(t, steps),
           NEW r \in Lock, Return(t, r, steps), Steady,
           t \notin torn /\ (\A i \in DOMAIN steps : Current(t, steps[i][2])) => r \in seen[t]
    PROVE  Inv(tree, rep, end, start)'
<1>0. LockInv /\ ThreadTypes(t, rep, end) /\ TreeFits(tree, rep, end, start) /\ LockTypes /\ Versions(t)
  BY DEF Inv, LockInv
<1>1. /\ Plan(t, steps) /\ result' = [result EXCEPT ![t] = r] /\ pc' = [pc EXCEPT ![t] = "return"]
      /\ UNCHANGED <<root, nodes, word, map, seen, torn, op, key, depth, at, ver, held, load, left>>
  BY DEF Return, Goto, Steady, treeVars, historyVars, opVars, rcsVars
<1>2. /\ todo' \in [Thread -> Seq(Entry)]
      /\ \A u \in Thread \ {t} : todo'[u] = todo[u]
  BY <1>0, <1>1, PlanIs
<1>3. LockTypes' /\ pc'[t] = "return" /\ result'[t] = r
  <2>1. "return" \in Labels
    BY DEF Labels
  <2> QED
    BY <1>0, <1>1, <1>2, <2>1 DEF LockTypes
<1>4. Others(t) /\ SameTree
  BY <1>0, <1>1, <1>2 DEF Others, SameTree, LockTypes
<1>5. held[t] = <<>> /\ \A l : ~Mine(t, l)
  BY <1>0, NoGuards
<1>6. LockInv'
  <2>1. \A q \in Role : Past(at[t][q], ver[t][q])'
    BY <1>0, <1>1 DEF Past, Versions
  <2>2. pc'[t] \notin Commits \cup {"idle", "load_root", "find_child", "at_child", "root_lock",
                                    "lock_node", "at_node"}
    BY <1>3 DEF Commits
  <2> QED
    BY <1>0, <1>1, <1>3, <1>4, <2>1, <2>2, ChecksStep
<1>7. ThreadTypes(t, rep, end)'
  <2>1. \A i \in DOMAIN todo'[t] : todo'[t][i].on # Nil => IsUsed(todo[t][i].on)'
    BY <1>0, <1>1, <1>4, PlanUsed
  <2>2. \A q \in Role : IsUsed(at[t][q])' <=> IsUsed(at[t][q])
    BY <1>1 DEF IsUsed
  <2>3. /\ pc'[t] \notin Commits \cup HasNode \cup HasInode \cup HasChildNode
        /\ pc'[t] \notin RemovesChild \cup Inserts
    BY <1>3 DEF Commits, HasNode, HasInode, HasChildNode, RemovesChild, Inserts
  <2> QED
    BY <1>0, <1>1, <1>3, <1>5, <2>1, <2>2, <2>3 DEF ThreadTypes
<1>8. Knows(t, tree, rep, end, start)'
  <2>1. ASSUME Valid(t)', t \notin torn' PROVE r \in seen'[t]
    <3>1. \A i \in DOMAIN steps : Current(t, steps[i][2])
      BY <1>0, <1>1, <2>1, PlanValid DEF OnlyChecks
    <3> QED
      BY <1>1, <2>1, <3>1
  <2>2. r \in seen'[t] => Believes(t, tree, rep, end, start)'
    BY <1>3 DEF Believes, RemovesChild
  <2> QED
    BY <2>1, <2>2 DEF Knows
<1>9. \A u \in Thread \ {t} : seen'[u] = seen[u] /\ (u \in torn' <=> u \in torn)
  BY <1>1
<1> QED
  BY <1>1, <1>4, <1>5, <1>6, <1>7, <1>8, <1>9, QuietInv DEF Mine

\* What the types of a thread say of a commit.
CommitTypes(t, rep, end, label, r) ==
    LET p == at[t]["parent"]
        n == at[t]["node"]
        c == at[t]["child"]
    IN /\ label \in HasNode => IsUsed(n) /\ (p # Nil => IsInode(p) /\ end[p] < end[n])
       /\ label \in HasInode => IsInode(n)
       /\ label \in HasChildNode => IsUsed(c) /\ end[n] < end[c]
       /\ label \in RemovesChild => IsLeaf(c) /\ nodes[c].key = key[t] /\ r = c
       /\ label \in {"split_leaf", "remove_root"} => IsLeaf(n)
       /\ label = "insert_root" => p = Nil
       /\ label = "remove_root" => p = Nil /\ nodes[n].key = key[t] /\ r = n
       /\ label = "split_leaf" => nodes[n].key # key[t]
       /\ label \in Inserts => op[t] = "insert" /\ r = Nil
       /\ label \in RemovesChild \cup {"remove_root"} => op[t] = "remove"

\* A decision to write after a list of accesses, when what the write section needs is
\* believed if they all succeed.
LEMMA CommitInv ==
    ASSUME NEW tree, NEW rep, NEW end, NEW start, Inv(tree, rep, end, start),
           NEW t \in Thread, pc[t] \notin Commits \cup {"idle"}, todo[t] = <<>>,
           NEW label, NEW steps, GoodSteps(steps), Prepares(label, steps), RolesDiffer(t, steps),
           NEW r \in Lock, Commit(t, label, r, steps), Steady,
           at[t]["parent"] # at[t]["node"] \/ label = "insert_root",
           label \in RemovesChild => /\ at[t]["child"] # at[t]["node"]
                                     /\ at[t]["child"] # at[t]["parent"],
           CommitTypes(t, rep, end, label, r),
           /\ t \notin torn
           /\ \A i \in DOMAIN steps : steps[i][1] \in {"check", "upgrade"} => Current(t, steps[i][2])
           => Believes(t, tree, rep, end, start)'
    PROVE  Inv(tree, rep, end, start)'
<1>0. LockInv /\ ThreadTypes(t, rep, end) /\ TreeFits(tree, rep, end, start) /\ LockTypes /\ Versions(t)
  BY DEF Inv, LockInv
<1>1. /\ Plan(t, steps) /\ result' = [result EXCEPT ![t] = r] /\ pc' = [pc EXCEPT ![t] = label]
      /\ UNCHANGED <<root, nodes, word, map, seen, torn, op, key, depth, at, ver, held, load, left>>
  BY DEF Commit, Goto, Steady, treeVars, historyVars, opVars, rcsVars
<1>2. /\ todo' \in [Thread -> Seq(Entry)]
      /\ \A u \in Thread \ {t} : todo'[u] = todo[u]
  BY <1>0, <1>1, PlanIs
<1>3. LockTypes' /\ pc'[t] = label /\ result'[t] = r
  <2>1. label \in Labels
    BY DEF Labels, Prepares
  <2> QED
    BY <1>0, <1>1, <1>2, <2>1 DEF LockTypes
<1>4. Others(t) /\ SameTree
  BY <1>0, <1>1, <1>2 DEF Others, SameTree, LockTypes
<1>5. held[t] = <<>> /\ \A l : ~Mine(t, l)
  BY <1>0, NoGuards
<1>6. LockInv'
  BY <1>0, <1>1, <1>3, <1>4, CommitStep
<1>7. ThreadTypes(t, rep, end)'
  <2>1. \A i \in DOMAIN todo'[t] : todo'[t][i].on # Nil => IsUsed(todo[t][i].on)'
    BY <1>0, <1>1, <1>4, PlanUsed
  <2>2. \A q \in Role : IsUsed(at[t][q])' <=> IsUsed(at[t][q])
    BY <1>1 DEF IsUsed
  <2>3. label \in Commits
    BY DEF Prepares
  <2>4. pc'[t] \notin {"idle", "root_lock", "load_root", "lock_node", "at_node", "lock_child", "at_child"}
    BY <1>3, <2>3 DEF Commits
  <2>5. /\ IsUsed(at[t]["node"])' <=> IsUsed(at[t]["node"])
        /\ IsUsed(at[t]["child"])' <=> IsUsed(at[t]["child"])
        /\ IsInode(at[t]["parent"])' <=> IsInode(at[t]["parent"])
        /\ IsInode(at[t]["node"])' <=> IsInode(at[t]["node"])
        /\ IsLeaf(at[t]["node"])' <=> IsLeaf(at[t]["node"])
        /\ IsLeaf(at[t]["child"])' <=> IsLeaf(at[t]["child"])
    BY <1>1 DEF IsUsed, IsLeaf, IsInode
  <2>6. held'[t] = <<>> /\ depth'[t] \in Nat
    BY <1>0, <1>1, <1>5 DEF ThreadTypes
  <2>7. key'[t] \in Key /\ op'[t] # "none" /\ map'[key'[t]] \in seen'[t]
        /\ (t \in torn' => op'[t] = "get")
    BY <1>0, <1>1 DEF ThreadTypes
  <2>8. \A q \in Role : at'[t][q] # Nil => IsUsed(at[t][q])'
    BY <1>0, <1>1, <2>2 DEF ThreadTypes
  <2>9. /\ at' = at /\ nodes' = nodes /\ key' = key /\ op' = op
    BY <1>1
  <2> QED
    BY <1>3, <2>1, <2>4, <2>5, <2>6, <2>7, <2>8, <2>9 DEF ThreadTypes, CommitTypes
<1>8. Knows(t, tree, rep, end, start)'
  <2>1. ASSUME Valid(t)', t \notin torn' PROVE Believes(t, tree, rep, end, start)'
    <3>1. \A i \in DOMAIN steps : steps[i][1] \in {"check", "upgrade"} => Current(t, steps[i][2])
      BY <1>0, <1>1, <2>1, PlanValid
    <3> QED
      BY <1>1, <2>1, <3>1
  <2> QED
    BY <2>1 DEF Knows
<1>9. \A u \in Thread \ {t} : seen'[u] = seen[u] /\ (u \in torn' <=> u \in torn)
  BY <1>1
<1> QED
  BY <1>1, <1>4, <1>5, <1>6, <1>7, <1>8, <1>9, QuietInv DEF Mine

(***************************************************************************)
(* What a thread reads where its key leads to.                             *)
(***************************************************************************)
LEMMA Standing ==
    ASSUME NEW tree, NEW rep, NEW end, NEW start, TreeFits(tree, rep, end, start)
    PROVE  /\ Shape(tree, rep, end, start) /\ Paths(root, kidsOf, tree, rep, end, start)
           /\ nodes \in [Node -> AnyNode] /\ LabelsFit(rep, end) /\ MapFits(tree)
           /\ PrefixesFit(tree, rep, end, start)
           /\ tree \subseteq Node /\ KeyLen \in Nat /\ \A n \in tree : IsUsed(n)
           /\ \A n \in Node : rep[n] \in Bytes /\ end[n] \in 0 .. KeyLen /\ start[n] \in 0 .. KeyLen
           /\ \A n \in tree : IsInode(n) => kidsOf[n] = nodes[n].kids
<1>1. /\ TreeTypes(tree, rep, end, start) /\ LabelsFit(rep, end) /\ MapFits(tree)
      /\ Paths(root, kidsOf, tree, rep, end, start) /\ PrefixesFit(tree, rep, end, start)
  BY DEF TreeFits
<1>2. \A n \in tree : start[n] <= end[n]
  BY <1>1 DEF Paths
<1>3. Shape(tree, rep, end, start)
  BY <1>1, <1>2, TreeShape
<1>4. tree \subseteq Node /\ nodes \in [Node -> AnyNode] /\ \A n \in tree : IsUsed(n)
  BY <1>1 DEF TreeTypes, IsUsed
<1>5. \A n \in Node : rep[n] \in Bytes /\ end[n] \in 0 .. KeyLen /\ start[n] \in 0 .. KeyLen
  BY <1>1 DEF TreeTypes
<1>6. \A n \in tree : IsInode(n) => kidsOf[n] = nodes[n].kids
  BY <1>4, KidsOfNow
<1> QED
  BY <1>1, <1>3, <1>4, <1>5, <1>6, KeyAssumption

\* A key that no leaf in the tree has is not bound.
LEMMA NotBound ==
    ASSUME NEW tree, NEW rep, NEW end, NEW start, TreeFits(tree, rep, end, start), NEW k \in Key,
           \A m \in tree : end[m] = KeyLen => rep[m] # k
    PROVE  map[k] = Nil
<1>1. LabelsFit(rep, end) /\ MapFits(tree) /\ tree \subseteq Node
  BY Standing
<1> SUFFICES ASSUME map[k] # Nil PROVE FALSE
  OBVIOUS
<1>2. PICK m : m = map[k]
  OBVIOUS
<1>3. m \in tree /\ IsLeaf(m) /\ nodes[m].key = k
  BY <1>1, <1>2 DEF MapFits
<1>4. rep[m] = k /\ end[m] = KeyLen
  BY <1>1, <1>3 DEF LabelsFit
<1> QED
  BY <1>3, <1>4

\* A leaf that the key leads to answers for it.
LEMMA LeafAnswers ==
    ASSUME NEW tree, NEW rep, NEW end, NEW start, TreeFits(tree, rep, end, start), NEW k \in Key,
           NEW n \in tree, IsLeaf(n), SameTo(k, rep[n], start[n])
    PROVE  map[k] = IF nodes[n].key = k THEN n ELSE Nil
<1>1. /\ Shape(tree, rep, end, start) /\ Paths(root, kidsOf, tree, rep, end, start)
      /\ LabelsFit(rep, end) /\ MapFits(tree) /\ nodes \in [Node -> AnyNode]
      /\ tree \subseteq Node /\ KeyLen \in Nat
  BY Standing
<1>2. CASE nodes[n].key = k
  BY <1>1, <1>2 DEF MapFits
<1>3. CASE nodes[n].key # k
  <2>1. nodes[n].key \in Key
    BY <1>1, LeafFields
  <2>2. rep[n] = nodes[n].key /\ end[n] = KeyLen
    BY <1>1 DEF LabelsFit
  <2>3. k \in Bytes /\ nodes[n].key \in Bytes
    BY <2>1, KeyBytes
  <2>4. ~SameTo(k, rep[n], end[n])
    <3>1. PICK q : q = nodes[n].key
      OBVIOUS
    <3>2. k \in [1 .. KeyLen -> Byte] /\ q \in [1 .. KeyLen -> Byte] /\ k # q
      BY <1>3, <2>3, <3>1 DEF Bytes
    <3>3. ~SameTo(k, q, KeyLen)
      <4>1. ASSUME SameTo(k, q, KeyLen) PROVE FALSE
        <5>1. \A j \in 1 .. KeyLen : k[j] = q[j]
          BY <4>1 DEF SameTo
        <5>2. k = [j \in 1 .. KeyLen |-> k[j]] /\ q = [j \in 1 .. KeyLen |-> q[j]]
          BY ONLY <3>2
        <5>3. [j \in 1 .. KeyLen |-> k[j]] = [j \in 1 .. KeyLen |-> q[j]]
          BY ONLY <5>1
        <5> QED
          BY ONLY <3>2, <5>2, <5>3
      <4> QED
        BY <4>1
    <3> QED
      BY <2>2, <3>1, <3>3
  <2>5. \A m \in tree : end[m] = KeyLen => rep[m] # k
    BY <1>1, <2>4, OtherLabelNoLeaf
  <2> QED
    BY <1>3, <2>5, NotBound
<1> QED
  BY <1>2, <1>3

\* An inode's prefix either agrees with the key up to the inode's label, or parts
\* from it before.
LEMMA PrefixAnswers ==
    ASSUME NEW tree, NEW rep, NEW end, NEW start, TreeFits(tree, rep, end, start), NEW k \in Key,
           NEW n \in tree, IsInode(n), SameTo(k, rep[n], start[n]),
           NEW len, Is(len, get_shared_length(nodes[n].prefix, k, start[n]))
    PROVE  /\ len = Len(nodes[n].prefix) => SameTo(k, rep[n], end[n]) /\ start[n] + len = end[n]
           /\ len < Len(nodes[n].prefix) => ~SameTo(k, rep[n], end[n]) /\ map[k] = Nil
<1>1. /\ Shape(tree, rep, end, start) /\ Paths(root, kidsOf, tree, rep, end, start)
      /\ PrefixesFit(tree, rep, end, start) /\ nodes \in [Node -> AnyNode]
      /\ tree \subseteq Node /\ KeyLen \in Nat
  BY Standing
<1>2. PICK pf, s, z, r : pf = nodes[n].prefix /\ s = start[n] /\ z = end[n] /\ r = rep[n]
  OBVIOUS
<1>3. pf \in Seq(Byte) /\ s \in 0 .. KeyLen /\ z \in 0 .. KeyLen /\ r \in Bytes
  BY <1>1, <1>2, InodeFields, Standing
<1>4. Len(pf) = z - s /\ \A i \in 1 .. Len(pf) : pf[i] = r[s + i]
  BY <1>1, <1>2 DEF PrefixesFit
<1>5. /\ len \in 0 .. Len(pf) /\ (\A i \in 1 .. len : pf[i] = ByteAt(k, s + i))
      /\ (len < Len(pf) => pf[len + 1] # ByteAt(k, s + len + 1))
  <2>1. s \in Nat /\ len = get_shared_length(pf, k, s)
    BY <1>1, <1>2, <1>3 DEF Is
  <2> QED
    BY <1>3, <2>1, SharedLength
<1>6. \A i \in 1 .. KeyLen : ByteAt(k, i) = k[i]
  BY KeyBytes
<1>7. Len(pf) \in Nat
  BY <1>3
<1>8. ASSUME len = Len(pf) PROVE SameTo(k, r, z) /\ s + len = z
  <2>1. s + len = z
    BY <1>1, <1>3, <1>4, <1>7, <1>8
  <2>2. ASSUME NEW j \in 1 .. z PROVE k[j] = r[j]
    <3>1. CASE j <= s
      BY <1>1, <1>2, <1>3, <3>1 DEF SameTo
    <3>2. CASE j > s
      <4>1. j - s \in 1 .. len /\ s + (j - s) = j /\ j \in 1 .. KeyLen
        BY <1>1, <1>3, <1>7, <1>8, <2>1, <3>2
      <4>2. pf[j - s] = ByteAt(k, j) /\ pf[j - s] = r[j]
        BY <1>4, <1>5, <1>8, <4>1
      <4> QED
        BY <1>6, <4>1, <4>2
    <3> QED
      BY <1>1, <1>3, <3>1, <3>2
  <2> QED
    BY <2>1, <2>2 DEF SameTo
<1>9. ASSUME len < Len(pf) PROVE ~SameTo(k, r, z)
  <2>1. PICK j : j = s + len + 1
    OBVIOUS
  <2>2. j \in 1 .. z /\ j \in 1 .. KeyLen /\ len + 1 \in 1 .. Len(pf) /\ s + (len + 1) = j
    BY <1>1, <1>3, <1>4, <1>5, <1>7, <1>9, <2>1
  <2>3. pf[len + 1] = r[j] /\ ByteAt(k, j) = k[j] /\ pf[len + 1] # ByteAt(k, j)
    BY <1>4, <1>5, <1>6, <1>9, <2>1, <2>2
  <2> QED
    BY <2>2, <2>3 DEF SameTo
<1>10. ASSUME len < Len(pf) PROVE map[k] = Nil
  <2>1. ~SameTo(k, rep[n], end[n])
    BY <1>2, <1>9, <1>10
  <2>2. \A m \in tree : end[m] = KeyLen => rep[m] # k
    BY <1>1, <2>1, OtherLabelNoLeaf
  <2> QED
    BY <2>2, NotBound
<1> QED
  BY <1>2, <1>8, <1>9, <1>10

\* Past its prefix, either a child leads on or the key is not in the tree.
LEMMA ChildAnswers ==
    ASSUME NEW tree, NEW rep, NEW end, NEW start, TreeFits(tree, rep, end, start), NEW k \in Key,
           NEW n \in tree, IsInode(n), SameTo(k, rep[n], end[n]), NEW b, b = k[end[n] + 1]
    PROVE  /\ b \notin DOMAIN nodes[n].kids => map[k] = Nil
           /\ \A c : b \in DOMAIN nodes[n].kids /\ c = nodes[n].kids[b] =>
                 /\ c \in tree /\ start[c] = end[n] + 1 /\ SameTo(k, rep[c], start[c])
<1>1. /\ Shape(tree, rep, end, start) /\ Paths(root, kidsOf, tree, rep, end, start)
      /\ LabelsFit(rep, end) /\ nodes \in [Node -> AnyNode]
      /\ tree \subseteq Node /\ KeyLen \in Nat /\ kidsOf[n] = nodes[n].kids
  BY Standing
<1>2. end[n] < KeyLen /\ end[n] \in Nat
  BY <1>1, Standing DEF LabelsFit
<1>3. ASSUME b \notin DOMAIN nodes[n].kids PROVE map[k] = Nil
  <2>1. k[end[n] + 1] \notin DOMAIN kidsOf[n]
    BY <1>1, <1>3
  <2>2. \A m \in tree : end[m] = KeyLen => rep[m] # k
    BY <1>1, <1>2, <2>1, NoChildNoLeaf
  <2> QED
    BY <2>2, NotBound
<1>4. ASSUME NEW c, b \in DOMAIN nodes[n].kids, c = nodes[n].kids[b]
      PROVE  c \in tree /\ start[c] = end[n] + 1 /\ SameTo(k, rep[c], start[c])
  <2>1. /\ c \in tree /\ start[c] = end[n] + 1 /\ SameTo(rep[c], rep[n], end[n])
        /\ rep[c][end[n] + 1] = b
    BY <1>1, <1>4 DEF Paths
  <2>2. SameTo(k, rep[c], start[c])
    <3> SUFFICES ASSUME NEW j \in 1 .. end[n] + 1 PROVE k[j] = rep[c][j]
      BY <2>1 DEF SameTo
    <3>1. CASE j = end[n] + 1
      BY <2>1, <3>1
    <3>2. CASE j # end[n] + 1
      <4>1. j \in 1 .. end[n]
        BY <1>2, <3>2
      <4> QED
        BY <2>1, <4>1 DEF SameTo
    <3> QED
      BY <3>1, <3>2
  <2> QED
    BY <2>1, <2>2
<1> QED
  BY <1>3, <1>4

\* A child that is read from any inode, in the tree or not.
LEMMA ChildTypes ==
    ASSUME NEW tree, NEW rep, NEW end, NEW start, TreeFits(tree, rep, end, start),
           NEW n, IsInode(n), NEW b \in DOMAIN nodes[n].kids, NEW c, c = nodes[n].kids[b]
    PROVE  IsUsed(c) /\ end[n] < end[c] /\ c \in Lock /\ c # Nil
<1>1. LabelsFit(rep, end) /\ n \in Node
  BY Standing DEF IsInode, IsUsed
<1>2. GoodKid(rep, end, n, b, c)
  BY <1>1 DEF LabelsFit
<1>3. IsUsed(c) /\ end[n] < end[c]
  BY <1>2 DEF GoodKid
<1> QED
  BY <1>3, BoundAssumption DEF IsUsed, Node, Lock, Nil

\* The nodes in the roles of the code's lists differ.
LEMMA ListRoles ==
    ASSUME NEW t
    PROVE  /\ RolesDiffer(t, << <<"check", "parent">> >>)
           /\ RolesDiffer(t, << <<"check", "node">> >>)
           /\ RolesDiffer(t, << <<"upgrade", "parent">> >>)
  BY DEF RolesDiffer

\* The lists with a parent and a node are about different nodes.
LEMMA ListRoles2 ==
    ASSUME NEW t, at[t]["parent"] # at[t]["node"]
    PROVE  /\ RolesDiffer(t, << <<"check", "parent">>, <<"check", "node">> >>)
           /\ RolesDiffer(t, << <<"upgrade", "parent">>, <<"upgrade", "node">> >>)
           /\ RolesDiffer(t, << <<"upgrade", "parent">>, <<"upgrade", "node">>,
                                <<"obsolete", "node">> >>)
           /\ RolesDiffer(t, << <<"upgrade", "node">>, <<"check", "parent">> >>)
  BY DEF RolesDiffer

\* So are the lists with a child.
LEMMA ListRoles3 ==
    ASSUME NEW t, at[t]["parent"] # at[t]["node"], at[t]["child"] # at[t]["node"],
           at[t]["child"] # at[t]["parent"]
    PROVE  /\ RolesDiffer(t, << <<"check", "parent">>, <<"check", "node">>,
                                <<"check", "child">> >>)
           /\ RolesDiffer(t, << <<"check", "parent">>, <<"upgrade", "node">>,
                                <<"upgrade", "child">>, <<"obsolete", "child">> >>)
           /\ RolesDiffer(t, shrink_steps)
<1>1. RolesDiffer(t, << <<"check", "parent">>, <<"check", "node">>, <<"check", "child">> >>)
  BY DEF RolesDiffer
<1>2. RolesDiffer(t, << <<"check", "parent">>, <<"upgrade", "node">>,
                        <<"upgrade", "child">>, <<"obsolete", "child">> >>)
  BY DEF RolesDiffer
<1>3. RolesDiffer(t, shrink_steps)
  BY DEF RolesDiffer, shrink_steps
<1> QED
  BY <1>1, <1>2, <1>3

\* A thread that reads the tree is in an operation.
LEMMA InOperation ==
    ASSUME NEW tree, NEW rep, NEW end, NEW start, Inv(tree, rep, end, start),
           NEW t \in Thread, pc[t] # "idle"
    PROVE  /\ key[t] \in Key /\ map[key[t]] \in seen[t] /\ op[t] # "none"
           /\ op[t] \in {"get", "insert", "remove"}
           /\ \A r \in Role : at[t][r] \in Lock
           /\ at[t]["parent"] \in Lock /\ at[t]["node"] \in Lock /\ at[t]["child"] \in Lock
           /\ Nil \in Lock /\ depth[t] \in Nat
           /\ ThreadTypes(t, rep, end) /\ TreeFits(tree, rep, end, start) /\ LockTypes /\ Versions(t)
<1>1. ThreadTypes(t, rep, end) /\ TreeFits(tree, rep, end, start) /\ LockTypes /\ Versions(t)
  BY DEF Inv, LockInv
<1>2. key[t] \in Key /\ map[key[t]] \in seen[t] /\ op[t] # "none" /\ depth[t] \in Nat
  BY <1>1 DEF ThreadTypes
<1>3. Nil \in Lock
  BY BoundAssumption DEF Nil, Lock
<1>4. op[t] \in {"get", "insert", "remove"} /\ \A r \in Role : at[t][r] \in Lock
  BY <1>1, <1>2 DEF LockTypes
<1> QED
  BY <1>1, <1>2, <1>3, <1>4 DEF Role

\* What a thread at a node relies on.
LEMMA AtNodeOnPath ==
    ASSUME NEW tree, NEW rep, NEW end, NEW start, Inv(tree, rep, end, start),
           NEW t \in Thread, Ready(t, "at_node"), t \notin torn, Current(t, "node"),
           op[t] = "get" \/ Current(t, "parent"), NEW n, n = at[t]["node"]
    PROVE  /\ OnPath(t, tree, rep, start)
           /\ Current(t, "parent") => OnLink(t, tree, rep, end)
           /\ n \in tree /\ SameTo(key[t], rep[n], start[n])
           /\ IsInode(n) => depth[t] = start[n]
<1>1. Believes(t, tree, rep, end, start) /\ ParentOK(t) /\ pc[t] = "at_node"
  BY Believing DEF Ready, ParentOK
<1>2. OnPath(t, tree, rep, start) /\ (Current(t, "parent") => OnLink(t, tree, rep, end))
  BY <1>1 DEF Believes
<1> QED
  BY <1>2 DEF OnPath

\* What a thread has matched of its key when it looks for, or has found, a child.
LEMMA PastNodePrefix ==
    ASSUME NEW tree, NEW rep, NEW end, NEW start, Inv(tree, rep, end, start),
           NEW t \in Thread, Ready(t, "find_child") \/ Ready(t, "at_child"),
           t \notin torn, Current(t, "node"),
           (op[t] = "get" /\ Ready(t, "find_child")) \/ Current(t, "parent"),
           NEW n, n = at[t]["node"], NEW k, k = key[t]
    PROVE  /\ PastPrefix(t, tree, rep, end)
           /\ Current(t, "parent") => OnLink(t, tree, rep, end)
           /\ Ready(t, "at_child") => ToChild(t, end)
           /\ n \in tree /\ SameTo(k, rep[n], end[n]) /\ depth[t] = end[n]
           /\ IsInode(n) /\ NextByte(t) = k[end[n] + 1]
<1>1. pc[t] \in {"find_child", "at_child"} /\ todo[t] = <<>>
  BY DEF Ready
<1>2. Believes(t, tree, rep, end, start)
  BY <1>1, Believing
<1>3. /\ PastPrefix(t, tree, rep, end) /\ (Current(t, "parent") => OnLink(t, tree, rep, end))
      /\ Ready(t, "at_child") => ToChild(t, end)
  <2>1. CASE pc[t] = "find_child"
    BY <1>1, <1>2, <2>1 DEF Believes, ParentOK, Ready
  <2>2. CASE pc[t] = "at_child"
    BY <1>1, <1>2, <2>2 DEF Believes, Ready
  <2> QED
    BY <1>1, <2>1, <2>2
<1>4. n \in tree /\ SameTo(k, rep[n], end[n]) /\ depth[t] = end[n]
  BY <1>3 DEF PastPrefix
<1>5. key[t] \in Key /\ ThreadTypes(t, rep, end) /\ TreeFits(tree, rep, end, start)
  BY <1>1, InOperation
<1>6. IsInode(n)
  BY <1>1, <1>5 DEF ThreadTypes, HasInode
<1>7. end[n] \in 0 .. KeyLen /\ end[n] < KeyLen /\ KeyLen \in Nat
  BY <1>4, <1>5, <1>6, Standing DEF LabelsFit
<1>8. depth[t] \in 0 .. KeyLen - 1
  BY <1>4, <1>7
<1>9. NextByte(t) = key[t][depth[t] + 1]
  BY <1>5, <1>8, NextByteIs
<1> QED
  BY <1>3, <1>4, <1>6, <1>9

(***************************************************************************)
(* Steps that read the tree and return.                                    *)
(***************************************************************************)
\* A step that returns r once the RCS of its node, or also that of the parent, is
\* validated.
LEMMA ReturnNode ==
    ASSUME NEW tree, NEW rep, NEW end, NEW start, Inv(tree, rep, end, start),
           NEW t \in Thread, pc[t] \notin Commits \cup {"idle"}, todo[t] = <<>>,
           NEW r \in Lock, Return(t, r, << <<"check", "node">> >>), Steady,
           t \notin torn /\ Current(t, "node") => r \in seen[t]
    PROVE  Inv(tree, rep, end, start)'
<1>1. PICK steps : Is(steps, << <<"check", "node">> >>)
  BY DEF Is
<1>2. GoodSteps(steps) /\ OnlyChecks(steps)
  BY <1>1, CheckLists DEF Is
<1>3. RolesDiffer(t, steps) /\ Return(t, r, steps)
  BY <1>1, ListRoles DEF Is
<1>4. (\A i \in DOMAIN steps : Current(t, steps[i][2])) => Current(t, "node")
  BY <1>1 DEF Is
<1>5. t \notin torn /\ (\A i \in DOMAIN steps : Current(t, steps[i][2])) => r \in seen[t]
  BY <1>4
<1> QED
  BY <1>2, <1>3, <1>5, ReturnInv

\* ReturnInv for the list that checks the parent.
LEMMA ReturnParent ==
    ASSUME NEW tree, NEW rep, NEW end, NEW start, Inv(tree, rep, end, start),
           NEW t \in Thread, pc[t] \notin Commits \cup {"idle"}, todo[t] = <<>>,
           NEW r \in Lock, Return(t, r, << <<"check", "parent">> >>), Steady,
           t \notin torn /\ Current(t, "parent") => r \in seen[t]
    PROVE  Inv(tree, rep, end, start)'
<1>1. PICK steps : Is(steps, << <<"check", "parent">> >>)
  BY DEF Is
<1>2. GoodSteps(steps) /\ OnlyChecks(steps)
  BY <1>1, CheckLists DEF Is
<1>3. RolesDiffer(t, steps) /\ Return(t, r, steps)
  BY <1>1, ListRoles DEF Is
<1>4. (\A i \in DOMAIN steps : Current(t, steps[i][2])) => Current(t, "parent")
  BY <1>1 DEF Is
<1>5. t \notin torn /\ (\A i \in DOMAIN steps : Current(t, steps[i][2])) => r \in seen[t]
  BY <1>4
<1> QED
  BY <1>2, <1>3, <1>5, ReturnInv

\* ReturnInv for the list that checks the parent and the node.
LEMMA ReturnBoth ==
    ASSUME NEW tree, NEW rep, NEW end, NEW start, Inv(tree, rep, end, start),
           NEW t \in Thread, pc[t] \in {"at_node", "find_child"}, todo[t] = <<>>,
           NEW r \in Lock, Return(t, r, << <<"check", "parent">>, <<"check", "node">> >>), Steady,
           t \notin torn /\ Current(t, "parent") /\ Current(t, "node") => r \in seen[t]
    PROVE  Inv(tree, rep, end, start)'
<1>1. PICK steps : Is(steps, << <<"check", "parent">>, <<"check", "node">> >>)
  BY DEF Is
<1>2. GoodSteps(steps) /\ OnlyChecks(steps)
  BY <1>1, CheckLists DEF Is
<1>3. at[t]["parent"] # at[t]["node"]
  BY RolesApart DEF HasNode
<1>4. RolesDiffer(t, steps) /\ Return(t, r, steps)
  BY <1>1, <1>3, ListRoles2 DEF Is
<1>5. (\A i \in DOMAIN steps : Current(t, steps[i][2])) => Current(t, "parent") /\ Current(t, "node")
  BY <1>1 DEF Is
<1>6. t \notin torn /\ (\A i \in DOMAIN steps : Current(t, steps[i][2])) => r \in seen[t]
  BY <1>5
<1>7. pc[t] \notin Commits \cup {"idle"}
  BY DEF Commits
<1> QED
  BY <1>2, <1>4, <1>6, <1>7, ReturnInv

\* ReturnInv for the list that checks the parent, the node and the child.
LEMMA ReturnAll ==
    ASSUME NEW tree, NEW rep, NEW end, NEW start, Inv(tree, rep, end, start),
           NEW t \in Thread, pc[t] = "at_child", todo[t] = <<>>,
           NEW r \in Lock,
           Return(t, r, << <<"check", "parent">>, <<"check", "node">>, <<"check", "child">> >>),
           Steady,
           t \notin torn /\ Current(t, "parent") /\ Current(t, "node") => r \in seen[t]
    PROVE  Inv(tree, rep, end, start)'
<1>1. PICK steps : Is(steps, << <<"check", "parent">>, <<"check", "node">>, <<"check", "child">> >>)
  BY DEF Is
<1>2. GoodSteps(steps) /\ OnlyChecks(steps)
  BY <1>1, CheckLists DEF Is
<1>3. /\ at[t]["parent"] # at[t]["node"] /\ at[t]["child"] # at[t]["node"]
      /\ at[t]["child"] # at[t]["parent"]
  BY RolesApart DEF HasNode, HasInode, HasChildNode
<1>4. RolesDiffer(t, steps) /\ Return(t, r, steps)
  BY <1>1, <1>3, ListRoles3 DEF Is
<1>5. (\A i \in DOMAIN steps : Current(t, steps[i][2])) => Current(t, "parent") /\ Current(t, "node")
  BY <1>1 DEF Is
<1>6. t \notin torn /\ (\A i \in DOMAIN steps : Current(t, steps[i][2])) => r \in seen[t]
  BY <1>5
<1>7. pc[t] \notin Commits \cup {"idle"}
  BY DEF Commits
<1> QED
  BY <1>2, <1>4, <1>6, <1>7, ReturnInv

\* A get or remove finds no root.
LEMMA EmptyTreeInv ==
    ASSUME NEW tree, NEW rep, NEW end, NEW start, Inv(tree, rep, end, start),
           NEW t \in Thread, empty_tree(t)
    PROVE  Inv(tree, rep, end, start)'
<1>1. pc[t] = "load_root" /\ todo[t] = <<>> /\ root = Nil
  BY DEF empty_tree, Ready
<1>2. key[t] \in Key /\ map[key[t]] \in seen[t] /\ Nil \in Lock /\ TreeFits(tree, rep, end, start)
  BY <1>1, InOperation
<1>3. tree = {}
  BY <1>1, <1>2, Standing DEF Paths
<1>4. map[key[t]] = Nil
  BY <1>2, <1>3, NotBound
<1>5. pc[t] \notin Commits \cup {"idle"}
  BY <1>1 DEF Commits
<1>6. Return(t, Nil, << <<"check", "parent">> >>) /\ Steady
  BY DEF empty_tree, Steady
<1> QED
  BY <1>1, <1>2, <1>4, <1>5, <1>6, ReturnParent

\* A get reaches a leaf, with its key or with another.
LEMMA GetLeafInv ==
    ASSUME NEW tree, NEW rep, NEW end, NEW start, Inv(tree, rep, end, start),
           NEW t \in Thread, get_leaf(t)
    PROVE  Inv(tree, rep, end, start)'
<1>1. pc[t] = "at_node" /\ todo[t] = <<>> /\ op[t] = "get" /\ Ready(t, "at_node")
  BY DEF get_leaf, AtLeaf, Ready
<1>2. PICK n, k, r : /\ n = at[t]["node"] /\ k = key[t]
                     /\ r = IF matches(NodeOf(t, "node"), key[t]) THEN at[t]["node"] ELSE Nil
  OBVIOUS
<1>3. k \in Key /\ map[k] \in seen[t] /\ Nil \in Lock /\ TreeFits(tree, rep, end, start) /\ n \in Lock
  BY <1>1, <1>2, InOperation
<1>4. r = IF nodes[n].key = k THEN n ELSE Nil
  BY <1>2 DEF matches, NodeOf
<1>5. ASSUME t \notin torn, Current(t, "node") PROVE r \in seen[t]
  <2>1. n \in tree /\ SameTo(k, rep[n], start[n])
    BY <1>1, <1>2, <1>5, AtNodeOnPath
  <2>2. nodes[n].kind = "leaf" /\ IsUsed(n)
    BY <1>2, <1>3, <2>1, Standing DEF get_leaf, AtLeaf, NodeOf
  <2>3. map[k] = r
    BY <1>3, <1>4, <2>1, <2>2, LeafAnswers DEF IsLeaf
  <2> QED
    BY <1>3, <2>3
<1>6. pc[t] \notin Commits \cup {"idle"}
  BY <1>1 DEF Commits
<1>7. Return(t, r, << <<"check", "node">> >>) /\ Steady
  BY <1>2 DEF get_leaf, Steady
<1>8. r \in Lock
  BY <1>3, <1>4
<1> QED
  BY <1>1, <1>5, <1>6, <1>7, <1>8, ReturnNode

\* A leaf below the node that the key leads to, or that node itself.
LEMMA InsertFoundInv ==
    ASSUME NEW tree, NEW rep, NEW end, NEW start, Inv(tree, rep, end, start),
           NEW t \in Thread, insert_leaf(t), matches(NodeOf(t, "node"), key[t])
    PROVE  Inv(tree, rep, end, start)'
<1>1. pc[t] = "at_node" /\ todo[t] = <<>> /\ Ready(t, "at_node")
  BY DEF insert_leaf, AtLeaf, Ready
<1>2. PICK n, k : n = at[t]["node"] /\ k = key[t]
  OBVIOUS
<1>3. k \in Key /\ map[k] \in seen[t] /\ TreeFits(tree, rep, end, start) /\ n \in Lock
  BY <1>1, <1>2, InOperation
<1>4. nodes[n].key = k /\ nodes[n].kind = "leaf"
  BY <1>2 DEF matches, NodeOf, insert_leaf, AtLeaf
<1>5. ASSUME t \notin torn, Current(t, "parent"), Current(t, "node") PROVE n \in seen[t]
  <2>1. n \in tree /\ SameTo(k, rep[n], start[n])
    BY <1>1, <1>2, <1>5, AtNodeOnPath
  <2>2. IsLeaf(n)
    BY <1>3, <1>4, <2>1, Standing DEF IsLeaf
  <2>3. map[k] = n
    BY <1>3, <1>4, <2>1, <2>2, LeafAnswers
  <2> QED
    BY <1>3, <2>3
<1>7. Return(t, n, << <<"check", "parent">>, <<"check", "node">> >>) /\ Steady
  BY <1>2 DEF insert_leaf, Steady
<1> QED
  BY <1>1, <1>3, <1>5, <1>7, ReturnBoth

\* A remove finds another key in a root that is a leaf.
LEMMA RemoveOtherRootInv ==
    ASSUME NEW tree, NEW rep, NEW end, NEW start, Inv(tree, rep, end, start),
           NEW t \in Thread, remove_root_leaf(t), ~matches(NodeOf(t, "node"), key[t])
    PROVE  Inv(tree, rep, end, start)'
<1>1. pc[t] = "at_node" /\ todo[t] = <<>> /\ op[t] = "remove"
  BY DEF remove_root_leaf, AtLeaf, Ready
<1>2. PICK n : n = at[t]["node"]
  OBVIOUS
<1>3. ThreadTypes(t, rep, end) /\ Nil \in Lock
  BY <1>1, InOperation
<1>4. nodes[n].key # key[t] /\ nodes[n].kind = "leaf"
  BY <1>2 DEF matches, NodeOf, remove_root_leaf, AtLeaf
<1>5. IsLeaf(n)
  BY <1>1, <1>2, <1>3, <1>4 DEF ThreadTypes, HasNode, IsLeaf
<1>6. Nil \in seen[t]
  BY <1>1, <1>2, <1>3, <1>4, <1>5 DEF ThreadTypes
<1>7. pc[t] \notin Commits \cup {"idle"}
  BY <1>1 DEF Commits
<1>8. Return(t, Nil, << <<"check", "node">> >>) /\ Steady
  BY DEF remove_root_leaf, Steady
<1> QED
  BY <1>1, <1>3, <1>6, <1>7, <1>8, ReturnNode

\* The key parts from the prefix of the node: what the thread knows then.
LEMMA PrefixDiffersMeans ==
    ASSUME NEW tree, NEW rep, NEW end, NEW start, Inv(tree, rep, end, start),
           NEW t \in Thread, PrefixDiffers(t), t \notin torn, Current(t, "node"),
           op[t] = "get" \/ Current(t, "parent"), NEW n, n = at[t]["node"]
    PROVE  ~SameTo(key[t], rep[n], end[n]) /\ map[key[t]] = Nil
<1>1. pc[t] = "at_node" /\ Ready(t, "at_node") /\ nodes[n].kind = "inode"
  BY DEF PrefixDiffers, AtInode, Ready, NodeOf
<1>2. PICK k : k = key[t]
  OBVIOUS
<1>3. k \in Key /\ TreeFits(tree, rep, end, start)
  BY <1>1, <1>2, InOperation
<1>4. n \in tree /\ SameTo(k, rep[n], start[n]) /\ (IsInode(n) => depth[t] = start[n])
  BY <1>1, <1>2, AtNodeOnPath
<1>5. IsInode(n)
  BY <1>1, <1>3, <1>4, Standing DEF IsInode
<1>6. PICK len : Is(len, get_shared_length(nodes[n].prefix, k, start[n]))
  BY DEF Is
<1>7. len < Len(nodes[n].prefix)
  BY <1>2, <1>4, <1>5, <1>6 DEF PrefixDiffers, shared, NodeOf, Is
<1>8. ~SameTo(k, rep[n], end[n]) /\ map[k] = Nil
  BY <1>3, <1>4, <1>5, <1>6, <1>7, PrefixAnswers
<1> QED
  BY <1>2, <1>8

\* A get or a remove finds another prefix.
LEMMA PrefixReturnsInv ==
    ASSUME NEW tree, NEW rep, NEW end, NEW start, Inv(tree, rep, end, start),
           NEW t \in Thread, get_prefix_differs(t) \/ remove_prefix_differs(t)
    PROVE  Inv(tree, rep, end, start)'
<1>1. pc[t] = "at_node" /\ todo[t] = <<>> /\ PrefixDiffers(t)
  BY DEF get_prefix_differs, remove_prefix_differs, PrefixDiffers, AtInode, Ready
<1>2. map[key[t]] \in seen[t] /\ Nil \in Lock
  BY <1>1, InOperation
<1>3. pc[t] \notin Commits \cup {"idle"}
  BY <1>1 DEF Commits
<1>4. CASE get_prefix_differs(t)
  <2>1. op[t] = "get" /\ Return(t, Nil, << <<"check", "node">> >>) /\ Steady
    BY <1>4 DEF get_prefix_differs, Steady
  <2>2. t \notin torn /\ Current(t, "node") => Nil \in seen[t]
    BY <1>1, <1>2, <2>1, PrefixDiffersMeans
  <2> QED
    BY <1>1, <1>2, <1>3, <2>1, <2>2, ReturnNode
<1>5. CASE remove_prefix_differs(t)
  <2>1. Return(t, Nil, << <<"check", "parent">>, <<"check", "node">> >>) /\ Steady
    BY <1>5 DEF remove_prefix_differs, Steady
  <2>2. t \notin torn /\ Current(t, "parent") /\ Current(t, "node") => Nil \in seen[t]
    BY <1>1, <1>2, PrefixDiffersMeans
  <2> QED
    BY <1>1, <1>2, <2>1, <2>2, ReturnBoth
<1> QED
  BY <1>4, <1>5

\* The node has no child for the key: what the thread knows then.
LEMMA NoChildMeans ==
    ASSUME NEW tree, NEW rep, NEW end, NEW start, Inv(tree, rep, end, start),
           NEW t \in Thread, Ready(t, "find_child"), ~HasChild(t), t \notin torn,
           Current(t, "node"), op[t] = "get" \/ Current(t, "parent"), NEW n, n = at[t]["node"]
    PROVE  /\ map[key[t]] = Nil /\ PastPrefix(t, tree, rep, end)
           /\ key[t][end[n] + 1] \notin DOMAIN nodes[n].kids
           /\ Current(t, "parent") => OnLink(t, tree, rep, end)
<1>1. pc[t] = "find_child"
  BY DEF Ready
<1>2. PICK k : k = key[t]
  OBVIOUS
<1>3. k \in Key /\ TreeFits(tree, rep, end, start)
  BY <1>1, <1>2, InOperation
<1>4. /\ n \in tree /\ SameTo(k, rep[n], end[n]) /\ IsInode(n) /\ NextByte(t) = k[end[n] + 1]
      /\ PastPrefix(t, tree, rep, end) /\ (Current(t, "parent") => OnLink(t, tree, rep, end))
  BY <1>2, PastNodePrefix
<1>5. PICK b : b = k[end[n] + 1]
  OBVIOUS
<1>6. b \notin DOMAIN nodes[n].kids
  BY <1>4, <1>5 DEF HasChild, NodeOf
<1>7. map[k] = Nil
  BY <1>3, <1>4, <1>5, <1>6, ChildAnswers
<1> QED
  BY <1>2, <1>4, <1>5, <1>6, <1>7

\* A get or a remove finds no child.
LEMMA NoChildReturnsInv ==
    ASSUME NEW tree, NEW rep, NEW end, NEW start, Inv(tree, rep, end, start),
           NEW t \in Thread, get_child(t) \/ remove_find_child(t), ~HasChild(t)
    PROVE  Inv(tree, rep, end, start)'
<1>1. pc[t] = "find_child" /\ todo[t] = <<>> /\ Ready(t, "find_child")
  BY DEF get_child, remove_find_child, Ready
<1>2. map[key[t]] \in seen[t] /\ Nil \in Lock
  BY <1>1, InOperation
<1>3. pc[t] \notin Commits \cup {"idle"}
  BY <1>1 DEF Commits
<1>4. CASE get_child(t)
  <2>1. op[t] = "get" /\ Return(t, Nil, << <<"check", "node">> >>) /\ Steady
    BY <1>4 DEF get_child, Steady
  <2>2. t \notin torn /\ Current(t, "node") => Nil \in seen[t]
    BY <1>1, <1>2, <2>1, NoChildMeans
  <2> QED
    BY <1>1, <1>2, <1>3, <2>1, <2>2, ReturnNode
<1>5. CASE remove_find_child(t)
  <2>1. Return(t, Nil, << <<"check", "parent">>, <<"check", "node">> >>) /\ Steady
    BY <1>5 DEF remove_find_child, Steady, rcsVars
  <2>2. t \notin torn /\ Current(t, "parent") /\ Current(t, "node") => Nil \in seen[t]
    BY <1>1, <1>2, NoChildMeans
  <2> QED
    BY <1>1, <1>2, <2>1, <2>2, ReturnBoth
<1> QED
  BY <1>4, <1>5

\* The child that a remove has locked is the one its key leads to.
LEMMA AtChildMeans ==
    ASSUME NEW tree, NEW rep, NEW end, NEW start, Inv(tree, rep, end, start),
           NEW t \in Thread, Ready(t, "at_child"), t \notin torn,
           Current(t, "node"), Current(t, "parent"),
           NEW n, n = at[t]["node"], NEW c, c = at[t]["child"], NEW k, k = key[t]
    PROVE  /\ PastPrefix(t, tree, rep, end) /\ OnLink(t, tree, rep, end) /\ ToChild(t, end)
           /\ n \in tree /\ c \in tree /\ start[c] = end[n] + 1 /\ SameTo(k, rep[c], start[c])
           /\ IsInode(n) /\ SameTo(k, rep[n], end[n]) /\ depth[t] = end[n]
           /\ k[end[n] + 1] \in DOMAIN nodes[n].kids /\ nodes[n].kids[k[end[n] + 1]] = c
<1>1. pc[t] = "at_child"
  BY DEF Ready
<1>2. k \in Key /\ TreeFits(tree, rep, end, start)
  BY <1>1, InOperation
<1>3. /\ n \in tree /\ SameTo(k, rep[n], end[n]) /\ IsInode(n) /\ depth[t] = end[n]
      /\ PastPrefix(t, tree, rep, end) /\ OnLink(t, tree, rep, end) /\ ToChild(t, end)
  BY PastNodePrefix
<1>4. PICK b : b = k[end[n] + 1]
  OBVIOUS
<1>5. b \in DOMAIN nodes[n].kids /\ c = nodes[n].kids[b]
  BY <1>3, <1>4 DEF ToChild
<1>6. c \in tree /\ start[c] = end[n] + 1 /\ SameTo(k, rep[c], start[c])
  BY ONLY <1>2, <1>3, <1>4, <1>5, ChildAnswers
<1> QED
  BY <1>3, <1>4, <1>5, <1>6

\* A remove finds another key in a child that is a leaf.
LEMMA OtherChildInv ==
    ASSUME NEW tree, NEW rep, NEW end, NEW start, Inv(tree, rep, end, start),
           NEW t \in Thread, remove_or_choose_subtree(t), NodeOf(t, "child").kind # "inode",
           ~matches(NodeOf(t, "child"), key[t])
    PROVE  Inv(tree, rep, end, start)'
<1>1. pc[t] = "at_child" /\ todo[t] = <<>> /\ Ready(t, "at_child")
  BY DEF remove_or_choose_subtree, Ready
<1>2. PICK n, c, k : n = at[t]["node"] /\ c = at[t]["child"] /\ k = key[t]
  OBVIOUS
<1>3. k \in Key /\ map[k] \in seen[t] /\ Nil \in Lock /\ TreeFits(tree, rep, end, start)
      /\ ThreadTypes(t, rep, end)
  BY <1>1, <1>2, InOperation
<1>4. nodes[c].kind # "inode" /\ nodes[c].key # k
  BY <1>2 DEF NodeOf, matches
<1>5. IsUsed(c)
  BY <1>1, <1>2, <1>3 DEF ThreadTypes, HasChildNode
<1>6. IsLeaf(c)
  BY <1>3, <1>4, <1>5, UsedKinds, Standing DEF IsInode
<1>7. ASSUME t \notin torn, Current(t, "parent"), Current(t, "node") PROVE Nil \in seen[t]
  <2>1. c \in tree /\ SameTo(k, rep[c], start[c])
    BY <1>1, <1>2, <1>7, AtChildMeans
  <2>2. map[k] = Nil
    BY <1>3, <1>4, <1>6, <2>1, LeafAnswers
  <2> QED
    BY <1>3, <2>2
<1>8. /\ Return(t, Nil, << <<"check", "parent">>, <<"check", "node">>, <<"check", "child">> >>)
      /\ Steady
  BY <1>2, <1>4 DEF remove_or_choose_subtree, Steady, matches, NodeOf
<1> QED
  BY <1>1, <1>3, <1>7, <1>8, ReturnAll

(***************************************************************************)
(* Steps that read the tree and decide to change it.                       *)
(***************************************************************************)
\* What a thread believes at a commit.
CommitBelief(t, label, tree, rep, end, start) ==
    LET n == at[t]["node"]
    IN /\ label = "insert_root" => root = Nil
       /\ label \in {"split_leaf", "split_prefix"} =>
              OnLink(t, tree, rep, end) /\ OnPath(t, tree, rep, start)
       /\ label = "split_prefix" => ~SameTo(key[t], rep[n], end[n])
       /\ label \in {"add_to_nonfull", "grow"} =>
              PastPrefix(t, tree, rep, end) /\ key[t][end[n] + 1] \notin DOMAIN nodes[n].kids
       /\ label = "add_to_nonfull" => ~is_full(nodes[n])
       /\ label = "grow" => OnLink(t, tree, rep, end) /\ is_full(nodes[n])
       /\ label = "remove_root" => root = n
       /\ label \in RemovesChild => PastPrefix(t, tree, rep, end) /\ ToChild(t, end)
       /\ label = "remove_child" => ~is_min_size(nodes[n])
       /\ label \in {"leave_last_child", "shrink"} =>
              OnLink(t, tree, rep, end) /\ is_min_size(nodes[n])
       /\ label = "leave_last_child" => nodes[n].class = 1
       /\ label = "shrink" => nodes[n].class # 1

\* What is to be believed before each write section.
LEMMA BelievesCommit ==
    ASSUME NEW tree, NEW rep, NEW end, NEW start, NEW t \in Thread, NEW label \in Commits, Steady,
           pc'[t] = label, CommitBelief(t, label, tree, rep, end, start)
    PROVE  Believes(t, tree, rep, end, start)'
<1>1. /\ root' = root /\ nodes' = nodes /\ key' = key /\ at' = at /\ depth' = depth /\ op' = op
  BY DEF Steady, treeVars, opVars, rcsVars
<1>2. OnLink(t, tree, rep, end)' <=> OnLink(t, tree, rep, end)
  BY <1>1 DEF OnLink, Linked, IsInode, IsUsed
<1>3. OnPath(t, tree, rep, start)' <=> OnPath(t, tree, rep, start)
  BY <1>1 DEF OnPath, IsInode, IsUsed
<1>4. PastPrefix(t, tree, rep, end)' <=> PastPrefix(t, tree, rep, end)
  BY <1>1 DEF PastPrefix
<1>5. ToChild(t, end)' <=> ToChild(t, end)
  BY <1>1 DEF ToChild
<1>6. pc'[t] \notin {"lock_node", "at_node", "find_child", "lock_child", "at_child", "return"}
  BY DEF Commits
<1> QED
  BY <1>1, <1>2, <1>3, <1>4, <1>5, <1>6 DEF Believes, CommitBelief

\* CommitInv with the belief spelled out for the write section.
LEMMA CommitKnows ==
    ASSUME NEW tree, NEW rep, NEW end, NEW start, Inv(tree, rep, end, start),
           NEW t \in Thread, pc[t] \notin Commits \cup {"idle"}, todo[t] = <<>>,
           NEW label, NEW steps, GoodSteps(steps), Prepares(label, steps), RolesDiffer(t, steps),
           NEW r \in Lock, Commit(t, label, r, steps), Steady,
           at[t]["parent"] # at[t]["node"] \/ label = "insert_root",
           label \in RemovesChild => /\ at[t]["child"] # at[t]["node"]
                                     /\ at[t]["child"] # at[t]["parent"],
           CommitTypes(t, rep, end, label, r),
           t \notin torn /\ (\A q \in Role : Includes(steps, "check", q) \/ Includes(steps, "upgrade", q)
                                             => Current(t, q))
           => CommitBelief(t, label, tree, rep, end, start)
    PROVE  Inv(tree, rep, end, start)'
<1>1. label \in Commits /\ steps \in Seq(Accesses)
  BY DEF Prepares, GoodSteps
<1>2. pc'[t] = label
  BY DEF Commit, Goto, Inv, LockInv, LockTypes
<1>3. ASSUME t \notin torn,
             \A i \in DOMAIN steps : steps[i][1] \in {"check", "upgrade"} => Current(t, steps[i][2])
      PROVE  Believes(t, tree, rep, end, start)'
  <2>1. ASSUME NEW q \in Role, NEW d \in {"check", "upgrade"}, Includes(steps, d, q)
        PROVE  Current(t, q)
    <3>1. PICK i \in DOMAIN steps : steps[i] = <<d, q>>
      BY <2>1 DEF Includes
    <3> QED
      BY <1>3, <3>1
  <2>2. CommitBelief(t, label, tree, rep, end, start)
    BY <1>3, <2>1
  <2> QED
    BY <1>1, <1>2, <2>2, BelievesCommit
<1> QED
  BY <1>3, CommitInv

\* An insert finds no root.
LEMMA InsertRootPlanInv ==
    ASSUME NEW tree, NEW rep, NEW end, NEW start, Inv(tree, rep, end, start),
           NEW t \in Thread, empty_tree_insert(t)
    PROVE  Inv(tree, rep, end, start)'
<1>1. pc[t] = "load_root" /\ todo[t] = <<>> /\ root = Nil /\ op[t] = "insert"
  BY DEF empty_tree_insert, Ready
<1>2. Nil \in Lock /\ Versions(t)
  BY <1>1, InOperation
<1>3. at[t]["parent"] = Nil
  BY <1>1, <1>2 DEF Versions, Nowhere, Role
<1>4. PICK steps : Is(steps, << <<"upgrade", "parent">> >>)
  BY DEF Is
<1>5. GoodSteps(steps) /\ Prepares("insert_root", steps) /\ RolesDiffer(t, steps)
  BY <1>4, CommitLists, ListRoles DEF Is
<1>6. Commit(t, "insert_root", Nil, steps) /\ Steady
  BY <1>4 DEF empty_tree_insert, Steady, Is
<1>7. CommitTypes(t, rep, end, "insert_root", Nil)
  BY <1>1, <1>3 DEF CommitTypes, HasNode, HasInode, HasChildNode, RemovesChild, Inserts
<1>8. CommitBelief(t, "insert_root", tree, rep, end, start)
  BY <1>1 DEF CommitBelief, RemovesChild
<1>9. pc[t] \notin Commits \cup {"idle"} /\ "insert_root" \notin RemovesChild
  BY <1>1 DEF Commits, RemovesChild
<1> QED
  BY <1>1, <1>2, <1>5, <1>6, <1>7, <1>8, <1>9, CommitKnows

\* A thread that holds RCSs on its node and on its parent.
LEMMA AtInodeTypes ==
    ASSUME NEW tree, NEW rep, NEW end, NEW start, Inv(tree, rep, end, start),
           NEW t \in Thread, pc[t] \in {"at_node", "find_child", "at_child"},
           NEW p, p = at[t]["parent"], NEW n, n = at[t]["node"]
    PROVE  /\ IsUsed(n) /\ (p # Nil => IsInode(p) /\ end[p] < end[n])
           /\ p # n /\ (nodes[n].kind = "inode" => IsInode(n)) /\ (nodes[n].kind = "leaf" => IsLeaf(n))
           /\ (pc[t] # "at_node" => IsInode(n))
           /\ pc[t] \notin Commits \cup {"idle"}
<1>1. ThreadTypes(t, rep, end)
  BY InOperation
<1>2. IsUsed(n) /\ (p # Nil => IsInode(p) /\ end[p] < end[n]) /\ (pc[t] # "at_node" => IsInode(n))
  BY <1>1 DEF ThreadTypes, HasNode, HasInode
<1>3. p # n
  BY RolesApart DEF HasNode
<1> QED
  BY <1>2, <1>3 DEF IsInode, IsLeaf, Commits

\* An insert finds another key in a leaf.
LEMMA SplitLeafPlanInv ==
    ASSUME NEW tree, NEW rep, NEW end, NEW start, Inv(tree, rep, end, start),
           NEW t \in Thread, insert_leaf(t), ~matches(NodeOf(t, "node"), key[t])
    PROVE  Inv(tree, rep, end, start)'
<1>1. /\ pc[t] = "at_node" /\ todo[t] = <<>> /\ op[t] = "insert" /\ Ready(t, "at_node")
      /\ nodes[at[t]["node"]].kind = "leaf" /\ nodes[at[t]["node"]].key # key[t]
  BY DEF insert_leaf, AtLeaf, Ready, NodeOf, matches
<1>2. Nil \in Lock
  BY <1>1, InOperation
<1>4. PICK steps : Is(steps, << <<"upgrade", "parent">>, <<"upgrade", "node">> >>)
  BY DEF Is
<1>3. at[t]["parent"] # at[t]["node"] /\ pc[t] \notin Commits \cup {"idle"}
  BY <1>1, AtInodeTypes
<1>5. GoodSteps(steps) /\ Prepares("split_leaf", steps) /\ RolesDiffer(t, steps)
  BY <1>3, <1>4, CommitLists, ListRoles2 DEF Is
<1>6. Commit(t, "split_leaf", Nil, steps) /\ Steady
  BY <1>4 DEF insert_leaf, Steady, Is
<1>7. CommitTypes(t, rep, end, "split_leaf", Nil)
  <2>1. /\ IsUsed(at[t]["node"]) /\ IsLeaf(at[t]["node"])
        /\ at[t]["parent"] # Nil => IsInode(at[t]["parent"]) /\ end[at[t]["parent"]] < end[at[t]["node"]]
    BY <1>1, AtInodeTypes
  <2> QED
    BY <1>1, <2>1 DEF CommitTypes, HasNode, HasInode, HasChildNode, RemovesChild, Inserts
<1>8. ASSUME t \notin torn, Current(t, "parent"), Current(t, "node")
      PROVE  CommitBelief(t, "split_leaf", tree, rep, end, start)
  <2>1. OnLink(t, tree, rep, end) /\ OnPath(t, tree, rep, start)
    BY <1>1, <1>8, AtNodeOnPath
  <2> QED
    BY <2>1 DEF CommitBelief, RemovesChild
<1>9. "split_leaf" \notin RemovesChild
  BY <1>1 DEF Commits, RemovesChild
<1>10. Includes(steps, "upgrade", "parent") /\ Includes(steps, "upgrade", "node")
  BY <1>4 DEF Includes, Is
<1>11. "parent" \in Role /\ "node" \in Role
  BY DEF Role
<1> QED
  BY <1>1, <1>2, <1>3, <1>5, <1>6, <1>7, <1>8, <1>9, <1>10, <1>11, CommitKnows

\* A remove finds its key in a root that is a leaf.
LEMMA RemoveRootPlanInv ==
    ASSUME NEW tree, NEW rep, NEW end, NEW start, Inv(tree, rep, end, start),
           NEW t \in Thread, remove_root_leaf(t), matches(NodeOf(t, "node"), key[t])
    PROVE  Inv(tree, rep, end, start)'
<1>1. /\ pc[t] = "at_node" /\ todo[t] = <<>> /\ op[t] = "remove" /\ Ready(t, "at_node")
      /\ nodes[at[t]["node"]].kind = "leaf" /\ nodes[at[t]["node"]].key = key[t]
  BY DEF remove_root_leaf, AtLeaf, Ready, NodeOf, matches
<1>2. PICK r : r = at[t]["node"]
  OBVIOUS
<1>3. r \in Lock /\ ThreadTypes(t, rep, end)
  BY <1>1, <1>2, InOperation
<1>4. at[t]["parent"] # r /\ pc[t] \notin Commits \cup {"idle"} /\ IsUsed(r) /\ IsLeaf(r)
  BY <1>1, <1>2, AtInodeTypes
<1>5. at[t]["parent"] = Nil
  BY <1>1, <1>2, <1>3, <1>4 DEF ThreadTypes, IsLeaf, IsInode
<1>6. PICK steps : Is(steps, << <<"upgrade", "parent">>, <<"upgrade", "node">>,
                                <<"obsolete", "node">> >>)
  BY DEF Is
<1>7. GoodSteps(steps) /\ Prepares("remove_root", steps) /\ RolesDiffer(t, steps)
  BY <1>2, <1>4, <1>6, CommitLists, ListRoles2 DEF Is
<1>8. Commit(t, "remove_root", r, steps) /\ Steady
  BY <1>2, <1>6 DEF remove_root_leaf, Steady, Is
<1>9. CommitTypes(t, rep, end, "remove_root", r)
  BY <1>1, <1>2, <1>4, <1>5
  DEF CommitTypes, HasNode, HasInode, HasChildNode, RemovesChild, Inserts
<1>10. ASSUME t \notin torn, Current(t, "parent"), Current(t, "node")
       PROVE  CommitBelief(t, "remove_root", tree, rep, end, start)
  <2>1. OnLink(t, tree, rep, end)
    BY <1>1, <1>10, AtNodeOnPath
  <2>2. root = at[t]["node"]
    BY <1>5, <2>1 DEF OnLink, Linked
  <2> QED
    BY <2>2 DEF CommitBelief, RemovesChild
<1>11. "remove_root" \notin RemovesChild
  BY DEF RemovesChild
<1>12. Includes(steps, "upgrade", "parent") /\ Includes(steps, "upgrade", "node")
  BY <1>6 DEF Includes, Is
<1>13. "parent" \in Role /\ "node" \in Role
  BY DEF Role
<1> QED
  BY <1>1, <1>2, <1>3, <1>4, <1>7, <1>8, <1>9, <1>10, <1>11, <1>12, <1>13, CommitKnows

\* An insert finds another prefix.
LEMMA SplitPrefixPlanInv ==
    ASSUME NEW tree, NEW rep, NEW end, NEW start, Inv(tree, rep, end, start),
           NEW t \in Thread, insert_prefix_differs(t)
    PROVE  Inv(tree, rep, end, start)'
<1>1. /\ pc[t] = "at_node" /\ todo[t] = <<>> /\ op[t] = "insert" /\ Ready(t, "at_node")
      /\ nodes[at[t]["node"]].kind = "inode" /\ PrefixDiffers(t)
  BY DEF insert_prefix_differs, PrefixDiffers, AtInode, Ready, NodeOf
<1>2. Nil \in Lock
  BY <1>1, InOperation
<1>3. at[t]["parent"] # at[t]["node"] /\ pc[t] \notin Commits \cup {"idle"}
  BY <1>1, AtInodeTypes
<1>4. PICK steps : Is(steps, << <<"upgrade", "parent">>, <<"upgrade", "node">> >>)
  BY DEF Is
<1>5. GoodSteps(steps) /\ Prepares("split_prefix", steps) /\ RolesDiffer(t, steps)
  BY <1>3, <1>4, CommitLists, ListRoles2 DEF Is
<1>6. Commit(t, "split_prefix", Nil, steps) /\ Steady
  BY <1>4 DEF insert_prefix_differs, Steady, Is
<1>7. CommitTypes(t, rep, end, "split_prefix", Nil)
  <2>1. /\ IsUsed(at[t]["node"]) /\ IsInode(at[t]["node"])
        /\ at[t]["parent"] # Nil => IsInode(at[t]["parent"]) /\ end[at[t]["parent"]] < end[at[t]["node"]]
    BY <1>1, AtInodeTypes
  <2> QED
    BY <1>1, <2>1 DEF CommitTypes, HasNode, HasInode, HasChildNode, RemovesChild, Inserts
<1>8. ASSUME t \notin torn, Current(t, "parent"), Current(t, "node")
      PROVE  CommitBelief(t, "split_prefix", tree, rep, end, start)
  <2>1. OnLink(t, tree, rep, end) /\ OnPath(t, tree, rep, start)
    BY <1>1, <1>8, AtNodeOnPath
  <2>2. ~SameTo(key[t], rep[at[t]["node"]], end[at[t]["node"]])
    BY <1>1, <1>8, PrefixDiffersMeans
  <2> QED
    BY <2>1, <2>2 DEF CommitBelief, RemovesChild
<1>9. "split_prefix" \notin RemovesChild
  BY DEF RemovesChild
<1>10. Includes(steps, "upgrade", "parent") /\ Includes(steps, "upgrade", "node")
  BY <1>4 DEF Includes, Is
<1>11. "parent" \in Role /\ "node" \in Role
  BY DEF Role
<1> QED
  BY <1>1, <1>2, <1>3, <1>5, <1>6, <1>7, <1>8, <1>9, <1>10, <1>11, CommitKnows

\* An insert finds no child: a leaf is to be added to the node, or to a larger one.
LEMMA AddPlanInv ==
    ASSUME NEW tree, NEW rep, NEW end, NEW start, Inv(tree, rep, end, start),
           NEW t \in Thread, add_or_choose_subtree(t), ~HasChild(t)
    PROVE  Inv(tree, rep, end, start)'
<1>1. pc[t] = "find_child" /\ todo[t] = <<>> /\ op[t] = "insert" /\ Ready(t, "find_child")
  BY DEF add_or_choose_subtree, Ready
<1>2. Nil \in Lock
  BY <1>1, InOperation
<1>3. /\ at[t]["parent"] # at[t]["node"] /\ pc[t] \notin Commits \cup {"idle"}
      /\ IsUsed(at[t]["node"]) /\ IsInode(at[t]["node"])
      /\ at[t]["parent"] # Nil => IsInode(at[t]["parent"]) /\ end[at[t]["parent"]] < end[at[t]["node"]]
  BY <1>1, AtInodeTypes
<1>4. "parent" \in Role /\ "node" \in Role
  BY DEF Role
<1>5. ASSUME t \notin torn, Current(t, "parent"), Current(t, "node")
      PROVE  /\ PastPrefix(t, tree, rep, end) /\ OnLink(t, tree, rep, end)
             /\ key[t][end[at[t]["node"]] + 1] \notin DOMAIN nodes[at[t]["node"]].kids
  BY <1>1, <1>5, NoChildMeans
<1>6. CASE is_full(NodeOf(t, "node"))
  <2>1. PICK steps : Is(steps, << <<"upgrade", "parent">>, <<"upgrade", "node">>,
                                  <<"obsolete", "node">> >>)
    BY DEF Is
  <2>2. GoodSteps(steps) /\ Prepares("grow", steps) /\ RolesDiffer(t, steps)
    BY <1>3, <2>1, CommitLists, ListRoles2 DEF Is
  <2>3. Commit(t, "grow", Nil, steps) /\ Steady
    BY <1>6, <2>1 DEF add_or_choose_subtree, Steady, Is
  <2>4. CommitTypes(t, rep, end, "grow", Nil)
    BY <1>1, <1>3 DEF CommitTypes, HasNode, HasInode, HasChildNode, RemovesChild, Inserts
  <2>5. ASSUME t \notin torn, Current(t, "parent"), Current(t, "node")
        PROVE  CommitBelief(t, "grow", tree, rep, end, start)
    BY <1>5, <1>6, <2>5 DEF CommitBelief, RemovesChild, NodeOf
  <2>6. "grow" \notin RemovesChild
    BY DEF RemovesChild
  <2>7. Includes(steps, "upgrade", "parent") /\ Includes(steps, "upgrade", "node")
    BY <2>1 DEF Includes, Is
  <2> QED
    BY <1>1, <1>2, <1>3, <1>4, <2>2, <2>3, <2>4, <2>5, <2>6, <2>7, CommitKnows
<1>7. CASE ~is_full(NodeOf(t, "node"))
  <2>1. PICK steps : Is(steps, << <<"upgrade", "node">>, <<"check", "parent">> >>)
    BY DEF Is
  <2>2. GoodSteps(steps) /\ Prepares("add_to_nonfull", steps) /\ RolesDiffer(t, steps)
    BY <1>3, <2>1, CommitLists, ListRoles2 DEF Is
  <2>3. Commit(t, "add_to_nonfull", Nil, steps) /\ Steady
    BY <1>7, <2>1 DEF add_or_choose_subtree, Steady, Is
  <2>4. CommitTypes(t, rep, end, "add_to_nonfull", Nil)
    BY <1>1, <1>3 DEF CommitTypes, HasNode, HasInode, HasChildNode, RemovesChild, Inserts
  <2>5. ASSUME t \notin torn, Current(t, "parent"), Current(t, "node")
        PROVE  CommitBelief(t, "add_to_nonfull", tree, rep, end, start)
    BY <1>5, <1>7, <2>5 DEF CommitBelief, RemovesChild, NodeOf
  <2>6. "add_to_nonfull" \notin RemovesChild
    BY DEF RemovesChild
  <2>7. Includes(steps, "check", "parent") /\ Includes(steps, "upgrade", "node")
    BY <2>1 DEF Includes, Is
  <2> QED
    BY <1>1, <1>2, <1>3, <1>4, <2>2, <2>3, <2>4, <2>5, <2>6, <2>7, CommitKnows
<1> QED
  BY <1>6, <1>7

\* A remove finds its key in a child that is a leaf: the node is to lose a child, or to
\* be replaced.
LEMMA RemovePlanInv ==
    ASSUME NEW tree, NEW rep, NEW end, NEW start, Inv(tree, rep, end, start),
           NEW t \in Thread, remove_or_choose_subtree(t), NodeOf(t, "child").kind # "inode",
           matches(NodeOf(t, "child"), key[t])
    PROVE  Inv(tree, rep, end, start)'
<1>1. pc[t] = "at_child" /\ todo[t] = <<>> /\ Ready(t, "at_child")
  BY DEF remove_or_choose_subtree, Ready
<1>2. PICK c : c = at[t]["child"]
  OBVIOUS
<1>3. c \in Lock /\ TreeFits(tree, rep, end, start) /\ ThreadTypes(t, rep, end)
  BY <1>1, <1>2, InOperation
<1>4. /\ at[t]["parent"] # at[t]["node"] /\ pc[t] \notin Commits \cup {"idle"}
      /\ IsUsed(at[t]["node"]) /\ IsInode(at[t]["node"])
      /\ at[t]["parent"] # Nil => IsInode(at[t]["parent"]) /\ end[at[t]["parent"]] < end[at[t]["node"]]
  BY <1>1, AtInodeTypes
<1>5. c # at[t]["node"] /\ c # at[t]["parent"]
  BY <1>1, <1>2, RolesApart DEF HasNode, HasInode, HasChildNode
<1>6. IsUsed(c) /\ op[t] = "remove" /\ end[at[t]["node"]] < end[c]
  BY <1>1, <1>2, <1>3 DEF ThreadTypes, HasChildNode
<1>7. IsLeaf(c) /\ nodes[c].key = key[t]
  BY <1>2, <1>3, <1>6, UsedKinds, Standing DEF IsInode, NodeOf, matches
<1>8. "parent" \in Role /\ "node" \in Role
  BY DEF Role
<1>9. ASSUME t \notin torn, Current(t, "parent"), Current(t, "node")
      PROVE  PastPrefix(t, tree, rep, end) /\ OnLink(t, tree, rep, end) /\ ToChild(t, end)
  BY <1>1, <1>9, AtChildMeans
<1>10. CASE ~is_min_size(NodeOf(t, "node"))
  <2>1. PICK steps : Is(steps, << <<"check", "parent">>, <<"upgrade", "node">>,
                                  <<"upgrade", "child">>, <<"obsolete", "child">> >>)
    BY DEF Is
  <2>2. GoodSteps(steps) /\ Prepares("remove_child", steps) /\ RolesDiffer(t, steps)
    BY <1>2, <1>4, <1>5, <2>1, CommitLists, ListRoles3 DEF Is
  <2>3. Commit(t, "remove_child", c, steps) /\ Steady
    BY <1>2, <1>10, <2>1 DEF remove_or_choose_subtree, Steady, Is, NodeOf
  <2>4. CommitTypes(t, rep, end, "remove_child", c)
    BY <1>2, <1>4, <1>6, <1>7
    DEF CommitTypes, HasNode, HasInode, HasChildNode, RemovesChild, Inserts
  <2>5. ASSUME t \notin torn, Current(t, "parent"), Current(t, "node")
        PROVE  CommitBelief(t, "remove_child", tree, rep, end, start)
    BY <1>9, <1>10, <2>5 DEF CommitBelief, RemovesChild, NodeOf
  <2>6. Includes(steps, "check", "parent") /\ Includes(steps, "upgrade", "node")
    BY <2>1 DEF Includes, Is
  <2> QED
    BY <1>1, <1>2, <1>3, <1>4, <1>5, <1>8, <2>2, <2>3, <2>4, <2>5, <2>6, CommitKnows
<1>11. CASE is_min_size(NodeOf(t, "node"))
  <2>0. PICK label : label = IF NodeOf(t, "node").class = 1 THEN "leave_last_child" ELSE "shrink"
    OBVIOUS
  <2>1. /\ label \in {"leave_last_child", "shrink"}
        /\ label = "leave_last_child" => nodes[at[t]["node"]].class = 1
        /\ label = "shrink" => nodes[at[t]["node"]].class # 1
    BY <2>0 DEF NodeOf
  <2>2. GoodSteps(shrink_steps) /\ Prepares(label, shrink_steps) /\ RolesDiffer(t, shrink_steps)
    BY <1>2, <1>4, <1>5, <2>1, CommitLists, ListRoles3
  <2>3. Commit(t, label, c, shrink_steps) /\ Steady
    BY <1>2, <1>11, <2>0 DEF remove_or_choose_subtree, Steady, NodeOf
  <2>4. CommitTypes(t, rep, end, label, c)
    BY <1>2, <1>4, <1>6, <1>7, <2>1
    DEF CommitTypes, HasNode, HasInode, HasChildNode, RemovesChild, Inserts
  <2>5. ASSUME t \notin torn, Current(t, "parent"), Current(t, "node")
        PROVE  CommitBelief(t, label, tree, rep, end, start)
    BY <1>9, <1>11, <2>1, <2>5 DEF CommitBelief, RemovesChild, NodeOf
  <2>6. Includes(shrink_steps, "upgrade", "parent") /\ Includes(shrink_steps, "upgrade", "node")
    BY DEF Includes, shrink_steps
  <2> QED
    BY <1>1, <1>2, <1>3, <1>4, <1>5, <1>8, <2>2, <2>3, <2>4, <2>5, <2>6, CommitKnows
<1> QED
  BY <1>10, <1>11

(***************************************************************************)
(* Steps that go on to the next node.                                      *)
(***************************************************************************)
\* t goes on at label, with the nodes a, the versions v and the depth d.
Moves(t, label, a, v, d) ==
    /\ pc' = [pc EXCEPT ![t] = label]
    /\ at' = [at EXCEPT ![t] = a]
    /\ ver' = [ver EXCEPT ![t] = v]
    /\ DOMAIN depth' = Thread /\ depth'[t] = d /\ \A u \in Thread \ {t} : depth'[u] = depth[u]
    /\ UNCHANGED <<root, nodes, word, map, seen, torn, load, left, op, key, held, result>>
    /\ label \in {"lock_node", "at_node", "find_child", "lock_child", "at_child"}
    /\ a \in [Role -> Lock] /\ v \in [Role -> Nat] /\ d \in Nat
    /\ \A r \in Role : Past(a[r], v[r])
    /\ label = "lock_node" => v["node"] = 0
    /\ label # "at_child" => v["child"] = 0

\* What the types of a thread say of such a step.
MoveTypes(t, rep, end, label, a) ==
    LET p == a["parent"]
        n == a["node"]
        c == a["child"]
    IN /\ \A r \in Role : a[r] # Nil => IsUsed(a[r])
       /\ IsUsed(n) /\ (p # Nil => IsInode(p) /\ end[p] < end[n])
       /\ label \in {"find_child", "lock_child", "at_child"} => IsInode(n)
       /\ label \in {"lock_child", "at_child"} => IsUsed(c) /\ end[n] < end[c] /\ op[t] = "remove"
       /\ op[t] = "remove" /\ label = "lock_node" => p = Nil
       /\ op[t] = "remove" /\ label = "at_node" => p = Nil \/ IsInode(n)
       /\ /\ op[t] = "remove" /\ label \in {"lock_node", "at_node"}
          /\ IsLeaf(n) /\ nodes[n].key # key[t]
          => Nil \in seen[t]

\* What the thread sees after such a step.
LEMMA MoveIs ==
    ASSUME NEW tree, NEW rep, NEW end, NEW start, Inv(tree, rep, end, start), NEW t \in Thread,
           NEW label, NEW a, NEW v, NEW d, Moves(t, label, a, v, d),
           todo' \in [Thread -> Seq(Entry)], \A u \in Thread \ {t} : todo'[u] = todo[u]
    PROVE  /\ pc'[t] = label /\ at'[t] = a /\ ver'[t] = v /\ depth'[t] = d /\ op' = op
           /\ Others(t) /\ SameTree /\ LockTypes' /\ word' = word /\ held' = held
           /\ \A r \in Role : Past(at[t][r], ver[t][r])'
           /\ torn' = torn /\ seen' = seen
<1>0. LockTypes
  BY DEF Inv, LockInv
<1>1. /\ pc' = [pc EXCEPT ![t] = label] /\ at' = [at EXCEPT ![t] = a]
      /\ ver' = [ver EXCEPT ![t] = v] /\ depth'[t] = d
      /\ DOMAIN depth' = Thread /\ \A u \in Thread \ {t} : depth'[u] = depth[u]
      /\ UNCHANGED <<root, nodes, word, map, seen, torn, load, left, op, key, held, result>>
      /\ a \in [Role -> Lock] /\ v \in [Role -> Nat] /\ label \in Labels
  BY DEF Moves, Labels
<1>2. /\ pc'[t] = label /\ at'[t] = a /\ ver'[t] = v /\ depth'[t] = d
  BY <1>0, <1>1 DEF LockTypes
<1>3. LockTypes'
  BY <1>0, <1>1 DEF LockTypes
<1>4. Others(t) /\ SameTree
  BY <1>0, <1>1 DEF Others, SameTree, LockTypes
<1>5. \A r \in Role : Past(at[t][r], ver[t][r])'
  BY <1>1, <1>2 DEF Moves, Past
<1> QED
  BY <1>1, <1>2, <1>3, <1>4, <1>5

\* The beliefs after a move, from where it leads.
LEMMA MoveBeliefs ==
    ASSUME NEW tree, NEW rep, NEW end, NEW t, root' = root, nodes' = nodes, key' = key,
           NEW p, Is(p, at'[t]["parent"]), NEW n, Is(n, at'[t]["node"]),
           NEW c, Is(c, at'[t]["child"]), NEW d, Is(d, depth'[t])
    PROVE  /\ OnLink(t, tree, rep, end)' <=> Linked(tree, rep, end, key[t], p, n)
           /\ PastPrefix(t, tree, rep, end)' <=>
                 n \in tree /\ d = end[n] /\ SameTo(key[t], rep[n], end[n])
           /\ ToChild(t, end)' <=> /\ key[t][end[n] + 1] \in DOMAIN nodes[n].kids
                                   /\ nodes[n].kids[key[t][end[n] + 1]] = c
<1>1. OnLink(t, tree, rep, end)' <=> Linked(tree, rep, end, key[t], p, n)
  BY DEF OnLink, Linked, IsInode, IsUsed, Is
<1>2. PastPrefix(t, tree, rep, end)' <=>
                 n \in tree /\ d = end[n] /\ SameTo(key[t], rep[n], end[n])
  BY DEF PastPrefix, Is
<1>3. ToChild(t, end)' <=> /\ key[t][end[n] + 1] \in DOMAIN nodes[n].kids
                           /\ nodes[n].kids[key[t][end[n] + 1]] = c
  BY DEF ToChild, Is
<1> QED
  BY <1>1, <1>2, <1>3

\* Such a step keeps the invariant if its thread still knows what it believes.
LEMMA MoveInv ==
    ASSUME NEW tree, NEW rep, NEW end, NEW start, Inv(tree, rep, end, start), NEW t \in Thread,
           pc[t] \notin Commits \cup {"idle"}, todo[t] = <<>>,
           NEW label, NEW a, NEW v, NEW d, Moves(t, label, a, v, d),
           todo' \in [Thread -> Seq(Entry)], \A u \in Thread \ {t} : todo'[u] = todo[u],
           \A i \in DOMAIN todo'[t] : todo'[t][i].on # Nil => IsUsed(todo[t][i].on)',
           LockInv', MoveTypes(t, rep, end, label, a),
           Valid(t)' /\ t \notin torn => Believes(t, tree, rep, end, start)'
    PROVE  Inv(tree, rep, end, start)'
<1>0. LockInv /\ ThreadTypes(t, rep, end)
  BY DEF Inv
<1>1. /\ pc'[t] = label /\ at'[t] = a /\ ver'[t] = v /\ depth'[t] = d
      /\ Others(t) /\ SameTree /\ word' = word /\ torn' = torn /\ seen' = seen
  BY MoveIs
<1>2. /\ root' = root /\ nodes' = nodes /\ map' = map /\ held' = held /\ result' = result
      /\ op' = op /\ key' = key /\ d \in Nat
      /\ label \in {"lock_node", "at_node", "find_child", "lock_child", "at_child"}
  BY DEF Moves
<1>3. held[t] = <<>> /\ \A l : ~Mine(t, l)
  BY <1>0, NoGuards
<1>4. ThreadTypes(t, rep, end)'
  <2>1. \A l : (IsUsed(l)' <=> IsUsed(l)) /\ (IsLeaf(l)' <=> IsLeaf(l)) /\ (IsInode(l)' <=> IsInode(l))
    BY <1>2 DEF IsUsed, IsLeaf, IsInode
  <2>2. PICK p, n, c : p = a["parent"] /\ n = a["node"] /\ c = a["child"]
    OBVIOUS
  <2>3. p = at'[t]["parent"] /\ n = at'[t]["node"] /\ c = at'[t]["child"]
    BY <1>1, <2>2
  <2>4. /\ IsUsed(at[t]["node"])' <=> IsUsed(n)
        /\ IsUsed(at[t]["child"])' <=> IsUsed(c)
        /\ IsInode(at[t]["parent"])' <=> IsInode(p)
        /\ IsInode(at[t]["node"])' <=> IsInode(n)
        /\ IsLeaf(at[t]["node"])' <=> IsLeaf(n)
    BY <1>2, <2>3 DEF IsUsed, IsLeaf, IsInode
  <2>5. ASSUME NEW r \in Role, at'[t][r] # Nil PROVE IsUsed(at[t][r])'
    <3>1. IsUsed(a[r])
      BY <1>1, <2>5 DEF MoveTypes
    <3> QED
      BY <1>1, <1>2, <3>1 DEF IsUsed
  <2>6. key'[t] \in Key /\ op'[t] # "none" /\ map'[key'[t]] \in seen'[t]
        /\ (t \in torn' => op'[t] = "get") /\ result'[t] \in Lock /\ depth'[t] \in Nat
    BY <1>0, <1>1, <1>2 DEF ThreadTypes
  <2>7. /\ IsUsed(n) /\ (p # Nil => IsInode(p) /\ end[p] < end[n])
        /\ label \in {"find_child", "lock_child", "at_child"} => IsInode(n)
        /\ label \in {"lock_child", "at_child"} => IsUsed(c) /\ end[n] < end[c] /\ op[t] = "remove"
        /\ op[t] = "remove" /\ label = "lock_node" => p = Nil
        /\ op[t] = "remove" /\ label = "at_node" => p = Nil \/ IsInode(n)
        /\ /\ op[t] = "remove" /\ label \in {"lock_node", "at_node"}
           /\ IsLeaf(n) /\ nodes[n].key # key[t]
           => Nil \in seen[t]
    BY <2>2 DEF MoveTypes
  <2>8. /\ pc'[t] \notin Commits \cup RemovesChild \cup Inserts
        /\ pc'[t] \notin {"split_leaf", "remove_root", "insert_root", "split_leaf"}
        /\ pc'[t] \notin {"idle", "root_lock", "load_root"}
        /\ pc'[t] \in HasInode => label \in {"find_child", "lock_child", "at_child"}
        /\ pc'[t] \in HasChildNode => label \in {"lock_child", "at_child"}
    BY <1>1, <1>2 DEF Commits, RemovesChild, Inserts, HasInode, HasChildNode
  <2>9. held'[t] = <<>>
    BY <1>2, <1>3
  <2> QED
    BY <1>1, <1>2, <2>3, <2>4, <2>5, <2>6, <2>7, <2>8, <2>9 DEF ThreadTypes
<1>5. Knows(t, tree, rep, end, start)'
  BY <1>1 DEF Knows
<1>6. \A u \in Thread \ {t} : seen'[u] = seen[u] /\ (u \in torn' <=> u \in torn)
  BY <1>1
<1> QED
  BY <1>1, <1>3, <1>4, <1>5, <1>6, QuietInv DEF Mine

\* With a list of checks to do first.
LEMMA MoveChecks ==
    ASSUME NEW tree, NEW rep, NEW end, NEW start, Inv(tree, rep, end, start), NEW t \in Thread,
           pc[t] \notin Commits \cup {"idle"}, todo[t] = <<>>,
           NEW label \in {"lock_node", "at_node", "lock_child"},
           NEW a, NEW v, NEW d, Moves(t, label, a, v, d),
           NEW steps, GoodSteps(steps), OnlyChecks(steps), Plan(t, steps), RolesDiffer(t, steps),
           op[t] = "get" /\ label = "at_node" =>
              /\ Len(steps) = 1 /\ steps[1] = <<"check", "parent">>
              /\ a["parent"] = at[t]["parent"] /\ v["parent"] = ver[t]["parent"],
           MoveTypes(t, rep, end, label, a),
           t \notin torn /\ (\A i \in DOMAIN steps : Current(t, steps[i][2])) =>
              Believes(t, tree, rep, end, start)'
    PROVE  Inv(tree, rep, end, start)'
<1>0. LockInv /\ ThreadTypes(t, rep, end) /\ LockTypes
  BY DEF Inv, LockInv
<1>1. todo' \in [Thread -> Seq(Entry)] /\ \A u \in Thread \ {t} : todo'[u] = todo[u]
  BY <1>0, PlanIs
<1>2. /\ pc'[t] = label /\ at'[t] = a /\ ver'[t] = v /\ op' = op
      /\ Others(t) /\ SameTree /\ LockTypes' /\ word' = word /\ held' = held
      /\ \A r \in Role : Past(at[t][r], ver[t][r])'
  BY <1>1, MoveIs
<1>3. (label = "lock_node" => v["node"] = 0) /\ v["child"] = 0
  BY DEF Moves
<1>4. LockInv'
  <2>1. pc'[t] \notin Commits \cup {"idle", "load_root", "find_child", "at_child", "root_lock"}
    BY <1>2 DEF Commits
  <2>2. op'[t] = "get" /\ pc'[t] = "at_node" =>
              /\ Len(steps) = 1 /\ steps[1] = <<"check", "parent">>
              /\ at'[t]["parent"] = at[t]["parent"] /\ ver'[t]["parent"] = ver[t]["parent"]
    BY <1>2
  <2>3. pc'[t] \in {"idle", "root_lock", "load_root", "lock_node"} => ver'[t]["node"] = 0
    BY <1>2, <1>3, <2>1
  <2>4. ver'[t]["child"] = 0
    BY <1>2, <1>3
  <2> QED
    BY <1>0, <1>2, <2>1, <2>2, <2>3, <2>4, ChecksStep
<1>5. \A i \in DOMAIN todo'[t] : todo'[t][i].on # Nil => IsUsed(todo[t][i].on)'
  BY <1>0, <1>2, PlanUsed
<1>6. ASSUME Valid(t)', t \notin torn PROVE Believes(t, tree, rep, end, start)'
  <2>1. \A i \in DOMAIN steps : Current(t, steps[i][2])
    BY <1>0, <1>2, <1>6, PlanValid DEF OnlyChecks
  <2> QED
    BY <1>6, <2>1
<1> QED
  BY <1>1, <1>4, <1>5, <1>6, MoveInv

\* With nothing to do first.
LEMMA MoveOn ==
    ASSUME NEW tree, NEW rep, NEW end, NEW start, Inv(tree, rep, end, start), NEW t \in Thread,
           pc[t] \notin Commits \cup {"idle"}, todo[t] = <<>>,
           NEW label, NEW a, NEW v, NEW d, Moves(t, label, a, v, d), todo' = todo,
           MoveTypes(t, rep, end, label, a),
           t \notin torn => Believes(t, tree, rep, end, start)'
    PROVE  Inv(tree, rep, end, start)'
<1>0. LockInv /\ ThreadTypes(t, rep, end) /\ LockTypes
  BY DEF Inv, LockInv
<1>1. todo' \in [Thread -> Seq(Entry)] /\ \A u \in Thread \ {t} : todo'[u] = todo[u]
  BY <1>0 DEF LockTypes
<1>2. /\ pc'[t] = label /\ at'[t] = a /\ ver'[t] = v /\ op' = op
      /\ Others(t) /\ SameTree /\ LockTypes' /\ word' = word /\ held' = held
      /\ \A r \in Role : Past(at[t][r], ver[t][r])'
  BY <1>1, MoveIs
<1>3. /\ label = "lock_node" => v["node"] = 0
      /\ label # "at_child" => v["child"] = 0
      /\ label \in {"lock_node", "at_node", "find_child", "lock_child", "at_child"}
  BY DEF Moves
<1>4. LockInv'
  <2>1. pc'[t] \notin Commits \cup {"idle", "load_root", "root_lock"}
    BY <1>2, <1>3 DEF Commits
  <2>2. pc'[t] \in {"idle", "root_lock", "load_root", "lock_node"} => ver'[t]["node"] = 0
    BY <1>2, <1>3, <2>1
  <2>3. pc'[t] \notin Commits \cup {"at_child", "return"} => ver'[t]["child"] = 0
    BY <1>2, <1>3
  <2> QED
    BY <1>0, <1>2, <2>1, <2>2, <2>3, NoListStep
<1>5. \A i \in DOMAIN todo'[t] : todo'[t][i].on # Nil => IsUsed(todo[t][i].on)'
  OBVIOUS
<1> QED
  BY <1>1, <1>4, <1>5, MoveInv

\* The root pointer is read.
LEMMA LoadRootInv ==
    ASSUME NEW tree, NEW rep, NEW end, NEW start, Inv(tree, rep, end, start),
           NEW t \in Thread, load_root(t)
    PROVE  Inv(tree, rep, end, start)'
<1>1. /\ pc[t] = "load_root" /\ todo[t] = <<>> /\ root # Nil
      /\ Plan(t, << <<"check", "parent">> >>) /\ pc' = [pc EXCEPT ![t] = "lock_node"]
      /\ at' = [at EXCEPT ![t]["node"] = root]
      /\ UNCHANGED <<root, nodes, word, map, seen, torn, load, left, op, key, depth, ver, held, result>>
  BY DEF load_root, Ready, Goto, treeVars, historyVars, opVars
<1>2. /\ key[t] \in Key /\ map[key[t]] \in seen[t] /\ Nil \in Lock /\ ThreadTypes(t, rep, end)
      /\ TreeFits(tree, rep, end, start) /\ LockTypes /\ Versions(t)
  BY <1>1, InOperation
<1>3. pc[t] \notin Commits \cup {"idle"}
  BY <1>1 DEF Commits
<1>4. at[t] = Nowhere /\ depth[t] = 0 /\ ver[t]["node"] = 0 /\ ver[t]["child"] = 0
  BY <1>1, <1>2, <1>3 DEF Versions, ThreadTypes
<1>5. PICK n : Is(n, root)
  BY DEF Is
<1>6. n \in tree /\ start[n] = 0 /\ n \in Node /\ IsUsed(n) /\ n # Nil
  <2>1. Paths(root, kidsOf, tree, rep, end, start) /\ tree \subseteq Node /\ \A m \in tree : IsUsed(m)
    BY <1>2, Standing
  <2>2. n = root /\ n # Nil
    BY <1>1, <1>5 DEF Is
  <2>3. n \in tree /\ start[n] = 0
    BY <2>1, <2>2 DEF Paths
  <2> QED
    BY <2>1, <2>2, <2>3
<1>7. PICK a : Is(a, [at[t] EXCEPT !["node"] = n])
  BY DEF Is
<1>8. a \in [Role -> Lock] /\ a["parent"] = Nil /\ a["child"] = Nil /\ a["node"] = n
  BY <1>2, <1>4, <1>6, <1>7, BoundAssumption DEF Is, Nowhere, Role, Lock, Node, Nil
<1>9. at' = [at EXCEPT ![t] = a]
  BY <1>1, <1>2, <1>5, <1>7 DEF Is, LockTypes
<1>10. Moves(t, "lock_node", a, ver[t], depth[t])
  <2>1. ver' = [ver EXCEPT ![t] = ver[t]] /\ depth' = depth /\ DOMAIN depth = Thread
    BY <1>1, <1>2 DEF LockTypes
  <2>2. ver[t] \in [Role -> Nat] /\ depth[t] \in Nat
    BY <1>2, <1>4 DEF LockTypes
  <2>3. \A r \in Role : Past(a[r], ver[t][r])
    <3> SUFFICES ASSUME NEW r \in Role PROVE Past(a[r], ver[t][r])
      OBVIOUS
    <3>1. CASE r = "node"
      <4>1. word[n] \in Nat /\ n \in Lock
        BY <1>2, <1>8 DEF LockTypes, Role
      <4> QED
        BY <1>4, <1>8, <3>1, <4>1 DEF Past
    <3>2. CASE r # "node"
      <4>1. a[r] = at[t][r]
        BY <1>4, <1>8, <3>2 DEF Nowhere, Role
      <4> QED
        BY <1>2, <4>1 DEF Versions
    <3> QED
      BY <3>1, <3>2
  <2> QED
    BY <1>1, <1>4, <1>8, <1>9, <2>1, <2>2, <2>3 DEF Moves
<1>11. MoveTypes(t, rep, end, "lock_node", a)
  <2>1. ASSUME IsLeaf(n), nodes[n].key # key[t] PROVE Nil \in seen[t]
    <3>1. SameTo(key[t], rep[n], start[n])
      BY <1>6 DEF SameTo
    <3>2. map[key[t]] = Nil
      BY <1>2, <1>6, <2>1, <3>1, LeafAnswers
    <3> QED
      BY <1>2, <3>2
  <2>2. \A r \in Role : a[r] # Nil => IsUsed(a[r])
    BY <1>6, <1>8 DEF Role
  <2> QED
    BY <1>6, <1>8, <2>1, <2>2 DEF MoveTypes
<1>12. PICK steps : Is(steps, << <<"check", "parent">> >>)
  BY DEF Is
<1>13. GoodSteps(steps) /\ OnlyChecks(steps) /\ RolesDiffer(t, steps) /\ Plan(t, steps)
  BY <1>1, <1>12, CheckLists, ListRoles DEF Is
<1>14. Believes(t, tree, rep, end, start)'
  <2>0. pc'[t] = "lock_node" /\ at'[t] = a /\ ver'[t] = ver[t] /\ depth'[t] = depth[t]
    BY <1>1, <1>2, <1>9 DEF LockTypes
  <2>1. PICK c, p, d : Is(c, at'[t]["child"]) /\ Is(p, at'[t]["parent"]) /\ Is(d, depth'[t])
    BY DEF Is
  <2>2. root' = root /\ nodes' = nodes /\ op' = op /\ key' = key /\ Is(n, at'[t]["node"])
    BY <1>1, <1>8, <2>0 DEF Is
  <2>3. /\ OnLink(t, tree, rep, end)' <=> Linked(tree, rep, end, key[t], p, n)
        /\ OnPath(t, tree, rep, start)' <=>
                 /\ n \in tree /\ SameTo(key[t], rep[n], start[n])
                 /\ IsInode(n) \/ op[t] # "get" => d = start[n]
    <3>1. OnLink(t, tree, rep, end)' <=> Linked(tree, rep, end, key[t], p, n)
      BY ONLY <2>1, <2>2, MoveBeliefs
    <3>2. OnPath(t, tree, rep, start)' <=>
                 /\ n \in tree /\ SameTo(key[t], rep[n], start[n])
                 /\ IsInode(n) \/ op[t] # "get" => d = start[n]
      BY <2>1, <2>2 DEF OnPath, IsInode, IsUsed, Is
    <3> QED
      BY ONLY <3>1, <3>2
  <2>4. p = Nil /\ d = 0
    BY <1>4, <1>8, <2>0, <2>1 DEF Is
  <2>5. Linked(tree, rep, end, key[t], p, n) /\ SameTo(key[t], rep[n], start[n])
    BY <1>5, <1>6, <2>4 DEF Linked, Is, SameTo
  <2>6. OnLink(t, tree, rep, end)' /\ OnPath(t, tree, rep, start)'
    BY <1>6, <2>3, <2>4, <2>5
  <2> QED
    BY <2>0, <2>6 DEF Believes, RemovesChild
<1> QED
  BY <1>1, <1>3, <1>10, <1>11, <1>13, <1>14, MoveChecks

\* The lock of a node or of a child is read.
LEMMA LockNodeInv ==
    ASSUME NEW tree, NEW rep, NEW end, NEW start, Inv(tree, rep, end, start),
           NEW t \in Thread, NEW r \in {"node", "child"}, try_read_lock(t, r)
    PROVE  Inv(tree, rep, end, start)'
<1>0. PICK label : Is(label, IF r = "node" THEN "at_node" ELSE "at_child")
  BY DEF Is
<1>1. /\ pc[t] = IF r = "node" THEN "lock_node" ELSE "lock_child"
      /\ todo[t] = <<>> /\ word[at[t][r]] % 4 = 0
      /\ ver' = [ver EXCEPT ![t][r] = word[at[t][r]]]
      /\ pc' = [pc EXCEPT ![t] = label]
      /\ UNCHANGED <<root, nodes, word, map, seen, torn, load, left, op, key, depth, at, held, result>>
  BY <1>0 DEF try_read_lock, Ready, Goto, treeVars, historyVars, opVars, is_free, Is
<1>2. /\ r = "node" => pc[t] = "lock_node" /\ label = "at_node"
      /\ r = "child" => pc[t] = "lock_child" /\ label = "at_child"
      /\ r \in Role
  BY <1>0, <1>1 DEF Is, Role
<1>3. /\ key[t] \in Key /\ map[key[t]] \in seen[t] /\ Nil \in Lock /\ ThreadTypes(t, rep, end)
      /\ TreeFits(tree, rep, end, start) /\ LockTypes /\ Versions(t)
      /\ op[t] \in {"get", "insert", "remove"} /\ depth[t] \in Nat
  BY <1>2, InOperation
<1>4. pc[t] \notin Commits \cup {"idle"}
  BY <1>2 DEF Commits
<1>5. PICK v : Is(v, [ver[t] EXCEPT ![r] = word[at[t][r]]])
  BY DEF Is
<1>6. at[t] \in [Role -> Lock] /\ word[at[t][r]] \in Nat /\ ver[t] \in [Role -> Nat]
  BY <1>2, <1>3 DEF LockTypes
<1>7. v \in [Role -> Nat] /\ v[r] = word[at[t][r]] /\ \A q \in Role : q # r => v[q] = ver[t][q]
  BY <1>2, <1>5, <1>6 DEF Is
<1>8. ver' = [ver EXCEPT ![t] = v]
  BY <1>1, <1>3, <1>5 DEF Is, LockTypes
<1>9. r = "child" => op[t] = "remove"
  BY <1>2, <1>3 DEF ThreadTypes
<1>10. Moves(t, label, at[t], v, depth[t])
  <2>1. at' = [at EXCEPT ![t] = at[t]] /\ depth' = depth /\ DOMAIN depth = Thread
    BY <1>1, <1>3 DEF LockTypes
  <2>2. \A q \in Role : Past(at[t][q], v[q])
    <3> SUFFICES ASSUME NEW q \in Role PROVE Past(at[t][q], v[q])
      OBVIOUS
    <3>1. CASE q = r
      BY <1>1, <1>6, <1>7, <3>1 DEF Past
    <3>2. CASE q # r
      BY <1>3, <1>7, <3>2 DEF Versions
    <3> QED
      BY <3>1, <3>2
  <2>3. label # "at_child" => v["child"] = 0
    <3>1. label # "at_child" => r = "node"
      BY <1>2
    <3>2. r = "node" => ver[t]["child"] = 0
      BY <1>2, <1>3, <1>4 DEF Versions
    <3> QED
      BY <1>7, <3>1, <3>2 DEF Role
  <2>4. label \in {"at_node", "at_child"}
    BY <1>2
  <2> QED
    BY <1>1, <1>3, <1>6, <1>7, <1>8, <2>1, <2>2, <2>3, <2>4 DEF Moves
<1>11. MoveTypes(t, rep, end, label, at[t])
  <2>1. CASE r = "node"
    BY <1>2, <1>3, <2>1 DEF MoveTypes, ThreadTypes, HasNode
  <2>2. CASE r = "child"
    BY <1>2, <1>3, <2>2 DEF MoveTypes, ThreadTypes, HasNode, HasInode, HasChildNode
  <2> QED
    BY <2>1, <2>2
<1>12. /\ pc'[t] = label /\ at'[t] = at[t] /\ ver'[t] = v /\ depth'[t] = depth[t]
       /\ root' = root /\ nodes' = nodes /\ word' = word /\ op' = op /\ key' = key
  BY <1>1, <1>3, <1>8 DEF LockTypes
<1>13. /\ OnLink(t, tree, rep, end)' <=> OnLink(t, tree, rep, end)
       /\ OnPath(t, tree, rep, start)' <=> OnPath(t, tree, rep, start)
       /\ PastPrefix(t, tree, rep, end)' <=> PastPrefix(t, tree, rep, end)
       /\ ToChild(t, end)' <=> ToChild(t, end)
  BY <1>12 DEF OnLink, Linked, IsInode, IsUsed, OnPath, PastPrefix, ToChild
<1>14. /\ Current(t, "parent")' <=> Current(t, "parent")
       /\ r = "child" => (Current(t, "node")' <=> Current(t, "node"))
  BY <1>7, <1>12 DEF Current, Role
<1>15. t \notin torn => Believes(t, tree, rep, end, start)
  BY <1>1, Believing
<1>16. ASSUME t \notin torn, op'[t] = "get" => todo'[t] # <<>>
       PROVE  Believes(t, tree, rep, end, start)'
  <2>1. CASE r = "node"
    <3>1. pc'[t] = "at_node" /\ (Current(t, "parent") => OnLink(t, tree, rep, end) /\ OnPath(t, tree, rep, start))
      BY <1>2, <1>12, <1>15, <1>16, <2>1 DEF Believes
    <3>2. ParentOK(t)' => Current(t, "parent")'
      BY <1>16 DEF ParentOK
    <3> QED
      BY <1>13, <1>14, <3>1, <3>2 DEF Believes, RemovesChild
  <2>2. CASE r = "child"
    <3>1. /\ pc'[t] = "at_child"
          /\ Current(t, "parent") /\ Current(t, "node") =>
              /\ PastPrefix(t, tree, rep, end) /\ OnLink(t, tree, rep, end) /\ ToChild(t, end)
      BY <1>2, <1>12, <1>15, <1>16, <2>2 DEF Believes
    <3> QED
      BY <1>13, <1>14, <2>2, <3>1 DEF Believes, RemovesChild
  <2> QED
    BY <2>1, <2>2
<1>17. CASE op[t] \in {"insert", "remove"}
  <2>1. todo' = todo
    BY <1>17 DEF try_read_lock
  <2>2. t \notin torn => Believes(t, tree, rep, end, start)'
    BY <1>12, <1>16, <1>17
  <2> QED
    BY <1>1, <1>4, <1>10, <1>11, <2>1, <2>2, MoveOn
<1>18. CASE op[t] = "get"
  <2>1. PICK steps : Is(steps, << <<"check", "parent">> >>)
    BY DEF Is
  <2>2. GoodSteps(steps) /\ OnlyChecks(steps) /\ RolesDiffer(t, steps) /\ Plan(t, steps)
    BY <1>18, <2>1, CheckLists, ListRoles DEF Is, try_read_lock
  <2>3. Len(steps) = 1 /\ steps[1] = <<"check", "parent">>
    BY <2>1 DEF Is
  <2>4. r = "node" /\ label = "at_node" /\ v["parent"] = ver[t]["parent"]
    BY <1>2, <1>7, <1>9, <1>18 DEF Role
  <2>5. todo'[t] # <<>>
    <3>1. Len(todo'[t]) = 1
      BY <1>3, <2>2, <2>3, PlanIs
    <3> QED
      BY <3>1
  <2>6. t \notin torn => Believes(t, tree, rep, end, start)'
    BY <1>16, <2>5
  <2> QED
    BY <1>1, <1>4, <1>10, <1>11, <2>2, <2>3, <2>4, <2>6, MoveChecks
<1> QED
  BY <1>3, <1>17, <1>18

\* The prefix of an inode matches.
LEMMA MatchPrefixInv ==
    ASSUME NEW tree, NEW rep, NEW end, NEW start, Inv(tree, rep, end, start),
           NEW t \in Thread, match_prefix(t)
    PROVE  Inv(tree, rep, end, start)'
<1>1. /\ pc[t] = "at_node" /\ todo[t] = <<>> /\ Ready(t, "at_node")
      /\ nodes[at[t]["node"]].kind = "inode"
      /\ shared(t) = Len(nodes[at[t]["node"]].prefix)
      /\ depth' = [depth EXCEPT ![t] = @ + shared(t)]
      /\ pc' = [pc EXCEPT ![t] = "find_child"] /\ todo' = todo
      /\ UNCHANGED <<root, nodes, word, map, seen, torn, load, left, op, key, at, ver, held, result>>
  BY DEF match_prefix, AtInode, Ready, NodeOf, Goto, treeVars, historyVars, opVars
<1>2. /\ key[t] \in Key /\ map[key[t]] \in seen[t] /\ ThreadTypes(t, rep, end)
      /\ TreeFits(tree, rep, end, start) /\ LockTypes /\ Versions(t) /\ depth[t] \in Nat
  BY <1>1, InOperation
<1>3. PICK n, p, k : n = at[t]["node"] /\ p = at[t]["parent"] /\ k = key[t]
  OBVIOUS
<1>4. /\ IsUsed(n) /\ IsInode(n) /\ (p # Nil => IsInode(p) /\ end[p] < end[n])
      /\ pc[t] \notin Commits \cup {"idle"}
  BY <1>1, <1>3, AtInodeTypes
<1>5. nodes[n].prefix \in Seq(Byte)
  BY <1>2, <1>4, InodeFields, Standing
<1>6. PICK d : Is(d, depth[t] + shared(t))
  BY DEF Is
<1>7. /\ d \in Nat /\ DOMAIN depth' = Thread /\ depth'[t] = d
      /\ \A u \in Thread \ {t} : depth'[u] = depth[u]
  <2>1. shared(t) = Len(nodes[n].prefix)
    BY <1>1, <1>3
  <2>2. shared(t) \in Nat
    BY <1>5, <2>1
  <2>3. d = depth[t] + shared(t) /\ depth' = [depth EXCEPT ![t] = depth[t] + shared(t)]
    BY <1>1, <1>6 DEF Is
  <2>4. depth' = [depth EXCEPT ![t] = d] /\ d \in Nat /\ DOMAIN depth = Thread
    BY <1>2, <2>2, <2>3 DEF LockTypes
  <2> QED
    BY <2>4
<1>8. Moves(t, "find_child", at[t], ver[t], d)
  <2>1. at' = [at EXCEPT ![t] = at[t]] /\ ver' = [ver EXCEPT ![t] = ver[t]]
    BY <1>1, <1>2 DEF LockTypes
  <2>2. ver[t]["child"] = 0 /\ \A r \in Role : Past(at[t][r], ver[t][r])
    BY <1>1, <1>2, <1>4 DEF Versions
  <2>3. at[t] \in [Role -> Lock] /\ ver[t] \in [Role -> Nat]
    BY <1>2 DEF LockTypes
  <2> QED
    BY <1>1, <1>7, <2>1, <2>2, <2>3 DEF Moves
<1>9. MoveTypes(t, rep, end, "find_child", at[t])
  BY <1>2, <1>3, <1>4 DEF MoveTypes, ThreadTypes
<1>10. ASSUME t \notin torn PROVE Believes(t, tree, rep, end, start)'
  <2>0. pc'[t] = "find_child" /\ at'[t] = at[t] /\ ver'[t] = ver[t] /\ depth'[t] = d
    BY <1>1, <1>2, <1>7 DEF LockTypes
  <2>1. PICK c : Is(c, at'[t]["child"])
    BY DEF Is
  <2>2. /\ root' = root /\ nodes' = nodes /\ op' = op /\ key' = key /\ word' = word
        /\ Is(n, at'[t]["node"]) /\ Is(p, at'[t]["parent"]) /\ Is(d, depth'[t])
    BY <1>1, <1>3, <2>0 DEF Is
  <2>3. /\ OnLink(t, tree, rep, end)' <=> Linked(tree, rep, end, key[t], p, n)
        /\ PastPrefix(t, tree, rep, end)' <=>
                 n \in tree /\ d = end[n] /\ SameTo(key[t], rep[n], end[n])
    BY <2>1, <2>2, MoveBeliefs
  <2>4. /\ Current(t, "parent")' <=> Current(t, "parent")
        /\ Current(t, "node")' <=> Current(t, "node")
        /\ ParentOK(t)' => op[t] = "get" \/ Current(t, "parent")
    BY <2>0, <2>2 DEF Current, ParentOK
  <2>5. ASSUME ParentOK(t)', Current(t, "node")'
        PROVE  /\ PastPrefix(t, tree, rep, end)'
               /\ Current(t, "parent")' => OnLink(t, tree, rep, end)'
    <3>1. /\ n \in tree /\ SameTo(k, rep[n], start[n]) /\ depth[t] = start[n]
          /\ Current(t, "parent") => OnLink(t, tree, rep, end)
      BY <1>1, <1>3, <1>4, <1>10, <2>4, <2>5, AtNodeOnPath
    <3>2. PICK len : Is(len, get_shared_length(nodes[n].prefix, k, start[n]))
      BY DEF Is
    <3>3. len = shared(t)
      BY <1>1, <1>3, <3>1, <3>2 DEF shared, NodeOf, Is
    <3>4. len = Len(nodes[n].prefix) /\ k \in Key /\ TreeFits(tree, rep, end, start)
      BY <1>1, <1>2, <1>3, <3>3
    <3>5. n \in tree /\ IsInode(n) /\ SameTo(k, rep[n], start[n])
      BY <1>4, <3>1
    <3>6. SameTo(k, rep[n], end[n]) /\ start[n] + len = end[n]
      BY ONLY <3>2, <3>4, <3>5, PrefixAnswers
    <3>7. d = end[n]
      BY <1>6, <3>1, <3>3, <3>6 DEF Is
    <3> QED
      BY <1>3, <2>3, <2>4, <3>1, <3>6, <3>7 DEF OnLink
  <2> QED
    BY <2>0, <2>5 DEF Believes, RemovesChild
<1> QED
  BY <1>1, <1>4, <1>8, <1>9, <1>10, MoveOn

\* The thread goes down to the child c of its node, with the version cver.
LEMMA DescendMoves ==
    ASSUME NEW tree, NEW rep, NEW end, NEW start, Inv(tree, rep, end, start), NEW t \in Thread,
           pc[t] # "idle", NEW label \in {"lock_node", "at_node"}, NEW c \in Lock, NEW cver \in Nat,
           Past(c, cver), label = "lock_node" => cver = 0,
           Descend(t, c, cver), Goto(t, label),
           UNCHANGED <<treeVars, word, historyVars, opVars, held>>, UNCHANGED result
    PROVE  \E a, v : /\ Moves(t, label, a, v, depth[t] + 1)
                     /\ a["parent"] = at[t]["node"] /\ a["node"] = c /\ a["child"] = Nil
                     /\ v["parent"] = ver[t]["node"] /\ v["node"] = cver
                     /\ at'[t] = a /\ ver'[t] = v /\ pc'[t] = label
                     /\ depth'[t] = depth[t] + 1
<1>1. LockTypes /\ Versions(t) /\ depth[t] \in Nat /\ Nil \in Lock
  BY InOperation
<1>2. PICK a : Is(a, [Nowhere EXCEPT !["parent"] = at[t]["node"], !["node"] = c])
  BY DEF Is
<1>3. PICK v : Is(v, [Nowhere EXCEPT !["parent"] = ver[t]["node"], !["node"] = cver])
  BY DEF Is
<1>4. at[t]["node"] \in Lock /\ ver[t]["node"] \in Nat /\ Past(at[t]["node"], ver[t]["node"])
  BY <1>1 DEF LockTypes, Versions, Role
<1>5. a \in [Role -> Lock] /\ a["parent"] = at[t]["node"] /\ a["node"] = c /\ a["child"] = Nil
  BY <1>1, <1>2, <1>4 DEF Is, Nowhere, Role
<1>6. v \in [Role -> Nat] /\ v["parent"] = ver[t]["node"] /\ v["node"] = cver /\ v["child"] = 0
  BY <1>1, <1>3, <1>4 DEF Is, Nowhere, Role, Nil
<1>7. /\ pc' = [pc EXCEPT ![t] = label] /\ at' = [at EXCEPT ![t] = a] /\ ver' = [ver EXCEPT ![t] = v]
      /\ depth' = [depth EXCEPT ![t] = depth[t] + 1]
      /\ UNCHANGED <<root, nodes, word, map, seen, torn, load, left, op, key, held, result>>
  BY <1>2, <1>3 DEF Descend, Goto, Is, treeVars, historyVars, opVars
<1>8. /\ DOMAIN depth' = Thread /\ depth'[t] = depth[t] + 1
      /\ \A u \in Thread \ {t} : depth'[u] = depth[u]
      /\ at'[t] = a /\ ver'[t] = v /\ pc'[t] = label
  BY <1>1, <1>7 DEF LockTypes
<1>9. \A r \in Role : Past(a[r], v[r])
  <2>1. word[Nil] \in Nat
    BY <1>1 DEF LockTypes
  <2>2. Past(a["child"], v["child"])
    BY <1>5, <1>6, <2>1 DEF Past
  <2> QED
    BY <1>4, <1>5, <1>6, <2>2 DEF Role
<1>10. Moves(t, label, a, v, depth[t] + 1)
  BY <1>1, <1>5, <1>6, <1>7, <1>8, <1>9 DEF Moves
<1> QED
  BY <1>5, <1>6, <1>8, <1>10

\* The child that a thread reads.
LEMMA FoundChild ==
    ASSUME NEW tree, NEW rep, NEW end, NEW start, Inv(tree, rep, end, start), NEW t \in Thread,
           Ready(t, "find_child"), HasChild(t), NEW c, c = find_child(t),
           NEW n, n = at[t]["node"], NEW k, k = key[t]
    PROVE  /\ IsUsed(c) /\ end[n] < end[c] /\ c \in Lock /\ c # Nil
           /\ t \notin torn /\ Current(t, "node") /\ (op[t] = "get" \/ Current(t, "parent")) =>
                 /\ c \in tree /\ start[c] = end[n] + 1 /\ SameTo(k, rep[c], start[c])
                 /\ Linked(tree, rep, end, k, n, c)
                 /\ n \in tree /\ SameTo(k, rep[n], end[n]) /\ depth[t] = end[n]
                 /\ k[end[n] + 1] \in DOMAIN nodes[n].kids /\ nodes[n].kids[k[end[n] + 1]] = c
<1>1. pc[t] = "find_child"
  BY DEF Ready
<1>2. k \in Key /\ TreeFits(tree, rep, end, start)
  BY <1>1, InOperation
<1>3. IsInode(n) /\ IsUsed(n)
  BY <1>1, AtInodeTypes
<1>4. PICK b : b = NextByte(t)
  OBVIOUS
<1>5. b \in DOMAIN nodes[n].kids /\ c = nodes[n].kids[b]
  BY <1>4 DEF HasChild, find_child, NodeOf
<1>6. IsUsed(c) /\ end[n] < end[c] /\ c \in Lock /\ c # Nil
  BY ONLY <1>2, <1>3, <1>5, ChildTypes
<1>7. ASSUME t \notin torn, Current(t, "node"), op[t] = "get" \/ Current(t, "parent")
      PROVE  /\ c \in tree /\ start[c] = end[n] + 1 /\ SameTo(k, rep[c], start[c])
             /\ Linked(tree, rep, end, k, n, c)
             /\ n \in tree /\ SameTo(k, rep[n], end[n]) /\ depth[t] = end[n]
             /\ k[end[n] + 1] \in DOMAIN nodes[n].kids /\ nodes[n].kids[k[end[n] + 1]] = c
  <2>1. n \in tree /\ SameTo(k, rep[n], end[n]) /\ NextByte(t) = k[end[n] + 1] /\ depth[t] = end[n]
    BY <1>7, PastNodePrefix
  <2>2. b = k[end[n] + 1]
    BY <1>4, <2>1
  <2>3. n \in tree /\ SameTo(k, rep[n], end[n])
    BY <2>1
  <2>4. c \in tree /\ start[c] = end[n] + 1 /\ SameTo(k, rep[c], start[c])
    BY ONLY <1>2, <1>3, <1>5, <2>2, <2>3, ChildAnswers
  <2>5. n # Nil
    BY <1>3 DEF IsUsed, Node, Nil
  <2>6. Linked(tree, rep, end, k, n, c)
    BY <1>3, <1>5, <2>2, <2>3, <2>5 DEF Linked
  <2> QED
    BY <1>5, <2>1, <2>2, <2>4, <2>6
<1> QED
  BY <1>6, <1>7

\* get and insert go on to the child.
LEMMA DownInv ==
    ASSUME NEW tree, NEW rep, NEW end, NEW start, Inv(tree, rep, end, start), NEW t \in Thread,
           get_child(t) \/ add_or_choose_subtree(t), HasChild(t)
    PROVE  Inv(tree, rep, end, start)'
<1>1. /\ pc[t] = "find_child" /\ todo[t] = <<>> /\ Ready(t, "find_child")
      /\ op[t] \in {"get", "insert"} /\ Descend(t, find_child(t), 0) /\ Goto(t, "lock_node")
      /\ UNCHANGED <<treeVars, word, historyVars, opVars, held>> /\ UNCHANGED result
  BY DEF get_child, add_or_choose_subtree, Ready
<1>2. PICK n, c, k, d : /\ Is(n, at[t]["node"]) /\ Is(c, find_child(t)) /\ Is(k, key[t])
                        /\ Is(d, depth[t] + 1)
  BY DEF Is
<1>3. /\ IsUsed(c) /\ end[n] < end[c] /\ c \in Lock /\ c # Nil
      /\ t \notin torn /\ Current(t, "node") /\ (op[t] = "get" \/ Current(t, "parent")) =>
            /\ c \in tree /\ start[c] = end[n] + 1 /\ SameTo(k, rep[c], start[c])
            /\ Linked(tree, rep, end, k, n, c) /\ depth[t] = end[n]
  BY <1>1, <1>2, FoundChild DEF Is
<1>4. LockTypes /\ key[t] \in Key /\ depth[t] \in Nat
  BY <1>1, InOperation
<1>5. Past(c, 0)
  BY <1>3, <1>4 DEF Past, LockTypes
<1>6. /\ at[t]["parent"] # at[t]["node"] /\ IsInode(n) /\ IsUsed(n) /\ pc[t] \notin Commits \cup {"idle"}
  BY <1>1, <1>2, AtInodeTypes DEF Is
<1>7. PICK a, v : /\ Moves(t, "lock_node", a, v, d)
                  /\ a["parent"] = n /\ a["node"] = c /\ a["child"] = Nil
                  /\ at'[t] = a /\ pc'[t] = "lock_node" /\ depth'[t] = d
  <2>1. Descend(t, c, 0)
    BY <1>1, <1>2 DEF Is
  <2>2. pc[t] # "idle" /\ "lock_node" \in {"lock_node", "at_node"} /\ 0 \in Nat
    BY <1>1
  <2>3. \E a, v : /\ Moves(t, "lock_node", a, v, depth[t] + 1)
                  /\ a["parent"] = at[t]["node"] /\ a["node"] = c /\ a["child"] = Nil
                  /\ at'[t] = a /\ pc'[t] = "lock_node" /\ depth'[t] = depth[t] + 1
    BY <1>1, <1>3, <1>5, <2>1, <2>2, DescendMoves
  <2> QED
    BY <1>2, <2>3 DEF Is
<1>8. MoveTypes(t, rep, end, "lock_node", a)
  <2>1. \A r \in Role : a[r] # Nil => IsUsed(a[r])
    BY <1>3, <1>6, <1>7 DEF Role
  <2> QED
    BY <1>1, <1>3, <1>6, <1>7, <2>1 DEF MoveTypes
<1>9. ASSUME t \notin torn, Current(t, "node"), op[t] = "get" \/ Current(t, "parent")
      PROVE  Believes(t, tree, rep, end, start)'
  <2>1. root' = root /\ nodes' = nodes /\ key' = key /\ op' = op
    BY <1>1 DEF treeVars, opVars
  <2>2. Is(n, at'[t]["parent"]) /\ Is(c, at'[t]["node"]) /\ Is(d, depth'[t])
    BY <1>7 DEF Is
  <2>3. PICK x : Is(x, at'[t]["child"])
    BY DEF Is
  <2>4. OnLink(t, tree, rep, end)' <=> Linked(tree, rep, end, key[t], n, c)
    BY <2>1, <2>2, <2>3, MoveBeliefs
  <2>5. OnLink(t, tree, rep, end)'
    BY <1>2, <1>3, <1>9, <2>4 DEF Is
  <2>6. c \in tree /\ SameTo(key[t], rep[c], start[c]) /\ d = start[c]
    BY <1>2, <1>3, <1>9 DEF Is
  <2>7. OnPath(t, tree, rep, start)'
    BY <2>1, <2>2, <2>6 DEF OnPath, Is
  <2> QED
    BY <1>7, <2>5, <2>7 DEF Believes, RemovesChild
<1>10. CASE get_child(t)
  <2>1. PICK steps : Is(steps, << <<"check", "node">> >>)
    BY DEF Is
  <2>2. GoodSteps(steps) /\ OnlyChecks(steps) /\ RolesDiffer(t, steps) /\ Plan(t, steps) /\ op[t] = "get"
    BY <1>10, <2>1, CheckLists, ListRoles DEF Is, get_child
  <2>3. (\A i \in DOMAIN steps : Current(t, steps[i][2])) => Current(t, "node")
    BY <2>1 DEF Is
  <2>4. t \notin torn /\ (\A i \in DOMAIN steps : Current(t, steps[i][2])) =>
           Believes(t, tree, rep, end, start)'
    BY <1>9, <2>2, <2>3
  <2> QED
    BY <1>1, <1>6, <1>7, <1>8, <2>2, <2>4, MoveChecks
<1>11. CASE add_or_choose_subtree(t)
  <2>1. PICK steps : Is(steps, << <<"check", "parent">>, <<"check", "node">> >>)
    BY DEF Is
  <2>2. GoodSteps(steps) /\ OnlyChecks(steps) /\ RolesDiffer(t, steps) /\ Plan(t, steps)
    BY <1>6, <1>11, <2>1, CheckLists, ListRoles2 DEF Is, add_or_choose_subtree
  <2>3. (\A i \in DOMAIN steps : Current(t, steps[i][2])) => Current(t, "node") /\ Current(t, "parent")
    BY <2>1 DEF Is
  <2>4. t \notin torn /\ (\A i \in DOMAIN steps : Current(t, steps[i][2])) =>
           Believes(t, tree, rep, end, start)'
    BY <1>9, <2>2, <2>3
  <2> QED
    BY <1>1, <1>6, <1>7, <1>8, <2>2, <2>4, MoveChecks
<1> QED
  BY <1>10, <1>11

\* remove locks the child before it lets go of the node.
LEMMA FindChildInv ==
    ASSUME NEW tree, NEW rep, NEW end, NEW start, Inv(tree, rep, end, start), NEW t \in Thread,
           remove_find_child(t), HasChild(t)
    PROVE  Inv(tree, rep, end, start)'
<1>1. /\ pc[t] = "find_child" /\ todo[t] = <<>> /\ Ready(t, "find_child")
      /\ op[t] = "remove" /\ Plan(t, << <<"check", "node">> >>)
      /\ at' = [at EXCEPT ![t]["child"] = find_child(t)]
      /\ pc' = [pc EXCEPT ![t] = "lock_child"]
      /\ UNCHANGED <<root, nodes, word, map, seen, torn, load, left, op, key, depth, ver, held, result>>
  BY DEF remove_find_child, Ready, Goto, treeVars, historyVars, opVars
<1>2. PICK n, p, c, k : /\ Is(n, at[t]["node"]) /\ Is(p, at[t]["parent"]) /\ Is(c, find_child(t))
                        /\ Is(k, key[t])
  BY DEF Is
<1>3. /\ IsUsed(c) /\ end[n] < end[c] /\ c \in Lock /\ c # Nil
      /\ t \notin torn /\ Current(t, "node") /\ (op[t] = "get" \/ Current(t, "parent")) =>
            /\ n \in tree /\ SameTo(k, rep[n], end[n]) /\ depth[t] = end[n]
            /\ k[end[n] + 1] \in DOMAIN nodes[n].kids /\ nodes[n].kids[k[end[n] + 1]] = c
  BY <1>1, <1>2, FoundChild DEF Is
<1>4. LockTypes /\ key[t] \in Key /\ depth[t] \in Nat /\ Versions(t) /\ ThreadTypes(t, rep, end)
  BY <1>1, InOperation
<1>5. Past(c, 0)
  BY <1>3, <1>4 DEF Past, LockTypes
<1>6. /\ p # n /\ IsInode(n) /\ IsUsed(n) /\ pc[t] \notin Commits \cup {"idle"}
      /\ (p # Nil => IsInode(p) /\ end[p] < end[n])
  BY <1>1, <1>2, AtInodeTypes DEF Is
<1>7. PICK a : Is(a, [at[t] EXCEPT !["child"] = c])
  BY DEF Is
<1>8. a \in [Role -> Lock] /\ a["parent"] = p /\ a["node"] = n /\ a["child"] = c
  BY <1>2, <1>3, <1>4, <1>7 DEF Is, LockTypes, Role
<1>9. at' = [at EXCEPT ![t] = a]
  BY <1>1, <1>2, <1>4, <1>7 DEF Is, LockTypes
<1>10. pc'[t] = "lock_child" /\ at'[t] = a /\ ver'[t] = ver[t] /\ depth'[t] = depth[t]
  BY <1>1, <1>4, <1>9 DEF LockTypes
<1>11. Moves(t, "lock_child", a, ver[t], depth[t])
  <2>1. ver' = [ver EXCEPT ![t] = ver[t]] /\ DOMAIN depth = Thread /\ ver[t] \in [Role -> Nat]
    BY <1>1, <1>4 DEF LockTypes
  <2>2. ver[t]["child"] = 0
    BY <1>1, <1>4, <1>6 DEF Versions
  <2>3. ASSUME NEW r \in Role PROVE Past(a[r], ver[t][r])
    <3>1. CASE r = "child"
      BY <1>5, <1>8, <2>2, <3>1
    <3>2. CASE r # "child"
      <4>1. a[r] = at[t][r]
        BY <1>2, <1>8, <3>2 DEF Role, Is
      <4> QED
        BY <1>4, <4>1 DEF Versions
    <3> QED
      BY <3>1, <3>2
  <2> QED
    BY <1>1, <1>4, <1>8, <1>9, <2>1, <2>2, <2>3 DEF Moves
<1>12. MoveTypes(t, rep, end, "lock_child", a)
  <2>1. \A r \in Role : a[r] # Nil => IsUsed(a[r])
    BY <1>2, <1>3, <1>4, <1>6, <1>8 DEF Role, ThreadTypes, Is, IsInode
  <2> QED
    BY <1>1, <1>3, <1>6, <1>8, <2>1 DEF MoveTypes
<1>13. ASSUME t \notin torn PROVE Believes(t, tree, rep, end, start)'
  <2>1. root' = root /\ nodes' = nodes /\ key' = key /\ op' = op /\ word' = word
    BY <1>1
  <2>2. PICK d : Is(d, depth'[t])
    BY DEF Is
  <2>3. Is(p, at'[t]["parent"]) /\ Is(n, at'[t]["node"]) /\ Is(c, at'[t]["child"])
    BY <1>8, <1>10 DEF Is
  <2>4. /\ OnLink(t, tree, rep, end)' <=> Linked(tree, rep, end, key[t], p, n)
        /\ PastPrefix(t, tree, rep, end)' <=>
                 n \in tree /\ d = end[n] /\ SameTo(key[t], rep[n], end[n])
        /\ ToChild(t, end)' <=> /\ key[t][end[n] + 1] \in DOMAIN nodes[n].kids
                                /\ nodes[n].kids[key[t][end[n] + 1]] = c
    <3>1. OnLink(t, tree, rep, end)' <=> Linked(tree, rep, end, key[t], p, n)
      BY ONLY <2>1, <2>3 DEF OnLink, Linked, IsInode, IsUsed, Is
    <3>2. PastPrefix(t, tree, rep, end)' <=>
                 n \in tree /\ d = end[n] /\ SameTo(key[t], rep[n], end[n])
      BY ONLY <2>1, <2>2, <2>3 DEF PastPrefix, Is
    <3>3. ToChild(t, end)' <=> /\ key[t][end[n] + 1] \in DOMAIN nodes[n].kids
                               /\ nodes[n].kids[key[t][end[n] + 1]] = c
      BY ONLY <2>1, <2>3 DEF ToChild, Is
    <3> QED
      BY <3>1, <3>2, <3>3
  <2>5. /\ Current(t, "parent")' <=> Current(t, "parent")
        /\ Current(t, "node")' <=> Current(t, "node")
    BY <1>2, <1>8, <1>10, <2>1 DEF Current, Is
  <2>6. ASSUME Current(t, "parent"), Current(t, "node")
        PROVE  PastPrefix(t, tree, rep, end)' /\ OnLink(t, tree, rep, end)' /\ ToChild(t, end)'
    <3>1. OnLink(t, tree, rep, end)
      BY <1>1, <1>13, <2>6, PastNodePrefix
    <3>2. d = end[n]
      BY <1>3, <1>10, <1>13, <2>2, <2>6 DEF Is
    <3> QED
      BY <1>2, <1>3, <1>13, <2>4, <2>6, <3>1, <3>2 DEF Is, OnLink
  <2> QED
    BY <1>10, <2>5, <2>6 DEF Believes, RemovesChild
<1>14. PICK steps : Is(steps, << <<"check", "node">> >>)
  BY DEF Is
<1>15. GoodSteps(steps) /\ OnlyChecks(steps) /\ RolesDiffer(t, steps) /\ Plan(t, steps)
  BY <1>1, <1>14, CheckLists, ListRoles DEF Is
<1> QED
  BY <1>1, <1>6, <1>11, <1>12, <1>13, <1>15, MoveChecks

\* The child is an inode: remove goes on to it.
LEMMA RemoveDownInv ==
    ASSUME NEW tree, NEW rep, NEW end, NEW start, Inv(tree, rep, end, start), NEW t \in Thread,
           remove_or_choose_subtree(t), NodeOf(t, "child").kind = "inode"
    PROVE  Inv(tree, rep, end, start)'
<1>1. /\ pc[t] = "at_child" /\ todo[t] = <<>> /\ Ready(t, "at_child")
      /\ Plan(t, << <<"check", "parent">> >>)
      /\ Descend(t, at[t]["child"], ver[t]["child"]) /\ Goto(t, "at_node")
      /\ UNCHANGED <<treeVars, word, historyVars, opVars, held>> /\ UNCHANGED result
  BY DEF remove_or_choose_subtree, Ready, NodeOf
<1>2. PICK n, c, k, d, cver : /\ Is(n, at[t]["node"]) /\ Is(c, at[t]["child"]) /\ Is(k, key[t])
                              /\ Is(d, depth[t] + 1) /\ Is(cver, ver[t]["child"])
  BY DEF Is
<1>3. LockTypes /\ k \in Key /\ depth[t] \in Nat /\ ThreadTypes(t, rep, end) /\ Versions(t)
  BY <1>1, <1>2, InOperation DEF Is
<1>4. IsUsed(c) /\ end[n] < end[c] /\ op[t] = "remove" /\ IsInode(c)
  BY <1>1, <1>2, <1>3 DEF ThreadTypes, HasChildNode, IsInode, NodeOf, Is
<1>5. c \in Lock /\ cver \in Nat /\ Past(c, cver) /\ c # Nil
  BY <1>2, <1>3, <1>4 DEF LockTypes, Versions, Role, Is, IsUsed, Node, Nil
<1>6. at[t]["parent"] # at[t]["node"] /\ IsInode(n) /\ IsUsed(n) /\ pc[t] \notin Commits \cup {"idle"}
  BY <1>1, <1>2, AtInodeTypes DEF Is
<1>7. PICK a, v : /\ Moves(t, "at_node", a, v, d)
                  /\ a["parent"] = n /\ a["node"] = c /\ a["child"] = Nil
                  /\ v["parent"] = ver[t]["node"] /\ v["node"] = cver
                  /\ at'[t] = a /\ ver'[t] = v /\ pc'[t] = "at_node" /\ depth'[t] = d
  <2>1. Descend(t, c, cver)
    BY <1>1, <1>2 DEF Is
  <2>2. pc[t] # "idle" /\ "at_node" \in {"lock_node", "at_node"}
    BY <1>1
  <2>3. \E a, v : /\ Moves(t, "at_node", a, v, depth[t] + 1)
                  /\ a["parent"] = at[t]["node"] /\ a["node"] = c /\ a["child"] = Nil
                  /\ v["parent"] = ver[t]["node"] /\ v["node"] = cver
                  /\ at'[t] = a /\ ver'[t] = v /\ pc'[t] = "at_node" /\ depth'[t] = depth[t] + 1
    BY <1>1, <1>5, <2>1, <2>2, DescendMoves
  <2> QED
    BY <1>2, <2>3 DEF Is
<1>8. MoveTypes(t, rep, end, "at_node", a)
  <2>1. \A r \in Role : a[r] # Nil => IsUsed(a[r])
    BY <1>4, <1>6, <1>7 DEF Role
  <2> QED
    BY <1>4, <1>6, <1>7, <2>1 DEF MoveTypes, IsInode, IsLeaf
<1>9. ASSUME t \notin torn, Current(t, "parent") PROVE Believes(t, tree, rep, end, start)'
  <2>1. root' = root /\ nodes' = nodes /\ key' = key /\ op' = op /\ word' = word
    BY <1>1 DEF treeVars, opVars
  <2>2. Is(n, at'[t]["parent"]) /\ Is(c, at'[t]["node"]) /\ Is(d, depth'[t])
    BY <1>7 DEF Is
  <2>3. PICK x : Is(x, at'[t]["child"])
    BY DEF Is
  <2>4. OnLink(t, tree, rep, end)' <=> Linked(tree, rep, end, key[t], n, c)
    BY <2>1, <2>2, <2>3, MoveBeliefs
  <2>5. ParentOK(t)' => Current(t, "node")
    BY <1>2, <1>4, <1>7, <2>1 DEF ParentOK, Current, Is
  <2>6. ASSUME Current(t, "node")
        PROVE  OnPath(t, tree, rep, start)' /\ OnLink(t, tree, rep, end)'
    <3>1. /\ n \in tree /\ c \in tree /\ start[c] = end[n] + 1 /\ SameTo(k, rep[c], start[c])
          /\ IsInode(n) /\ SameTo(k, rep[n], end[n]) /\ depth[t] = end[n]
          /\ k[end[n] + 1] \in DOMAIN nodes[n].kids /\ nodes[n].kids[k[end[n] + 1]] = c
      BY <1>1, <1>2, <1>9, <2>6, AtChildMeans DEF Is
    <3>2. n # Nil
      BY <1>6 DEF IsUsed, Node, Nil
    <3>3. Linked(tree, rep, end, k, n, c)
      BY <3>1, <3>2 DEF Linked
    <3>4. d = start[c]
      BY <1>2, <3>1 DEF Is
    <3>5. OnPath(t, tree, rep, start)'
      BY <1>2, <2>1, <2>2, <3>1, <3>4 DEF OnPath, Is
    <3> QED
      BY <1>2, <2>4, <3>3, <3>5 DEF Is
  <2> QED
    BY <1>7, <2>5, <2>6 DEF Believes, RemovesChild
<1>10. PICK steps : Is(steps, << <<"check", "parent">> >>)
  BY DEF Is
<1>11. GoodSteps(steps) /\ OnlyChecks(steps) /\ RolesDiffer(t, steps) /\ Plan(t, steps)
  BY <1>1, <1>10, CheckLists, ListRoles DEF Is
<1>12. (\A i \in DOMAIN steps : Current(t, steps[i][2])) => Current(t, "parent")
  BY <1>10 DEF Is
<1>13. t \notin torn /\ (\A i \in DOMAIN steps : Current(t, steps[i][2])) =>
          Believes(t, tree, rep, end, start)'
  BY <1>9, <1>12
<1> QED
  BY <1>1, <1>4, <1>6, <1>7, <1>8, <1>11, <1>13, MoveChecks

\* All steps that read the tree.
LEMMA ReadingInv ==
    ASSUME NEW tree, NEW rep, NEW end, NEW start, Inv(tree, rep, end, start), NEW t \in Thread,
           Reading(t)
    PROVE  Inv(tree, rep, end, start)'
<1>1. CASE insert_leaf(t)
  BY <1>1, InsertFoundInv, SplitLeafPlanInv
<1>2. CASE remove_root_leaf(t)
  BY <1>2, RemoveOtherRootInv, RemoveRootPlanInv
<1>3. CASE get_child(t)
  BY <1>3, DownInv, NoChildReturnsInv
<1>4. CASE add_or_choose_subtree(t)
  BY <1>4, DownInv, AddPlanInv
<1>5. CASE remove_find_child(t)
  BY <1>5, FindChildInv, NoChildReturnsInv
<1>6. CASE remove_or_choose_subtree(t)
  BY <1>6, RemoveDownInv, OtherChildInv, RemovePlanInv
<1> QED
  BY <1>1, <1>2, <1>3, <1>4, <1>5, <1>6, LoadRootInv, EmptyTreeInv, InsertRootPlanInv, GetLeafInv,
     MatchPrefixInv, PrefixReturnsInv, SplitPrefixPlanInv, LeavesInv DEF Reading

(***************************************************************************)
(* Write sections.                                                         *)
(***************************************************************************)
\* A write section begins with what the map says.
LEMMA CommitMeans ==
    ASSUME NEW tree, NEW rep, NEW end, NEW start, Inv(tree, rep, end, start),
           NEW t \in Thread, pc[t] \in Commits, todo[t] = <<>>
    PROVE  result[t] = map[key[t]]
<1>1. Believes(t, tree, rep, end, start) /\ key[t] \in Key
  BY AtCommit
<1>2. TreeFits(tree, rep, end, start) /\ ThreadTypes(t, rep, end)
  BY DEF Inv
<1>3. /\ LabelsFit(rep, end) /\ MapFits(tree) /\ tree \subseteq Node
      /\ Shape(tree, rep, end, start) /\ Paths(root, kidsOf, tree, rep, end, start)
      /\ KeyLen \in Nat
  BY <1>2, Standing
<1>4. PICK n, c, k : n = at[t]["node"] /\ c = at[t]["child"] /\ k = key[t]
  OBVIOUS
<1>5. k \in Key
  BY <1>1, <1>4
<1>6. CASE pc[t] = "insert_root"
  <2>1. root = Nil /\ result[t] = Nil
    BY <1>1, <1>2, <1>6 DEF Believes, ThreadTypes, Inserts
  <2>2. tree = {}
    BY <1>3, <2>1 DEF Paths
  <2>3. map[k] = Nil
    BY <1>2, <1>5, <2>2, NotBound
  <2> QED
    BY <1>4, <2>1, <2>3
<1>7. CASE pc[t] = "split_leaf"
  <2>1. n \in tree /\ SameTo(k, rep[n], start[n])
    BY <1>1, <1>4, <1>7 DEF Believes, OnPath
  <2>2. IsLeaf(n) /\ nodes[n].key # k /\ result[t] = Nil
    BY <1>2, <1>4, <1>7 DEF ThreadTypes, Inserts
  <2>3. map[k] = Nil
    BY <1>2, <1>5, <2>1, <2>2, LeafAnswers
  <2> QED
    BY <1>4, <2>2, <2>3
<1>8. CASE pc[t] = "split_prefix"
  <2>1. n \in tree /\ SameTo(k, rep[n], start[n]) /\ ~SameTo(k, rep[n], end[n])
    BY <1>1, <1>4, <1>8 DEF Believes, OnPath
  <2>2. result[t] = Nil
    BY <1>2, <1>4, <1>8 DEF ThreadTypes, Inserts
  <2>3. k \in Bytes
    BY <1>5, KeyBytes
  <2>4. \A m \in tree : end[m] = KeyLen => rep[m] # k
    BY <1>3, <2>1, <2>3, OtherLabelNoLeaf
  <2>5. map[k] = Nil
    BY <1>2, <1>5, <2>4, NotBound
  <2> QED
    BY <1>4, <2>2, <2>5
<1>9. CASE pc[t] \in {"add_to_nonfull", "grow"}
  <2>1. n \in tree /\ SameTo(k, rep[n], end[n]) /\ k[end[n] + 1] \notin DOMAIN nodes[n].kids
    BY <1>1, <1>4, <1>9 DEF Believes, PastPrefix
  <2>2. result[t] = Nil /\ IsInode(n)
    BY <1>2, <1>4, <1>9 DEF ThreadTypes, Inserts, HasInode
  <2>3. map[k] = Nil
    BY <1>2, <1>5, <2>1, <2>2, ChildAnswers
  <2> QED
    BY <1>4, <2>2, <2>3
<1>10. CASE pc[t] = "remove_root"
  <2>1. root = n
    BY <1>1, <1>4, <1>10 DEF Believes
  <2>2. IsLeaf(n) /\ nodes[n].key = k /\ result[t] = n
    BY <1>2, <1>4, <1>10 DEF ThreadTypes
  <2>3. n \in tree
    BY <1>3, <2>1, <2>2 DEF Paths, IsLeaf, IsUsed, Node, Nil
  <2> QED
    BY <1>3, <1>4, <2>2, <2>3 DEF MapFits
<1>11. CASE pc[t] \in RemovesChild
  <2>1. /\ n \in tree /\ SameTo(k, rep[n], end[n])
        /\ k[end[n] + 1] \in DOMAIN nodes[n].kids /\ nodes[n].kids[k[end[n] + 1]] = c
    BY <1>1, <1>4, <1>11 DEF Believes, PastPrefix, ToChild
  <2>2. IsLeaf(c) /\ nodes[c].key = k /\ result[t] = c /\ IsInode(n)
    BY <1>2, <1>4, <1>11 DEF ThreadTypes, HasInode, RemovesChild
  <2>3. c \in tree
    <3>1. \A b, d : b = k[end[n] + 1] /\ b \in DOMAIN nodes[n].kids /\ d = nodes[n].kids[b]
                    => d \in tree
      BY <1>2, <1>5, <2>1, <2>2, ChildAnswers
    <3> QED
      BY <2>1, <3>1
  <2> QED
    BY <1>3, <1>4, <2>2, <2>3 DEF MapFits
<1> QED
  BY <1>6, <1>7, <1>8, <1>9, <1>10, <1>11 DEF Commits, RemovesChild

\* What all write sections have in common.
Written(t, leaf) ==
    /\ pc[t] \in Commits /\ todo[t] = <<>>
    /\ WriteSection(t, pc[t])
    /\ Rebind(key[t], leaf)
    /\ \A u \in torn' : u \in torn \/ \E s : AboutToRead(u, s)

\* A write step, from the write section it is.
LEMMA WritingIs ==
    ASSUME NEW t \in Thread, Writing(t)
    PROVE  \E leaf : Written(t, leaf)
<1>1. ASSUME insert_root(t) PROVE Written(t, fresh(1))
  BY <1>1 DEF insert_root, Written, WriteSection, Ready, Bind, Commits
<1>2. ASSUME split_leaf(t) PROVE Written(t, fresh(1))
  BY <1>2 DEF split_leaf, Written, WriteSection, Ready, Bind, Commits
<1>3. ASSUME split_prefix(t) PROVE Written(t, fresh(1))
  BY <1>3 DEF split_prefix, Written, WriteSection, Ready, Bind, Commits
<1>4. ASSUME add_to_nonfull(t) PROVE Written(t, fresh(1))
  BY <1>4 DEF add_to_nonfull, Written, WriteSection, Ready, Bind, Commits
<1>5. ASSUME grow(t) PROVE Written(t, fresh(1))
  BY <1>5 DEF grow, Written, WriteSection, Ready, Bind, Commits
<1>6. ASSUME remove_root(t) PROVE Written(t, Nil)
  BY <1>6 DEF remove_root, Written, WriteSection, Ready, Bind, Commits
<1>7. ASSUME remove_child(t) PROVE Written(t, Nil)
  BY <1>7 DEF remove_child, Written, WriteSection, Ready, Bind, Commits
<1>8. ASSUME leave_last_child(t) PROVE Written(t, Nil)
  <2>1. pc[t] = "leave_last_child" /\ WriteSection(t, "leave_last_child") /\ Rebind(key[t], Nil)
        /\ todo[t] = <<>>
    BY <1>8 DEF leave_last_child, WriteSection, Ready
  <2>2. \A u \in torn' : u \in torn \/ \E s : AboutToRead(u, s)
    BY <1>8 DEF leave_last_child
  <2> QED
    BY <2>1, <2>2 DEF Written, Commits
<1>9. ASSUME shrink(t) PROVE Written(t, Nil)
  BY <1>9 DEF shrink, Written, WriteSection, Ready, Bind, Commits
<1> QED
  BY <1>1, <1>2, <1>3, <1>4, <1>5, <1>6, <1>7, <1>8, <1>9 DEF Writing

\* Retired nodes leave the tree; new nodes were never locked.
LEMMA RetiredFitsAfter ==
    ASSUME NEW tree, NEW rep, NEW end, NEW start, Inv(tree, rep, end, start),
           NEW t \in Thread, Others(t), word' = word,
           NEW tree2, NEW rep2, NEW end2, NEW start2, TreeFits(tree2, rep2, end2, start2)',
           Effect(t, tree, rep, end, start, tree2, rep2, end2, start2)
    PROVE  RetiredFits(tree2)'
<1>1. LockInv /\ RetiredFits(tree) /\ tree \subseteq Node /\ tree2 \subseteq Node
  BY DEF Inv, TreeFits, TreeTypes
<1>2. \A l \in Node :
          l \in tree2 <=> (l \in tree /\ ~Retired(t, l)) \/ (IsUsed(l)' /\ ~IsUsed(l))
  BY DEF Effect
<1>3. \A l \in Node : IsUsed(l) => IsUsed(l)'
  BY DEF Effect
<1>4. \A l \in Node : Retired(t, l) => is_obsolete(word[l])
  <2> SUFFICES ASSUME NEW l \in Node, Retired(t, l) PROVE is_obsolete(word[l])
    OBVIOUS
  <2>1. l \in Lock /\ Mine(t, l)
    BY BoundAssumption DEF Node, Lock, Mine
  <2> QED
    BY <1>1, <2>1, MineNotFree
<1>5. \A n \in Node : IsUsed(n)' /\ n \notin tree2 => is_obsolete(word'[n])
  BY <1>1, <1>2, <1>4 DEF RetiredFits
<1>6. ASSUME NEW n \in tree2, is_obsolete(word'[n])
      PROVE  \E u \in Thread : Retired(u, n)'
  <2>1. n \in Node /\ is_obsolete(word[n])
    BY <1>1, <1>6
  <2>2. word[n] # 0
    BY <2>1 DEF is_obsolete, obsolete_lock_word
  <2>3. IsUsed(n)
    BY <1>1, <2>1, <2>2 DEF RetiredFits
  <2>4. n \in tree /\ ~Retired(t, n)
    BY <1>2, <1>6, <2>1, <2>3
  <2>5. PICK u \in Thread : Retired(u, n)
    BY <1>1, <2>1, <2>4 DEF RetiredFits
  <2>6. u # t
    BY <2>4, <2>5
  <2> QED
    BY <2>5, <2>6, OthersLocks
<1>7. \A n \in Node : ~IsUsed(n)' => word'[n] = 0
  BY <1>1, <1>3 DEF RetiredFits
<1> QED
  BY <1>5, <1>6, <1>7 DEF RetiredFits

\* What the history records.
LEMMA WrittenSeen ==
    ASSUME NEW t \in Thread, NEW leaf, Written(t, leaf), map \in [Key -> Lock],
           NEW u \in Thread
    PROVE  /\ seen[u] \subseteq seen'[u]
           /\ key[u] \in Key /\ map[key[u]] \in seen[u] => map'[key[u]] \in seen'[u]
<1>1. /\ map' = [map EXCEPT ![key[t]] = leaf]
      /\ seen' = [v \in Thread |-> IF key[v] = key[t] THEN seen[v] \cup {leaf} ELSE seen[v]]
  BY DEF Written, Rebind
<1>2. CASE key[u] = key[t]
  BY <1>1, <1>2
<1>3. CASE key[u] # key[t]
  BY <1>1, <1>3
<1> QED
  BY <1>2, <1>3

\* Nodes keep what a thread may know of them without a lock.
LEMMA EffectKeeps ==
    ASSUME NEW t, NEW tree, NEW rep, NEW end, NEW start, NEW tree2, NEW rep2, NEW end2, NEW start2,
           Effect(t, tree, rep, end, start, tree2, rep2, end2, start2), NEW l
    PROVE  /\ IsUsed(l) => IsUsed(l)' /\ rep2[l] = rep[l] /\ end2[l] = end[l]
           /\ IsLeaf(l) => IsLeaf(l)' /\ nodes'[l] = nodes[l]
           /\ IsInode(l) => IsInode(l)' /\ nodes'[l].class = nodes[l].class
           /\ IsInode(l) /\ ~Mine(t, l) => nodes'[l].kids = nodes[l].kids
           /\ IsUsed(l) /\ IsLeaf(l)' => IsLeaf(l)
           /\ IsUsed(l) /\ IsInode(l)' => IsInode(l)
<1>1. IsUsed(l) => l \in Node
  BY DEF IsUsed
<1>2. CASE ~IsUsed(l)
  BY <1>2 DEF IsLeaf, IsInode
<1>3. CASE IsUsed(l)
  <2>1. /\ IsUsed(l)'
        /\ rep2[l] = rep[l] /\ end2[l] = end[l]
        /\ nodes'[l].kind = nodes[l].kind
        /\ IsLeaf(l) => nodes'[l] = nodes[l]
        /\ IsInode(l) => nodes'[l].class = nodes[l].class
        /\ IsInode(l) /\ ~Mine(t, l) => nodes'[l].kids = nodes[l].kids
    BY <1>1, <1>3 DEF Effect
  <2> QED
    BY <1>3, <2>1 DEF IsLeaf, IsInode
<1> QED
  BY <1>2, <1>3

\* What another thread has in hand keeps its type.
LEMMA OthersTypesAfter ==
    ASSUME NEW tree, NEW rep, NEW end, NEW start, Inv(tree, rep, end, start),
           NEW t \in Thread, Others(t), NEW leaf, Written(t, leaf),
           NEW tree2, NEW rep2, NEW end2, NEW start2,
           Effect(t, tree, rep, end, start, tree2, rep2, end2, start2),
           NEW u \in Thread, u # t
    PROVE  ThreadTypes(u, rep2, end2)'
<1>0. ThreadTypes(u, rep, end) /\ map \in [Key -> Lock]
  BY DEF Inv, TreeFits, TreeTypes
<1>1. /\ pc'[u] = pc[u] /\ op'[u] = op[u] /\ key'[u] = key[u] /\ depth'[u] = depth[u]
      /\ at'[u] = at[u] /\ ver'[u] = ver[u] /\ todo'[u] = todo[u] /\ held'[u] = held[u]
      /\ result'[u] = result[u]
  BY DEF Others
<1>2. PICK p, n, c : p = at[u]["parent"] /\ n = at[u]["node"] /\ c = at[u]["child"]
  OBVIOUS
<1>3. p = at'[u]["parent"] /\ n = at'[u]["node"] /\ c = at'[u]["child"]
  BY <1>1, <1>2
<1>4. \A r \in Role : at'[u][r] # Nil => IsUsed(at[u][r])'
  <2> SUFFICES ASSUME NEW r \in Role, at[u][r] # Nil PROVE IsUsed(at[u][r])'
    BY <1>1
  <2>1. PICK l : l = at[u][r]
    OBVIOUS
  <2>2. IsUsed(l)
    BY <1>0, <2>1 DEF ThreadTypes
  <2>3. IsUsed(l)'
    BY <2>2, EffectKeeps
  <2>4. l = at'[u][r]
    BY <1>1, <2>1
  <2> QED
    BY <2>3, <2>4 DEF IsUsed
<1>5. \A i \in DOMAIN todo'[u] : todo'[u][i].on # Nil => IsUsed(todo[u][i].on)'
  <2> SUFFICES ASSUME NEW i \in DOMAIN todo[u], todo[u][i].on # Nil PROVE IsUsed(todo[u][i].on)'
    BY <1>1
  <2>1. PICK l : l = todo[u][i].on
    OBVIOUS
  <2>2. IsUsed(l)
    BY <1>0, <2>1 DEF ThreadTypes
  <2>3. IsUsed(l)'
    BY <2>2, EffectKeeps
  <2>4. l = todo'[u][i].on
    BY <1>1, <2>1
  <2> QED
    BY <2>3, <2>4 DEF IsUsed
<1>6. \A i \in DOMAIN held'[u] : held'[u][i] # Nil => IsUsed(held[u][i])'
  <2> SUFFICES ASSUME NEW i \in DOMAIN held[u], held[u][i] # Nil PROVE IsUsed(held[u][i])'
    BY <1>1
  <2>1. PICK l : l = held[u][i]
    OBVIOUS
  <2>2. IsUsed(l)
    BY <1>0, <2>1 DEF ThreadTypes
  <2>3. IsUsed(l)'
    BY <2>2, EffectKeeps
  <2>4. l = held'[u][i]
    BY <1>1, <2>1
  <2> QED
    BY <2>3, <2>4 DEF IsUsed
<1>7. pc[u] # "idle" => key[u] \in Key /\ op[u] # "none" /\ map'[key[u]] \in seen'[u]
  BY <1>0, WrittenSeen DEF ThreadTypes
<1>8. /\ IsUsed(n) => IsUsed(n)' /\ end2[n] = end[n]
      /\ IsInode(n) => IsInode(n)'
      /\ IsLeaf(n) => IsLeaf(n)' /\ nodes'[n] = nodes[n]
      /\ IsUsed(n) /\ IsLeaf(n)' => IsLeaf(n)
  BY EffectKeeps
<1>9. IsInode(p) => IsInode(p)' /\ end2[p] = end[p]
  BY EffectKeeps DEF IsInode
<1>10. /\ IsUsed(c) => IsUsed(c)' /\ end2[c] = end[c]
       /\ IsLeaf(c) => IsLeaf(c)' /\ nodes'[c] = nodes[c]
  BY EffectKeeps
<1>11. u \in torn' => op[u] = "get" /\ pc[u] # "idle"
  <2>1. CASE u \in torn
    BY <1>0, <2>1 DEF ThreadTypes
  <2>2. CASE u \notin torn
    <3>1. ASSUME u \in torn' PROVE op[u] \notin {"insert", "remove"} /\ pc[u] = "at_node"
      BY <2>2, <3>1 DEF Written, AboutToRead, Ready
    <3>2. pc[u] = "at_node" => op[u] # "none"
      BY <1>0 DEF ThreadTypes
    <3>3. op[u] \in {"none", "get", "insert", "remove"}
      BY DEF Inv, LockInv, LockTypes
    <3> QED
      BY <3>1, <3>2, <3>3
  <2> QED
    BY <2>1, <2>2
<1>12. Nil \in seen[u] => Nil \in seen'[u]
  BY <1>0, WrittenSeen
<1>13. /\ pc[u] \in HasNode => /\ IsUsed(n)' /\ (p # Nil => IsInode(p)' /\ end2[p] < end2[n])
       /\ pc[u] \in HasInode => IsInode(n)'
       /\ pc[u] \in HasChildNode => IsUsed(c)' /\ end2[n] < end2[c]
       /\ pc[u] \in RemovesChild => IsLeaf(c)' /\ nodes'[c].key = key[u] /\ result[u] = c
       /\ pc[u] \in {"split_leaf", "remove_root"} => IsLeaf(n)'
       /\ pc[u] = "insert_root" => p = Nil
       /\ pc[u] = "remove_root" => p = Nil /\ nodes'[n].key = key[u] /\ result[u] = n
       /\ pc[u] = "split_leaf" => nodes'[n].key # key[u]
       /\ op[u] = "remove" /\ pc[u] = "lock_node" => p = Nil
       /\ op[u] = "remove" /\ pc[u] = "at_node" => p = Nil \/ IsInode(n)'
  <2>1. /\ pc[u] \in HasNode => /\ IsUsed(n) /\ (p # Nil => IsInode(p) /\ end[p] < end[n])
        /\ pc[u] \in HasInode => IsInode(n)
        /\ pc[u] \in HasChildNode => IsUsed(c) /\ end[n] < end[c]
        /\ pc[u] \in RemovesChild => IsLeaf(c) /\ nodes[c].key = key[u] /\ result[u] = c
        /\ pc[u] \in {"split_leaf", "remove_root"} => IsLeaf(n)
        /\ pc[u] = "insert_root" => p = Nil
        /\ pc[u] = "remove_root" => p = Nil /\ nodes[n].key = key[u] /\ result[u] = n
        /\ pc[u] = "split_leaf" => nodes[n].key # key[u]
        /\ op[u] = "remove" /\ pc[u] = "lock_node" => p = Nil
        /\ op[u] = "remove" /\ pc[u] = "at_node" => p = Nil \/ IsInode(n)
    BY <1>0, <1>2 DEF ThreadTypes
  <2>2. pc[u] \in HasChildNode => IsUsed(n)
    BY <2>1 DEF HasChildNode, HasInode, IsInode
  <2> QED
    BY <1>8, <1>9, <1>10, <2>1, <2>2
<1>14. /\ op[u] = "remove" /\ pc[u] \in {"lock_node", "at_node"}
       /\ IsLeaf(n)' /\ nodes'[n].key # key[u]
       => Nil \in seen'[u]
  <2>1. pc[u] \in {"lock_node", "at_node"} => IsUsed(n)
    BY <1>0, <1>2 DEF ThreadTypes, HasNode
  <2>2. /\ op[u] = "remove" /\ pc[u] \in {"lock_node", "at_node"}
        /\ IsLeaf(n) /\ nodes[n].key # key[u]
        => Nil \in seen[u]
    BY <1>0, <1>2 DEF ThreadTypes
  <2> QED
    BY <1>8, <1>12, <2>1, <2>2
<1>15. /\ depth[u] \in Nat /\ result[u] \in Lock
       /\ pc[u] \in Inserts => op[u] = "insert" /\ result[u] = Nil
       /\ pc[u] \in {"lock_child", "at_child"} => op[u] = "remove"
       /\ pc[u] \in {"idle", "root_lock", "load_root"} => depth[u] = 0
       /\ pc[u] \in RemovesChild \cup {"remove_root"} => op[u] = "remove"
  BY <1>0 DEF ThreadTypes
<1>16. /\ IsUsed(at[u]["node"])' <=> IsUsed(n)'
       /\ IsInode(at[u]["node"])' <=> IsInode(n)'
       /\ IsLeaf(at[u]["node"])' <=> IsLeaf(n)'
       /\ IsInode(at[u]["parent"])' <=> IsInode(p)'
       /\ IsUsed(at[u]["child"])' <=> IsUsed(c)'
       /\ IsLeaf(at[u]["child"])' <=> IsLeaf(c)'
  BY <1>3 DEF IsUsed, IsInode, IsLeaf
<1> QED
  BY <1>1, <1>3, <1>4, <1>5, <1>6, <1>7, <1>11, <1>13, <1>14, <1>15, <1>16 DEF ThreadTypes

\* The writer has done what it meant to do.
LEMMA WriterAfter ==
    ASSUME NEW tree, NEW rep, NEW end, NEW start, Inv(tree, rep, end, start),
           NEW t \in Thread, NEW leaf, Written(t, leaf),
           NEW tree2, NEW rep2, NEW end2, NEW start2,
           Effect(t, tree, rep, end, start, tree2, rep2, end2, start2)
    PROVE  ThreadTypes(t, rep2, end2)' /\ Knows(t, tree2, rep2, end2, start2)'
<1>0. ThreadTypes(t, rep, end) /\ map \in [Key -> Lock] /\ LockTypes
  BY DEF Inv, TreeFits, TreeTypes, LockInv
<1>1. /\ pc[t] \in Commits /\ todo[t] = <<>>
      /\ todo' = [todo EXCEPT ![t] = Unlocks(held[t])]
      /\ held' = [held EXCEPT ![t] = <<>>]
      /\ pc' = [pc EXCEPT ![t] = "return"]
      /\ UNCHANGED <<word, at, ver, depth, result, op, key>>
  BY DEF Written, WriteSection, Goto, opVars, rcsVars
<1>2. /\ todo'[t] = Unlocks(held[t]) /\ held'[t] = <<>> /\ pc'[t] = "return"
      /\ held[t] \in Seq(Lock)
  BY <1>0, <1>1 DEF LockTypes
<1>3. \A r \in Role : at'[t][r] # Nil => IsUsed(at[t][r])'
  <2> SUFFICES ASSUME NEW r \in Role, at[t][r] # Nil PROVE IsUsed(at[t][r])'
    BY <1>1
  <2>1. PICK l : l = at[t][r]
    OBVIOUS
  <2>2. IsUsed(l)
    BY <1>0, <2>1 DEF ThreadTypes
  <2>3. IsUsed(l)'
    BY <2>2, EffectKeeps
  <2>4. l = at'[t][r]
    BY <1>1, <2>1
  <2> QED
    BY <2>3, <2>4 DEF IsUsed
<1>4. \A i \in DOMAIN todo'[t] : todo'[t][i].on # Nil => IsUsed(todo[t][i].on)'
  <2>1. PICK h : h = held[t]
    OBVIOUS
  <2>2. h \in Seq(Lock) /\ todo'[t] = Unlocks(h)
    BY <1>2, <2>1
  <2> SUFFICES ASSUME NEW i \in DOMAIN todo'[t], todo'[t][i].on # Nil PROVE IsUsed(todo[t][i].on)'
    OBVIOUS
  <2>3. i \in DOMAIN h /\ todo'[t][i].on = h[Len(h) + 1 - i]
    BY <2>2 DEF Unlocks
  <2>4. Len(h) + 1 - i \in DOMAIN h
    BY <2>2, <2>3
  <2>5. PICK l : l = h[Len(h) + 1 - i]
    OBVIOUS
  <2>6. IsUsed(l)
    BY <1>0, <2>1, <2>3, <2>4, <2>5 DEF ThreadTypes
  <2>7. IsUsed(l)'
    BY <2>6, EffectKeeps
  <2>8. l = todo'[t][i].on
    BY <2>3, <2>5
  <2> QED
    BY <2>7, <2>8 DEF IsUsed
<1>5. \A i \in DOMAIN held'[t] : held'[t][i] # Nil => IsUsed(held[t][i])'
  BY <1>2
<1>6. key[t] \in Key /\ op[t] # "none" /\ map'[key[t]] \in seen'[t]
  BY <1>0, <1>1, WrittenSeen DEF ThreadTypes, Commits
<1>7. t \notin torn'
  <2>1. t \notin torn
    BY <1>1, AtCommit
  <2>2. \A s : ~AboutToRead(t, s)
    BY <1>1 DEF AboutToRead, Ready, Commits
  <2> QED
    BY <2>1, <2>2 DEF Written
<1>8. result[t] \in seen'[t]
  <2>1. result[t] = map[key[t]]
    BY <1>1, CommitMeans
  <2>2. map[key[t]] \in seen[t]
    BY <1>0, <1>1 DEF ThreadTypes, Commits
  <2> QED
    BY <1>0, <2>1, <2>2, WrittenSeen
<1>9. ThreadTypes(t, rep2, end2)'
  <2>1. depth'[t] \in Nat /\ result'[t] \in Lock
    BY <1>0, <1>1 DEF ThreadTypes
  <2>2. key'[t] \in Key /\ op'[t] # "none" /\ map'[key'[t]] \in seen'[t]
    BY <1>1, <1>6
  <2> QED
    BY <1>2, <1>3, <1>4, <1>5, <1>7, <2>1, <2>2
       DEF ThreadTypes, HasNode, HasInode, HasChildNode, RemovesChild, Inserts, Commits
<1>10. Believes(t, tree2, rep2, end2, start2)'
  BY <1>1, <1>2, <1>8 DEF Believes, RemovesChild
<1> QED
  BY <1>9, <1>10 DEF Knows

\* The lock of an RCS that is current, and those of a thread about to commit, are not
\* another thread's.
LEMMA CurrentNotMine ==
    ASSUME LockInv, NEW t \in Thread, NEW u \in Thread, u # t, NEW r \in Role, Current(u, r)
    PROVE  ~Mine(t, at[u][r])
<1>1. PICK l : l = at[u][r]
  OBVIOUS
<1>2. l \in Lock /\ Past(l, ver[u][r])
  BY <1>1 DEF LockInv, LockTypes, Versions
<1>3. word[l] % 4 = 0
  BY <1>1, <1>2 DEF Past, Current
<1>4. ~Mine(t, l)
  BY <1>2, <1>3, MineNotFree
<1> QED
  BY <1>1, <1>4

\* What a thread with a valid list is to take, or has taken, no other thread may change.
LEMMA GuardedNotMine ==
    ASSUME LockInv, NEW t \in Thread, NEW u \in Thread, u # t, pc[u] \in Commits, Valid(u),
           NEW r \in Role, Guards(pc[u], r)
    PROVE  ~Mine(t, at[u][r])
<1>1. PICK l : l = at[u][r]
  OBVIOUS
<1>2. l \in Lock /\ Guarding(u) /\ Versions(u) /\ Ownership
  BY <1>1 DEF LockInv, LockTypes
<1>3. ToDo(u, "upgrade", l) \/ Mine(u, l)
  BY <1>1, <1>2 DEF Guarding, Mine, Owns
<1>4. CASE Mine(u, l)
  BY <1>1, <1>2, <1>4 DEF Ownership
<1>5. CASE ToDo(u, "upgrade", l)
  <2>1. PICK i \in DOMAIN todo[u] : todo[u][i].do = "upgrade" /\ todo[u][i].on = l
    BY <1>5 DEF ToDo
  <2>2. word[l] = todo[u][i].ver
    BY <2>1 DEF Valid
  <2>3. Past(l, todo[u][i].ver)
    BY <1>2, <2>1 DEF Versions
  <2>4. word[l] % 4 = 0
    BY <2>2, <2>3 DEF Past
  <2>5. ~Mine(t, l)
    BY <1>2, <2>4, MineNotFree
  <2> QED
    BY <1>1, <2>5
<1> QED
  BY <1>3, <1>4, <1>5

\* Nodes of the tree that the writer has no guard on stay in it.
LEMMA EffectStays ==
    ASSUME NEW t, NEW tree, NEW rep, NEW end, NEW start, NEW tree2, NEW rep2, NEW end2, NEW start2,
           tree \subseteq Node,
           Effect(t, tree, rep, end, start, tree2, rep2, end2, start2), NEW l \in tree, ~Mine(t, l)
    PROVE  l \in tree2
  BY DEF Effect, Mine

\* A pointer that the writer has no guard on still points where it did.
LEMMA LinkStays ==
    ASSUME NEW t, NEW tree, NEW rep, NEW end, NEW start, NEW tree2, NEW rep2, NEW end2, NEW start2,
           TreeFits(tree, rep, end, start),
           Effect(t, tree, rep, end, start, tree2, rep2, end2, start2),
           NEW p, NEW n, NEW k, Linked(tree, rep, end, k, p, n), ~Mine(t, p)
    PROVE  /\ p = Nil => root = n /\ root' = n
           /\ p # Nil => /\ p \in tree /\ p \in tree2 /\ IsInode(p) /\ IsInode(p)'
                         /\ SameTo(k, rep[p], end[p]) /\ rep2[p] = rep[p] /\ end2[p] = end[p]
                         /\ k[end[p] + 1] \in DOMAIN nodes[p].kids
                         /\ nodes[p].kids[k[end[p] + 1]] = n
                         /\ nodes'[p].kids = nodes[p].kids
<1>1. tree \subseteq Node
  BY Standing
<1>2. CASE p = Nil
  BY <1>2 DEF Effect, Linked
<1>3. CASE p # Nil
  <2>1. /\ p \in tree /\ IsInode(p) /\ SameTo(k, rep[p], end[p])
        /\ k[end[p] + 1] \in DOMAIN nodes[p].kids
        /\ nodes[p].kids[k[end[p] + 1]] = n
    BY <1>3 DEF Linked
  <2>2. p \in tree2
    BY <1>1, <2>1, EffectStays
  <2>3. IsUsed(p) => rep2[p] = rep[p] /\ end2[p] = end[p]
    BY EffectKeeps
  <2>4. IsInode(p)' /\ nodes'[p].kids = nodes[p].kids
    BY <2>1, EffectKeeps
  <2> QED
    BY <1>3, <2>1, <2>2, <2>3, <2>4 DEF IsInode
<1> QED
  BY <1>2, <1>3

\* Where a node begins follows from what points to it.
LEMMA LinkStarts ==
    ASSUME NEW tree, NEW rep, NEW end, NEW start, TreeFits(tree, rep, end, start), NEW n, n # Nil,
           NEW p, NEW k, Linked(tree, rep, end, k, p, n)
    PROVE  /\ n \in tree
           /\ p = Nil => start[n] = 0
           /\ p # Nil => start[n] = end[p] + 1
<1>1. Paths(root, kidsOf, tree, rep, end, start)
  BY Standing
<1>2. CASE p = Nil
  BY <1>1, <1>2 DEF Linked, Paths
<1>3. CASE p # Nil
  <2>1. /\ p \in tree /\ IsInode(p)
        /\ k[end[p] + 1] \in DOMAIN nodes[p].kids
        /\ nodes[p].kids[k[end[p] + 1]] = n
    BY <1>3 DEF Linked
  <2>2. kidsOf[p] = nodes[p].kids
    BY <2>1, Standing
  <2> QED
    BY <1>1, <1>3, <2>1, <2>2 DEF Paths
<1> QED
  BY <1>2, <1>3

\* So a thread that relies on the pointer to its node is still where its key leads.
LEMMA LinkAfter ==
    ASSUME NEW t, NEW tree, NEW rep, NEW end, NEW start, NEW tree2, NEW rep2, NEW end2, NEW start2,
           TreeFits(tree, rep, end, start), TreeFits(tree2, rep2, end2, start2)',
           Effect(t, tree, rep, end, start, tree2, rep2, end2, start2),
           NEW u, at'[u] = at[u], key'[u] = key[u], OnLink(u, tree, rep, end),
           ~Mine(t, at[u]["parent"])
    PROVE  /\ OnLink(u, tree2, rep2, end2)'
           /\ at[u]["node"] # Nil =>
                 at[u]["node"] \in tree2 /\ start2[at[u]["node"]] = start[at[u]["node"]]
<1>1. PICK p, n, k : Is(p, at[u]["parent"]) /\ Is(n, at[u]["node"]) /\ Is(k, key[u])
  BY DEF Is
<1>2. Linked(tree, rep, end, k, p, n) /\ ~Mine(t, p)
  BY <1>1 DEF OnLink, Is
<1>3. /\ p = Nil => root = n /\ root' = n
      /\ p # Nil => /\ p \in tree /\ p \in tree2 /\ IsInode(p) /\ IsInode(p)'
                    /\ SameTo(k, rep[p], end[p]) /\ rep2[p] = rep[p] /\ end2[p] = end[p]
                    /\ k[end[p] + 1] \in DOMAIN nodes[p].kids
                    /\ nodes[p].kids[k[end[p] + 1]] = n
                    /\ nodes'[p].kids = nodes[p].kids
  BY <1>2, LinkStays
<1>4. Linked(tree2, rep2, end2, k, p, n)'
  BY <1>3 DEF Linked
<1>5. Is(p, at'[u]["parent"]) /\ Is(n, at'[u]["node"]) /\ Is(k, key'[u])
  BY <1>1 DEF Is
<1>6. OnLink(u, tree2, rep2, end2)'
  BY ONLY <1>4, <1>5 DEF OnLink, Linked, Is, IsInode, IsUsed
<1>7. ASSUME n # Nil PROVE n \in tree2 /\ start2[n] = start[n]
  <2>1. /\ p = Nil => start[n] = 0
        /\ p # Nil => start[n] = end[p] + 1
    BY <1>2, <1>7, LinkStarts
  <2>2. /\ n \in tree2
        /\ p = Nil => start2[n] = 0
        /\ p # Nil => start2[n] = end2[p] + 1
    <3>1. Paths(root, kidsOf, tree2, rep2, end2, start2)' /\ (nodes \in [Node -> AnyNode])'
          /\ tree2 \subseteq Node
      BY DEF TreeFits, TreeTypes
    <3>2. CASE p = Nil
      BY <1>3, <1>7, <3>1, <3>2 DEF Paths
    <3>3. CASE p # Nil
      <4>1. p \in tree2 /\ IsInode(p)' /\ p \in Node
        BY <1>3, <3>1, <3>3
      <4>2. kidsOf'[p] = nodes'[p].kids
        BY <4>1 DEF kidsOf, IsInode
      <4>3. k[end2[p] + 1] \in DOMAIN kidsOf'[p] /\ kidsOf'[p][k[end2[p] + 1]] = n
        BY <1>3, <3>3, <4>2
      <4> QED
        BY <3>1, <3>3, <4>1, <4>3 DEF Paths
    <3> QED
      BY <3>2, <3>3
  <2> QED
    BY <1>3, <2>1, <2>2
<1> QED
  BY <1>1, <1>6, <1>7 DEF Is

\* What another thread may still rely on, it may also believe.
LEMMA OthersKnowAfter ==
    ASSUME NEW tree, NEW rep, NEW end, NEW start, Inv(tree, rep, end, start),
           NEW t \in Thread, Others(t), word' = word, NEW leaf, Written(t, leaf),
           NEW tree2, NEW rep2, NEW end2, NEW start2, TreeFits(tree2, rep2, end2, start2)',
           Effect(t, tree, rep, end, start, tree2, rep2, end2, start2),
           NEW u \in Thread, u # t
    PROVE  Knows(u, tree2, rep2, end2, start2)'
<1>0. /\ LockInv /\ TreeFits(tree, rep, end, start) /\ ThreadTypes(u, rep, end)
      /\ Knows(u, tree, rep, end, start) /\ tree \subseteq Node /\ map \in [Key -> Lock]
  BY DEF Inv, TreeFits, TreeTypes
<1>1. /\ pc'[u] = pc[u] /\ op'[u] = op[u] /\ key'[u] = key[u] /\ depth'[u] = depth[u]
      /\ at'[u] = at[u] /\ ver'[u] = ver[u] /\ todo'[u] = todo[u] /\ held'[u] = held[u]
      /\ result'[u] = result[u]
  BY DEF Others
<1>2. SUFFICES ASSUME Valid(u)', u \notin torn'
               PROVE  Believes(u, tree2, rep2, end2, start2)'
  BY DEF Knows
<1>3. Valid(u) /\ u \notin torn
  BY <1>1, <1>2 DEF Valid, Effect
<1>4. Believes(u, tree, rep, end, start)
  BY <1>0, <1>3 DEF Knows
<1>5. /\ \A r \in Role : Current(u, r)' <=> Current(u, r)
      /\ ParentOK(u)' <=> ParentOK(u)
  BY <1>1 DEF Current, ParentOK
<1>6. PICK p, n, c : Is(p, at[u]["parent"]) /\ Is(n, at[u]["node"]) /\ Is(c, at[u]["child"])
  BY DEF Is
<1>7. /\ Current(u, "parent") => ~Mine(t, p)
      /\ Current(u, "node") => ~Mine(t, n)
  BY <1>0, <1>6, CurrentNotMine DEF Role, Is
<1>8. /\ pc[u] \in Commits \ {"add_to_nonfull", "remove_child"} => ~Mine(t, p)
      /\ pc[u] \in Commits \ {"insert_root"} => ~Mine(t, n)
  <2>1. \A r \in Role : pc[u] \in Commits /\ Guards(pc[u], r) => ~Mine(t, at[u][r])
    BY <1>0, <1>3, GuardedNotMine
  <2> QED
    BY <1>6, <2>1 DEF Guards, Role, Is
<1>9. /\ IsUsed(n) => IsUsed(n)' /\ rep2[n] = rep[n] /\ end2[n] = end[n]
      /\ IsInode(n) => IsInode(n)' /\ nodes'[n].class = nodes[n].class
      /\ IsInode(n) /\ ~Mine(t, n) => nodes'[n].kids = nodes[n].kids
      /\ IsUsed(n) /\ IsInode(n)' => IsInode(n)
  BY EffectKeeps
<1>10. ASSUME OnLink(u, tree, rep, end), ~Mine(t, p)
       PROVE  /\ OnLink(u, tree2, rep2, end2)'
              /\ n # Nil => n \in tree2 /\ start2[n] = start[n]
  <2>1. ~Mine(t, at[u]["parent"])
    BY <1>6, <1>10 DEF Is
  <2>2. /\ OnLink(u, tree2, rep2, end2)'
        /\ at[u]["node"] # Nil =>
              at[u]["node"] \in tree2 /\ start2[at[u]["node"]] = start[at[u]["node"]]
    BY <1>0, <1>1, <1>10, <2>1, LinkAfter
  <2> QED
    BY <1>6, <2>2 DEF Is
<1>11. IsUsed(n) => n # Nil
  BY DEF IsUsed, Node, Nil
<1>12. ASSUME OnPath(u, tree, rep, start), OnLink(u, tree, rep, end), ~Mine(t, p)
       PROVE  OnPath(u, tree2, rep2, start2)'
  <2>1. /\ n \in tree /\ SameTo(key[u], rep[n], start[n])
        /\ IsInode(n) \/ op[u] # "get" => depth[u] = start[n]
    BY <1>6, <1>12 DEF OnPath, Is
  <2>2. IsUsed(n)
    BY <1>0, <2>1, Standing
  <2>3. n \in tree2 /\ start2[n] = start[n] /\ rep2[n] = rep[n]
    BY <1>9, <1>10, <1>11, <1>12, <2>2
  <2>4. /\ n \in tree2 /\ SameTo(key'[u], rep2[n], start2[n])
        /\ IsInode(n)' \/ op'[u] # "get" => depth'[u] = start2[n]
    BY <1>1, <1>9, <2>1, <2>2, <2>3
  <2>5. Is(n, at'[u]["node"])
    BY <1>1, <1>6 DEF Is
  <2> QED
    BY ONLY <2>4, <2>5 DEF OnPath, Is, IsInode, IsUsed
<1>13. ASSUME PastPrefix(u, tree, rep, end), ~Mine(t, n)
       PROVE  PastPrefix(u, tree2, rep2, end2)'
  <2>1. n \in tree /\ depth[u] = end[n] /\ SameTo(key[u], rep[n], end[n])
    BY <1>6, <1>13 DEF PastPrefix, Is
  <2>2. n \in tree2
    BY <1>0, <1>13, <2>1, EffectStays
  <2>3. rep2[n] = rep[n] /\ end2[n] = end[n]
    BY <1>0, <1>9, <2>1, Standing
  <2>4. n \in tree2 /\ depth'[u] = end2[n] /\ SameTo(key'[u], rep2[n], end2[n])
    BY <1>1, <2>1, <2>2, <2>3
  <2>5. Is(n, at'[u]["node"])
    BY <1>1, <1>6 DEF Is
  <2> QED
    BY ONLY <2>4, <2>5 DEF PastPrefix, Is
<1>14. ASSUME ToChild(u, end), IsInode(n), ~Mine(t, n)
       PROVE  ToChild(u, end2)'
  <2>1. key[u][end[n] + 1] \in DOMAIN nodes[n].kids /\ nodes[n].kids[key[u][end[n] + 1]] = c
    BY <1>6, <1>14 DEF ToChild, Is
  <2>2. nodes'[n].kids = nodes[n].kids /\ end2[n] = end[n]
    BY <1>9, <1>14 DEF IsInode
  <2>3. key'[u][end2[n] + 1] \in DOMAIN nodes'[n].kids /\ nodes'[n].kids[key'[u][end2[n] + 1]] = c
    BY <1>1, <2>1, <2>2
  <2>4. Is(n, at'[u]["node"]) /\ Is(c, at'[u]["child"])
    BY <1>1, <1>6 DEF Is
  <2> QED
    BY ONLY <2>3, <2>4 DEF ToChild, Is
<1>15. pc[u] \in HasInode => IsInode(n)
  BY <1>0, <1>6 DEF ThreadTypes, Is
<1>16. /\ pc[u] = "lock_node" /\ Current(u, "parent") =>
             OnLink(u, tree2, rep2, end2)' /\ OnPath(u, tree2, rep2, start2)'
  BY <1>4, <1>7, <1>10, <1>12 DEF Believes
<1>17. ASSUME pc[u] = "at_node", ParentOK(u), Current(u, "node")
       PROVE  /\ OnPath(u, tree2, rep2, start2)'
              /\ Current(u, "parent") => OnLink(u, tree2, rep2, end2)'
  <2>1. /\ OnPath(u, tree, rep, start)
        /\ Current(u, "parent") => OnLink(u, tree, rep, end)
    BY <1>4, <1>17 DEF Believes
  <2>2. CASE Current(u, "parent")
    BY <1>7, <1>10, <1>12, <2>1, <2>2
  <2>3. CASE ~Current(u, "parent")
    <3>1. op[u] = "get" /\ todo[u] = <<>>
      BY <1>17, <2>3 DEF ParentOK
    <3>2. /\ n \in tree /\ SameTo(key[u], rep[n], start[n])
          /\ IsInode(n) \/ op[u] # "get" => depth[u] = start[n]
      BY <1>6, <2>1 DEF OnPath, Is
    <3>3. ~Mine(t, n) /\ IsUsed(n)
      BY <1>0, <1>7, <1>17, <3>2, Standing
    <3>4. n \in tree2 /\ rep2[n] = rep[n]
      BY <1>0, <1>9, <3>2, <3>3, EffectStays
    <3>5. start2[n] # start[n] => start2[n] <= start[n] /\ ~IsInode(n)
      <4>1. AboutToRead(u, n)
        BY <1>6, <1>17, <3>1 DEF AboutToRead, Ready, Is
      <4> QED
        BY <1>2, <3>2, <3>3, <4>1 DEF Effect
    <3>6. start[n] \in Nat /\ start2[n] \in Nat
      BY <1>0, <3>2, <3>4 DEF TreeFits, TreeTypes
    <3>7. SameTo(key[u], rep[n], start2[n])
      <4>1. start2[n] <= start[n]
        BY <3>5, <3>6
      <4>2. 1 .. start2[n] \subseteq 1 .. start[n]
        BY ONLY <3>6, <4>1
      <4> QED
        BY <3>2, <4>2 DEF SameTo
    <3>8. /\ n \in tree2 /\ SameTo(key'[u], rep2[n], start2[n])
          /\ IsInode(n)' \/ op'[u] # "get" => depth'[u] = start2[n]
      BY <1>1, <1>9, <3>1, <3>2, <3>3, <3>4, <3>5, <3>7
    <3>9. Is(n, at'[u]["node"])
      BY <1>1, <1>6 DEF Is
    <3>10. OnPath(u, tree2, rep2, start2)'
      BY ONLY <3>8, <3>9 DEF OnPath, Is, IsInode, IsUsed
    <3> QED
      BY <2>3, <3>10
  <2> QED
    BY <2>2, <2>3
<1>18. ASSUME pc[u] = "find_child", ParentOK(u), Current(u, "node")
       PROVE  /\ PastPrefix(u, tree2, rep2, end2)'
              /\ Current(u, "parent") => OnLink(u, tree2, rep2, end2)'
  BY <1>4, <1>7, <1>10, <1>13, <1>18 DEF Believes
<1>19. ASSUME pc[u] \in {"lock_child", "at_child"}, Current(u, "parent"), Current(u, "node")
       PROVE  /\ PastPrefix(u, tree2, rep2, end2)' /\ OnLink(u, tree2, rep2, end2)'
              /\ ToChild(u, end2)'
  BY <1>4, <1>7, <1>10, <1>13, <1>14, <1>15, <1>19 DEF Believes, HasInode
<1>20. pc[u] = "insert_root" => root' = Nil
  <2>1. pc[u] = "insert_root" => p = Nil /\ root = Nil
    BY <1>0, <1>4, <1>6 DEF ThreadTypes, Believes, Is
  <2> QED
    BY <1>8, <2>1 DEF Effect, Commits
<1>21. pc[u] \in {"split_leaf", "split_prefix"} =>
          OnLink(u, tree2, rep2, end2)' /\ OnPath(u, tree2, rep2, start2)'
  BY <1>4, <1>8, <1>10, <1>12 DEF Believes, Commits
<1>22. pc[u] = "split_prefix" => ~SameTo(key[u], rep2[n], end2[n])
  <2>1. pc[u] = "split_prefix" => ~SameTo(key[u], rep[n], end[n])
    BY <1>4, <1>6 DEF Believes, Is
  <2> QED
    BY <1>9, <1>15, <2>1 DEF HasInode, IsInode
<1>23. pc[u] \in HasInode \cap Commits =>
          nodes'[n].kids = nodes[n].kids /\ nodes'[n].class = nodes[n].class /\ end2[n] = end[n]
  BY <1>8, <1>9, <1>15 DEF HasInode, IsInode, RemovesChild
<1>24. pc[u] \in {"add_to_nonfull", "grow"} =>
          PastPrefix(u, tree2, rep2, end2)' /\ key[u][end2[n] + 1] \notin DOMAIN nodes'[n].kids
  <2>1. pc[u] \in {"add_to_nonfull", "grow"} =>
          PastPrefix(u, tree, rep, end) /\ key[u][end[n] + 1] \notin DOMAIN nodes[n].kids
    BY <1>4, <1>6 DEF Believes, Is
  <2> QED
    BY <1>8, <1>13, <1>23, <2>1 DEF Commits, HasInode
<1>25. /\ pc[u] = "add_to_nonfull" => ~is_full(nodes'[n])
       /\ pc[u] = "grow" => OnLink(u, tree2, rep2, end2)' /\ is_full(nodes'[n])
  <2>1. /\ pc[u] = "add_to_nonfull" => ~is_full(nodes[n])
        /\ pc[u] = "grow" => OnLink(u, tree, rep, end) /\ is_full(nodes[n])
    BY <1>4, <1>6 DEF Believes, Is
  <2> QED
    BY <1>8, <1>10, <1>23, <2>1 DEF Commits, HasInode, is_full
<1>26. pc[u] = "remove_root" => root' = n
  <2>1. pc[u] = "remove_root" => p = Nil /\ root = n
    BY <1>0, <1>4, <1>6 DEF ThreadTypes, Believes, Is
  <2> QED
    BY <1>8, <2>1 DEF Effect, Commits
<1>27. pc[u] \in RemovesChild => PastPrefix(u, tree2, rep2, end2)' /\ ToChild(u, end2)'
  BY <1>4, <1>8, <1>13, <1>14, <1>15 DEF Believes, RemovesChild, HasInode, Commits
<1>28. /\ pc[u] = "remove_child" => ~is_min_size(nodes'[n])
       /\ pc[u] \in {"leave_last_child", "shrink"} =>
             OnLink(u, tree2, rep2, end2)' /\ is_min_size(nodes'[n])
       /\ pc[u] = "leave_last_child" => nodes'[n].class = 1
       /\ pc[u] = "shrink" => nodes'[n].class # 1
  <2>1. /\ pc[u] = "remove_child" => ~is_min_size(nodes[n])
        /\ pc[u] \in {"leave_last_child", "shrink"} =>
             OnLink(u, tree, rep, end) /\ is_min_size(nodes[n])
        /\ pc[u] = "leave_last_child" => nodes[n].class = 1
        /\ pc[u] = "shrink" => nodes[n].class # 1
    BY <1>4, <1>6 DEF Believes, Is
  <2> QED
    BY <1>8, <1>10, <1>23, <2>1 DEF Commits, HasInode, RemovesChild, is_min_size
<1>29. pc[u] = "return" => result[u] \in seen'[u]
  <2>1. seen[u] \subseteq seen'[u]
    BY <1>0, WrittenSeen
  <2> QED
    BY <1>4, <2>1 DEF Believes
<1>30. n = at'[u]["node"]
  BY <1>1, <1>6 DEF Is
<1> QED
  BY <1>1, <1>5, <1>16, <1>17, <1>18, <1>19, <1>20, <1>21, <1>22, <1>24, <1>25, <1>26,
     <1>27, <1>28, <1>29, <1>30 DEF Believes, Role

\* A write section keeps the invariant.
LEMMA WritingInv ==
    ASSUME NEW tree, NEW rep, NEW end, NEW start, Inv(tree, rep, end, start),
           NEW t \in Thread, Writing(t)
    PROVE  /\ \E tree2, rep2, end2, start2 :
                 /\ Inv(tree2, rep2, end2, start2)'
                 /\ Effect(t, tree, rep, end, start, tree2, rep2, end2, start2)
           /\ UNCHANGED <<word, load>>
<1>1. PICK leaf : Written(t, leaf)
  BY WritingIs
<1>2. PICK tree2, rep2, end2, start2 :
         /\ TreeFits(tree2, rep2, end2, start2)'
         /\ Effect(t, tree, rep, end, start, tree2, rep2, end2, start2)
  BY WriteFits DEF FitsAfter
<1>3. WriteSection(t, pc[t]) /\ DOMAIN seen' = Thread /\ LockInv
  BY <1>1 DEF Written, Rebind, Inv
<1>4. LockInv' /\ Others(t)
  BY <1>3, WriteLocks
<1>5. word' = word /\ load' = load
  BY <1>3 DEF WriteSection, opVars
<1>6. RetiredFits(tree2)'
  BY <1>2, <1>4, <1>5, RetiredFitsAfter
<1>7. ASSUME NEW u \in Thread
      PROVE  ThreadTypes(u, rep2, end2)' /\ Knows(u, tree2, rep2, end2, start2)'
  <2>1. CASE u = t
    BY <1>1, <1>2, <2>1, WriterAfter
  <2>2. CASE u # t
    <3>1. ThreadTypes(u, rep2, end2)'
      BY <1>1, <1>2, <1>4, <2>2, OthersTypesAfter
    <3>2. Knows(u, tree2, rep2, end2, start2)'
      BY <1>1, <1>2, <1>4, <1>5, <2>2, OthersKnowAfter
    <3> QED
      BY <3>1, <3>2
  <2> QED
    BY <2>1, <2>2
<1>8. Inv(tree2, rep2, end2, start2)'
  BY <1>2, <1>4, <1>6, <1>7 DEF Inv
<1> QED
  BY <1>2, <1>5, <1>8

(***************************************************************************)
(* What one who only reads sees of a step: OlcArtShape's Observed.         *)
(***************************************************************************)
\* A step that changes no node.
LEMMA QuietObserved ==
    ASSUME NEW tree, NEW rep, NEW end, NEW start, Inv(tree, rep, end, start), SameTree,
           (\E t \in Thread : \A l \in Lock : WordStep(t, l)) \/ word' = word
    PROVE  Observed(tree, rep, end, start, tree, rep, end, start)
<1>0. LockTypes /\ Ownership /\ TreeTypes(tree, rep, end, start)
  BY DEF Inv, LockInv, TreeFits
<1>1. root' = root /\ nodes' = nodes
  BY DEF SameTree
<1>2. PICK t \in Thread : \A l \in Lock : WordStep(t, l)
  BY ThreadAssumption DEF WordStep
<1>3. \A l \in Lock, v \in Nat : Past(l, v) => Past(l, v)' /\ (word'[l] = v => word[l] = v)
  BY <1>0, <1>2, PastKept
<1>4. \A l : IsUsed(l) => IsUsed(l)'
  BY <1>1 DEF IsUsed
<1>5. \A l \in tree : start[l] <= start[l]
  BY <1>0 DEF TreeTypes
<1> QED
  BY <1>1, <1>3, <1>4, <1>5 DEF Observed

\* A write section.
LEMMA WriteObserved ==
    ASSUME NEW tree, NEW rep, NEW end, NEW start, Inv(tree, rep, end, start),
           NEW t \in Thread, word' = word, NEW tree2, NEW rep2, NEW end2, NEW start2,
           Effect(t, tree, rep, end, start, tree2, rep2, end2, start2)
    PROVE  Observed(tree, rep, end, start, tree2, rep2, end2, start2)
<1>0. LockInv /\ TreeTypes(tree, rep, end, start)
  BY DEF Inv, TreeFits
<1>1. \A l \in Lock : word[l] % 4 = 0 => ~Mine(t, l)
  BY <1>0, MineNotFree
<1>2. tree \subseteq Node /\ Node \subseteq Lock /\ Nil \in Lock
  BY <1>0, BoundAssumption DEF TreeTypes, Node, Lock, Nil
<1>3. \A l \in Lock, v \in Nat : Past(l, v) => Past(l, v)' /\ (word'[l] = v => word[l] = v)
  BY DEF Past
<1>4. \A l \in Node : IsUsed(l) =>
          /\ IsUsed(l)' /\ rep2[l] = rep[l] /\ end2[l] = end[l]
          /\ nodes'[l].kind = nodes[l].kind
          /\ IsLeaf(l) => nodes'[l] = nodes[l]
          /\ IsInode(l) /\ word[l] % 4 = 0 => nodes'[l].kids = nodes[l].kids
  BY <1>1, <1>2 DEF Effect
<1>5. word[Nil] % 4 = 0 => root' = root
  BY <1>1, <1>2 DEF Effect
<1>6. ASSUME NEW l \in tree, word[l] % 4 = 0
      PROVE  /\ l \in tree2 /\ start2[l] <= start[l]
             /\ start2[l] # start[l] =>
                   /\ \E p \in tree : /\ word[p] % 4 # 0 /\ IsInode(p)
                                      /\ \E b \in DOMAIN nodes[p].kids : nodes[p].kids[b] = l
                   /\ \E u \in Thread : /\ Ready(u, "leave_last_child") /\ pc'[u] = "return"
                                        /\ l = survivor(u)
  <2>1. ~Mine(t, l) /\ ~Retired(t, l) /\ l \in Node
    BY <1>1, <1>2, <1>6 DEF Mine
  <2>2. l \in tree2
    BY <2>1 DEF Effect
  <2>3. start[l] <= start[l]
    BY <1>0, <1>2 DEF TreeTypes
  <2>4. start2[l] # start[l] =>
           /\ start2[l] <= start[l]
           /\ \E p \in tree : /\ Mine(t, p) /\ IsInode(p)
                              /\ \E b \in DOMAIN nodes[p].kids : nodes[p].kids[b] = l
           /\ leave_last_child(t) /\ l = survivor(t)
    BY <2>1 DEF Effect
  <2>5. \A p \in tree : Mine(t, p) => word[p] % 4 # 0
    BY <1>1, <1>2
  <2>6. leave_last_child(t) => Ready(t, "leave_last_child") /\ pc'[t] = "return"
    BY <1>0 DEF leave_last_child, WriteSection, Goto, LockInv, LockTypes
  <2> QED
    BY <2>2, <2>3, <2>4, <2>5, <2>6
<1> QED
  BY <1>3, <1>4, <1>5, <1>6 DEF Observed

(***************************************************************************)
(* The invariant.                                                          *)
(***************************************************************************)
LEMMA InitConsistent == Init => Consistent
<1> SUFFICES ASSUME Init PROVE Consistent
  OBVIOUS
<1>0. /\ root = Nil /\ nodes = [n \in Node |-> Unused] /\ word = [l \in Lock |-> 0]
      /\ map = [k \in Key |-> Nil] /\ load \in Loads
      /\ op = [t \in Thread |-> "none"] /\ pc = [t \in Thread |-> "idle"]
      /\ key = [t \in Thread |-> <<>>]
      /\ depth = [t \in Thread |-> 0] /\ at = [t \in Thread |-> Nowhere]
      /\ ver = [t \in Thread |-> Nowhere] /\ todo = [t \in Thread |-> <<>>]
      /\ held = [t \in Thread |-> <<>>] /\ result = [t \in Thread |-> Nil]
      /\ seen = [t \in Thread |-> {}] /\ torn = {}
  BY DEF Init
<1>1. PICK rep, end, start : /\ rep = [n \in Node |-> [i \in 1 .. KeyLen |-> 0]]
                             /\ end = [n \in Node |-> 0] /\ start = [n \in Node |-> 0]
  OBVIOUS
<1>2. 0 \in Lock /\ KeyLen \in Nat /\ Nil = 0 /\ Nil \notin Node
  BY BoundAssumption, KeyAssumption DEF Lock, Nil, Node
<1>3. \A n : ~IsUsed(n)
  BY <1>0 DEF IsUsed
<1>4. \A n : ~IsLeaf(n) /\ ~IsInode(n)
  BY <1>3 DEF IsLeaf, IsInode
<1>5. Nowhere \in [Role -> Lock] /\ Nowhere \in [Role -> Nat] /\ \A r \in Role : Nowhere[r] = 0
  BY <1>2 DEF Nowhere
<1>6. LockTypes
  <2>1. /\ word \in [Lock -> Nat] /\ \A l \in Lock : word[l] = 0
    BY <1>0
  <2>2. \A l \in Lock : word[l] % 4 \in {0, 2}
    BY <2>1
  <2>3. ~is_obsolete(word[Nil])
    BY <1>2, <2>1 DEF is_obsolete, obsolete_lock_word
  <2>4. pc \in [Thread -> Labels] /\ op \in [Thread -> {"none", "get", "insert", "remove"}]
    BY <1>0 DEF Labels
  <2>5. at \in [Thread -> [Role -> Lock]] /\ ver \in [Thread -> [Role -> Nat]]
    BY <1>0, <1>5
  <2>6. todo \in [Thread -> Seq(Entry)] /\ held \in [Thread -> Seq(Lock)]
    BY <1>0
  <2>7. DOMAIN key = Thread /\ DOMAIN depth = Thread /\ DOMAIN result = Thread /\ DOMAIN seen = Thread
    BY <1>0
  <2> QED
    BY <2>1, <2>2, <2>3, <2>4, <2>5, <2>6, <2>7 DEF LockTypes
<1>7. \A t \in Thread : /\ todo[t] = <<>> /\ held[t] = <<>> /\ pc[t] = "idle" /\ op[t] = "none"
                        /\ at[t] = Nowhere /\ ver[t] = Nowhere /\ DOMAIN todo[t] = {}
                        /\ DOMAIN held[t] = {} /\ depth[t] = 0 /\ result[t] = Nil
  BY <1>0
<1>8. \A l \in Lock : Past(l, 0)
  BY <1>0 DEF Past
<1>9. ASSUME NEW t \in Thread PROVE Versions(t) /\ Lists(t) /\ Guarding(t)
  <2>1. Versions(t)
    BY <1>2, <1>5, <1>7, <1>8 DEF Versions, Commits, Role
  <2>2. Lists(t)
    BY <1>7 DEF Lists
  <2> QED
    BY <1>7, <2>1, <2>2 DEF Guarding, Commits
<1>10. \A t \in Thread, l \in Lock : ~Mine(t, l) /\ ~Owns(t, l)
  BY <1>7 DEF Mine, Owns, Holds, ToDo, Retired, Retires, RemovesChild
<1>11. LockInv
  BY <1>6, <1>9, <1>10 DEF LockInv, Ownership
<1>12. TreeFits({}, rep, end, start)
  <2>1. \A n \in Node : nodes[n] = Unused
    BY <1>0
  <2>2. used = 0
    <3>1. {n \in Node : nodes[n] # Unused} = {}
      BY <2>1
    <3> QED
      BY <3>1, FS_EmptySet DEF used
  <2>3. \A n \in Node : nodes[n] # Unused <=> n <= used
    BY <2>1, <2>2 DEF Node
  <2>4. rep \in [Node -> Bytes] /\ end \in [Node -> 0 .. KeyLen] /\ start \in [Node -> 0 .. KeyLen]
    <3>1. [i \in 1 .. KeyLen |-> 0] \in Bytes
      BY KeyAssumption DEF Bytes
    <3> QED
      BY <1>1, <1>2, <3>1
  <2>5. root \in Lock /\ nodes \in [Node -> AnyNode] /\ map \in [Key -> Lock]
    BY <1>0, <1>2 DEF AnyNode
  <2>6. TreeTypes({}, rep, end, start)
    BY <2>3, <2>4, <2>5 DEF TreeTypes
  <2>7. Paths(root, kidsOf, {}, rep, end, start)
    BY <1>0 DEF Paths, Laminar
  <2>8. MapFits({})
    BY <1>0 DEF MapFits
  <2> QED
    BY <1>4, <2>6, <2>7, <2>8 DEF TreeFits, LabelsFit, SizesFit, PrefixesFit
<1>13. RetiredFits({})
  <2>1. \A n \in Node : word[n] = 0
    BY <1>0, BoundAssumption DEF Node, Lock
  <2> QED
    BY <1>3, <2>1 DEF RetiredFits
<1>14. ASSUME NEW t \in Thread
       PROVE  ThreadTypes(t, rep, end) /\ Knows(t, {}, rep, end, start)
  <2>1. ThreadTypes(t, rep, end)
    BY <1>0, <1>2, <1>5, <1>7
       DEF ThreadTypes, HasNode, HasInode, HasChildNode, RemovesChild, Inserts, Commits
  <2>2. Believes(t, {}, rep, end, start)
    BY <1>7 DEF Believes, RemovesChild
  <2> QED
    BY <2>1, <2>2 DEF Knows
<1>15. Inv({}, rep, end, start)
  BY <1>11, <1>12, <1>13, <1>14 DEF Inv
<1>16. load \in Seq(Key)
  BY <1>0, LoadAssumption
<1> QED
  BY <1>15, <1>16 DEF Consistent

\* Nothing happens.
LEMMA StutterInv ==
    ASSUME NEW tree, NEW rep, NEW end, NEW start, Inv(tree, rep, end, start), UNCHANGED vars
    PROVE  Inv(tree, rep, end, start)'
<1>1. /\ UNCHANGED <<root, nodes, word, map, seen, torn, op, key, pc, depth, at, ver, todo, held>>
      /\ UNCHANGED result
  BY DEF vars, treeVars, historyVars, opVars, rcsVars
<1>2. Loader \in Thread
  BY ThreadAssumption
<1>3. Others(Loader) /\ SameTree /\ word' = word
  BY <1>1 DEF Others, SameTree
<1>4. LockInv'
  <2>1. LockTypes'
    BY <1>1 DEF Inv, LockInv, LockTypes
  <2>2. \A t, l : Owns(t, l)' <=> Owns(t, l)
    BY <1>1 DEF Owns, Holds, ToDo
  <2>3. \A t, l : Mine(t, l)' <=> Mine(t, l)
    <3>1. \A t, l : Retired(t, l)' <=> Retired(t, l)
      BY <1>1 DEF Retired, ToDo
    <3> QED
      BY <2>2, <3>1 DEF Mine
  <2>4. Ownership'
    <3>1. /\ \A t \in Thread, l \in Lock : Owns(t, l) => word[l] % 4 = 2
          /\ \A t, u \in Thread, l \in Lock : t # u => ~(Mine(t, l) /\ Mine(u, l))
      BY DEF Inv, LockInv, Ownership
    <3>2. \A t \in Thread, l \in Lock : Owns(t, l)' => word'[l] % 4 = 2
      BY <1>1, <2>2, <3>1
    <3>3. \A t, u \in Thread, l \in Lock : t # u => ~(Mine(t, l)' /\ Mine(u, l)')
      BY <2>3, <3>1
    <3> QED
      BY <3>2, <3>3 DEF Ownership
  <2>5. ASSUME NEW t \in Thread PROVE Versions(t)' /\ Lists(t)' /\ Guarding(t)'
    <3>1. Versions(t) /\ Lists(t) /\ Guarding(t)
      BY DEF Inv, LockInv
    <3>2. Versions(t)'
      BY <1>1, <3>1 DEF Versions, Past
    <3>3. Lists(t)'
      BY <1>1, <3>1 DEF Lists
    <3>4. Guarding(t)'
      BY <1>1, <3>1 DEF Guarding, ToDo, Holds, Retired
    <3> QED
      BY <3>2, <3>3, <3>4
  <2> QED
    BY <2>1, <2>4, <2>5 DEF LockInv
<1>5. RetiredFits(tree)'
  BY <1>1 DEF Inv, RetiredFits, IsUsed, Retired, ToDo
<1>6. TreeFits(tree, rep, end, start)'
  BY <1>3, TreeFitsSame DEF Inv
<1>7. ASSUME NEW u \in Thread
      PROVE  ThreadTypes(u, rep, end)' /\ Knows(u, tree, rep, end, start)'
  <2>1. ThreadTypes(u, rep, end)'
    BY <1>1 DEF Inv, ThreadTypes, IsUsed, IsInode, IsLeaf
  <2>2. Valid(u)' <=> Valid(u)
    BY <1>1 DEF Valid
  <2>3. Believes(u, tree, rep, end, start)' <=> Believes(u, tree, rep, end, start)
    BY <1>1 DEF Believes, OnPath, OnLink, Linked, PastPrefix, ToChild, Current, ParentOK,
                IsInode, IsUsed
  <2> QED
    BY <1>1, <2>1, <2>2, <2>3 DEF Inv, Knows
<1> QED
  BY <1>4, <1>5, <1>6, <1>7 DEF Inv

\* Steps that read, and begin or end an operation, change neither nodes nor words.
LEMMA ReadsOnly ==
    ASSUME NEW t \in Thread, Operation(t) \/ Reading(t)
    PROVE  UNCHANGED <<root, nodes, map, word, load>>
<1>1. CASE Operation(t)
  BY <1>1 DEF Operation, begin, Start, return, Leave, treeVars
<1>2. CASE Reading(t)
  BY <1>2 DEF Reading, load_root, empty_tree, empty_tree_insert, get_leaf, insert_leaf,
              remove_root_leaf, match_prefix, get_prefix_differs, insert_prefix_differs,
              remove_prefix_differs, get_child, add_or_choose_subtree, remove_find_child,
              remove_or_choose_subtree, bad_alloc, Leave, opVars, treeVars, historyVars
<1> QED
  BY <1>1, <1>2

\* Steps on locks change no node.
LEMMA LocksOnly ==
    ASSUME NEW tree, NEW rep, NEW end, NEW start, Inv(tree, rep, end, start),
           NEW t \in Thread, Locking(t)
    PROVE  SameTree /\ load' = load /\ (word' = word \/ \A l \in Lock : WordStep(t, l))
<1>1. UNCHANGED <<root, nodes, map, load>>
  BY DEF Locking, try_read_lock_root, try_read_lock, try_read_lock_obsolete, check,
         try_upgrade_to_write_lock, version_mismatch, unlock_and_obsolete, write_unlock,
         Restart, opVars, treeVars, historyVars
<1>2. CASE check(t) \/ try_upgrade_to_write_lock(t) \/ unlock_and_obsolete(t) \/ write_unlock(t)
  <2>1. PICK e : LockAccess(t, e)
    BY <1>2, AccessLocks
  <2> QED
    BY <1>1, <2>1 DEF LockAccess, SameTree
<1>3. CASE \/ try_read_lock_root(t) \/ version_mismatch(t)
           \/ \E r \in {"node", "child"} : try_read_lock(t, r) \/ try_read_lock_obsolete(t, r)
  <2>1. word' = word
    BY <1>3 DEF try_read_lock_root, try_read_lock, try_read_lock_obsolete, version_mismatch, Restart
  <2> QED
    BY <1>1, <2>1 DEF SameTree
<1> QED
  BY <1>2, <1>3 DEF Locking

\* Every step keeps the invariant, and a reader sees of it what Observed says.
LEMMA NextObserved ==
    ASSUME NEW tree, NEW rep, NEW end, NEW start, Inv(tree, rep, end, start),
           load \in Seq(Key), [Next]_vars
    PROVE  /\ load' \in Seq(Key)
           /\ \E tree2, rep2, end2, start2 :
                 /\ Inv(tree2, rep2, end2, start2)'
                 /\ Observed(tree, rep, end, start, tree2, rep2, end2, start2)
<1> DEFINE Goal == /\ load' \in Seq(Key)
                   /\ \E tree2, rep2, end2, start2 :
                         /\ Inv(tree2, rep2, end2, start2)'
                         /\ Observed(tree, rep, end, start, tree2, rep2, end2, start2)
<1>s. ASSUME load' \in Seq(Key), Inv(tree, rep, end, start)', SameTree, 
             (\E t \in Thread : \A l \in Lock : WordStep(t, l)) \/ word' = word
      PROVE  Goal
  <2>1. Observed(tree, rep, end, start, tree, rep, end, start)
    BY <1>s, QuietObserved
  <2> QED
    BY <1>s, <2>1
<1> SUFFICES Goal
  OBVIOUS
<1> HIDE DEF Goal
<1>3. CASE begin_load
  <2>1. /\ load # <<>> /\ pc[Loader] = "idle" /\ load' = Tail(load)
        /\ Start(Loader, "insert", Head(load))
    BY <1>3 DEF begin_load
  <2>2. Head(load) \in Key /\ Tail(load) \in Seq(Key)
    BY <2>1
  <2>3. Inv(tree, rep, end, start)'
    BY <2>1, <2>2, StartInv, ThreadAssumption
  <2>4. SameTree /\ word' = word
    BY <2>1 DEF Start, SameTree, treeVars
  <2> QED
    BY <1>s, <2>1, <2>2, <2>3, <2>4
<1>4. ASSUME NEW t \in Thread, Operation(t) PROVE Goal
  <2>1. Inv(tree, rep, end, start)'
    <3>1. ASSUME NEW o \in {"get", "insert", "remove"}, NEW k \in Key, begin(t, o, k)
          PROVE  Inv(tree, rep, end, start)'
      BY <3>1, StartInv DEF begin
    <3> QED
      BY <1>4, <3>1, LeavesInv DEF Operation
  <2> QED
    BY <1>s, <1>4, <2>1, ReadsOnly DEF SameTree
<1>5. ASSUME NEW t \in Thread, Locking(t) PROVE Goal
  <2>1. Inv(tree, rep, end, start)'
    BY <1>5, LockRootInv, LockNodeInv, AccessesInv, RestartsInv DEF Locking
  <2> QED
    BY <1>s, <1>5, <2>1, LocksOnly
<1>6. ASSUME NEW t \in Thread, Reading(t) PROVE Goal
  <2>1. Inv(tree, rep, end, start)'
    BY <1>6, ReadingInv
  <2> QED
    BY <1>s, <1>6, <2>1, ReadsOnly DEF SameTree
<1>7. ASSUME NEW t \in Thread, Writing(t) PROVE Goal
  <2>1. PICK tree2, rep2, end2, start2 :
           /\ Inv(tree2, rep2, end2, start2)'
           /\ Effect(t, tree, rep, end, start, tree2, rep2, end2, start2)
    BY <1>7, WritingInv
  <2>2. word' = word /\ load' = load
    BY <1>7, WritingInv
  <2>3. Observed(tree, rep, end, start, tree2, rep2, end2, start2)
    BY <2>1, <2>2, WriteObserved
  <2> QED
    BY <2>1, <2>2, <2>3 DEF Goal
<1>8. CASE UNCHANGED vars
  <2>1. Inv(tree, rep, end, start)'
    BY <1>8, StutterInv
  <2>2. load' = load /\ SameTree /\ word' = word
    BY <1>8 DEF vars, opVars, treeVars, historyVars, SameTree
  <2> QED
    BY <1>s, <2>1, <2>2
<1> QED
  BY <1>3, <1>4, <1>5, <1>6, <1>7, <1>8 DEF Next

\* Every step keeps the invariant.
LEMMA NextConsistent == Consistent /\ [Next]_vars => Consistent'
<1> SUFFICES ASSUME Consistent, [Next]_vars PROVE Consistent'
  OBVIOUS
<1>1. PICK tree, rep, end, start : Inv(tree, rep, end, start)
  BY DEF Consistent
<1> QED
  BY <1>1, NextObserved DEF Consistent

(***************************************************************************)
(* At all times some labelling of the nodes fits: the locks are owned by   *)
(* one thread each, the nodes form one tree in which every node is reached *)
(* by the path its label begins with, and what each thread of get, insert  *)
(* and remove has read is so if the versions it has still to check are     *)
(* current.                                                                *)
(***************************************************************************)
THEOREM AlwaysConsistent == Spec => []Consistent
<1>1. Init => Consistent
  BY InitConsistent
<1>2. Consistent /\ [Next]_vars => Consistent'
  BY NextConsistent
<1> QED
  BY <1>1, <1>2, PTL DEF Spec

(***************************************************************************)
(* A write section takes effect on the state it assumed: when a thread has *)
(* made its last try_upgrade_to_write_lock in try_insert or try_remove, an *)
(* insert's key is still unbound and a remove's leaf still the bound one,  *)
(* though both were found before anything was locked; and what a thread    *)
(* holds is write-locked.                                                  *)
(***************************************************************************)
THEOREM WritesCorrect == Spec => []CommitsOnCurrent
<1>1. ASSUME Consistent PROVE CommitsOnCurrent
  <2>1. PICK tree, rep, end, start : Inv(tree, rep, end, start)
    BY <1>1 DEF Consistent
  <2>2. ASSUME NEW t \in Thread, pc[t] \in Commits, todo[t] = <<>>
        PROVE  result[t] = map[key[t]]
    BY <2>1, <2>2, CommitMeans
  <2>3. ASSUME NEW t \in Thread, NEW i \in DOMAIN held[t]
        PROVE  is_write_locked(word[held[t][i]])
    <3>1. PICK l : l = held[t][i]
      OBVIOUS
    <3>2. held[t] \in Seq(Lock) /\ Ownership
      BY <2>1 DEF Inv, LockInv, LockTypes
    <3>3. l \in Lock /\ Owns(t, l)
      BY <2>3, <3>1, <3>2 DEF Owns, Holds
    <3> QED
      BY <3>1, <3>2, <3>3 DEF Ownership, is_write_locked
  <2> QED
    BY <2>2, <2>3 DEF CommitsOnCurrent
<1> QED
  BY <1>1, AlwaysConsistent, PTL

(***************************************************************************)
(* An operation that returns (after its last try_read_unlock) gives what   *)
(* the map had for its key at some instant while it ran, unless it is a    *)
(* get under which leave_last_child lengthened the prefix of an inode that *)
(* it does not lock.                                                       *)
(***************************************************************************)
THEOREM ResultsCorrect == Spec => []LinearizableUnlessTorn
<1>1. ASSUME Consistent PROVE LinearizableUnlessTorn
  <2>1. PICK tree, rep, end, start : Inv(tree, rep, end, start)
    BY <1>1 DEF Consistent
  <2>2. ASSUME NEW t \in Thread, pc[t] = "return", todo[t] = <<>>, t \notin torn
        PROVE  result[t] \in seen[t]
    BY <2>1, <2>2, Believing DEF Believes
  <2> QED
    BY <2>2 DEF LinearizableUnlessTorn, Ready
<1> QED
  BY <1>1, AlwaysConsistent, PTL

(***************************************************************************)
(* The tree as the nodes that can be reached.                              *)
(***************************************************************************)
\* down and turn are defined by recursion, and such functions exist.
LEMMA DownExists ==
    ASSUME NEW m \in Nat
    PROVE  \E f : f = [i \in 0 .. m |-> IF i = 0 THEN {root} \ {Nil}
                                        ELSE f[i - 1] \cup Children(f[i - 1])]
<1> DEFINE Fits(f, j) == f = [i \in 0 .. j |-> IF i = 0 THEN {root} \ {Nil}
                                               ELSE f[i - 1] \cup Children(f[i - 1])]
           S == {j \in Nat : ~\E f : Fits(f, j)}
<1> SUFFICES ASSUME S # {} PROVE FALSE
  OBVIOUS
<1>0. S \in SUBSET Nat
  OBVIOUS
<1>s. \A j \in Nat : j \in S <=> ~\E f : Fits(f, j)
  OBVIOUS
<1> HIDE DEF S
<1>1. PICK j \in S : \A y \in S : j <= y
  BY <1>0, LeastNat
<1>2. CASE j = 0
  <2>1. PICK f : f = [i \in 0 .. 0 |-> {root} \ {Nil}]
    OBVIOUS
  <2>2. Fits(f, 0)
    <3>1. [i \in 0 .. 0 |-> {root} \ {Nil}]
            = [i \in 0 .. 0 |-> IF i = 0 THEN {root} \ {Nil} ELSE f[i - 1] \cup Children(f[i - 1])]
      OBVIOUS
    <3> QED
      BY ONLY <2>1, <3>1
  <2> HIDE DEF Fits
  <2>3. \E g : Fits(g, j)
    BY <1>2, <2>2
  <2> QED
    BY <1>s, <1>0, <1>1, <2>3
<1>3. CASE j # 0
  <2>1. j \in Nat /\ j - 1 \in Nat /\ j - 1 < j
    BY <1>0, <1>1, <1>3
  <2>2. j - 1 \notin S
    BY ONLY <1>1, <2>1
  <2>3. PICK f : Fits(f, j - 1)
    BY <1>s, <2>1, <2>2
  <2>4. PICK g : g = [i \in 0 .. j |-> IF i = j THEN f[j - 1] \cup Children(f[j - 1]) ELSE f[i]]
    OBVIOUS
  <2>5. \A i \in 0 .. j - 1 : f[i] = IF i = 0 THEN {root} \ {Nil}
                                     ELSE f[i - 1] \cup Children(f[i - 1])
    BY <2>3
  <2>6. \A i \in 0 .. j - 1 : g[i] = f[i]
    BY <2>1, <2>4
  <2>7. ASSUME NEW i \in 0 .. j
        PROVE  g[i] = IF i = 0 THEN {root} \ {Nil} ELSE g[i - 1] \cup Children(g[i - 1])
    <3>1. CASE i = j
      BY <1>3, <2>1, <2>4, <2>6, <3>1
    <3>2. CASE i # j /\ i = 0
      <4>1. i \in 0 .. j - 1
        BY <2>1, <3>2
      <4>2. g[i] = f[i]
        BY <2>6, <4>1
      <4>3. f[i] = IF i = 0 THEN {root} \ {Nil} ELSE f[i - 1] \cup Children(f[i - 1])
        BY ONLY <2>5, <4>1
      <4> QED
        BY <3>2, <4>2, <4>3
    <3>3. CASE i # j /\ i # 0
      <4>1. i \in 0 .. j - 1 /\ i - 1 \in 0 .. j - 1
        BY <2>1, <3>3
      <4>2. g[i] = f[i - 1] \cup Children(f[i - 1]) /\ g[i - 1] = f[i - 1]
        BY <2>5, <2>6, <3>3, <4>1
      <4> QED
        BY <3>3, <4>2
    <3> QED
      BY <3>1, <3>2, <3>3
  <2>8. g = [i \in 0 .. j |-> g[i]]
    BY ONLY <2>4
  <2>9. [i \in 0 .. j |-> g[i]] = [i \in 0 .. j |-> IF i = 0 THEN {root} \ {Nil}
                                                   ELSE g[i - 1] \cup Children(g[i - 1])]
    BY ONLY <2>7
  <2>10. Fits(g, j)
    BY ONLY <2>8, <2>9
  <2> QED
    BY <1>s, <1>1, <2>1, <2>10
<1> QED
  BY <1>2, <1>3

\* The recursive function that Lookup iterates exists; see DownExists.
LEMMA TurnExists ==
    ASSUME NEW m \in Nat, NEW k
    PROVE  \E f : f = [i \in 0 .. m |-> IF i = 0 THEN <<root, 0>> ELSE LookupTurn(k, f[i - 1])]
<1> DEFINE Fits(f, j) == f = [i \in 0 .. j |-> IF i = 0 THEN <<root, 0>>
                                               ELSE LookupTurn(k, f[i - 1])]
           S == {j \in Nat : ~\E f : Fits(f, j)}
<1> SUFFICES ASSUME S # {} PROVE FALSE
  OBVIOUS
<1>0. S \in SUBSET Nat
  OBVIOUS
<1>s. \A j \in Nat : j \in S <=> ~\E f : Fits(f, j)
  OBVIOUS
<1> HIDE DEF S
<1>1. PICK j \in S : \A y \in S : j <= y
  BY <1>0, LeastNat
<1>2. CASE j = 0
  <2>1. PICK f : f = [i \in 0 .. 0 |-> <<root, 0>>]
    OBVIOUS
  <2>2. Fits(f, 0)
    <3>1. [i \in 0 .. 0 |-> <<root, 0>>]
            = [i \in 0 .. 0 |-> IF i = 0 THEN <<root, 0>> ELSE LookupTurn(k, f[i - 1])]
      OBVIOUS
    <3> QED
      BY ONLY <2>1, <3>1
  <2> HIDE DEF Fits
  <2>3. \E g : Fits(g, j)
    BY <1>2, <2>2
  <2> QED
    BY <1>s, <1>0, <1>1, <2>3
<1>3. CASE j # 0
  <2>1. j \in Nat /\ j - 1 \in Nat /\ j - 1 < j
    BY <1>0, <1>1, <1>3
  <2>2. j - 1 \notin S
    BY ONLY <1>1, <2>1
  <2>3. PICK f : Fits(f, j - 1)
    BY <1>s, <2>1, <2>2
  <2>4. PICK g : g = [i \in 0 .. j |-> IF i = j THEN LookupTurn(k, f[j - 1]) ELSE f[i]]
    OBVIOUS
  <2>5. \A i \in 0 .. j - 1 : f[i] = IF i = 0 THEN <<root, 0>> ELSE LookupTurn(k, f[i - 1])
    BY <2>3
  <2>6. \A i \in 0 .. j - 1 : g[i] = f[i]
    BY <2>1, <2>4
  <2>7. ASSUME NEW i \in 0 .. j
        PROVE  g[i] = IF i = 0 THEN <<root, 0>> ELSE LookupTurn(k, g[i - 1])
    <3>1. CASE i = j
      BY <1>3, <2>1, <2>4, <2>6, <3>1
    <3>2. CASE i # j /\ i = 0
      BY <2>1, <2>5, <2>6, <3>2
    <3>3. CASE i # j /\ i # 0
      <4>1. i \in 0 .. j - 1 /\ i - 1 \in 0 .. j - 1
        BY <2>1, <3>3
      <4>2. g[i] = LookupTurn(k, f[i - 1]) /\ g[i - 1] = f[i - 1]
        BY <2>5, <2>6, <3>3, <4>1
      <4> QED
        BY <3>3, <4>2
    <3> QED
      BY <3>1, <3>2, <3>3
  <2>8. g = [i \in 0 .. j |-> g[i]]
    BY ONLY <2>4
  <2>9. [i \in 0 .. j |-> g[i]] = [i \in 0 .. j |-> IF i = 0 THEN <<root, 0>>
                                                   ELSE LookupTurn(k, g[i - 1])]
    BY ONLY <2>7
  <2>10. Fits(g, j)
    BY ONLY <2>8, <2>9
  <2> QED
    BY <1>s, <1>1, <2>1, <2>10
<1> QED
  BY <1>2, <1>3

\* Reachable, by its recursion.
LEMMA ReachableIs ==
    \E d : /\ d[0] = {root} \ {Nil}
           /\ \A i \in 1 .. KeyLen : d[i] = d[i - 1] \cup Children(d[i - 1])
           /\ Reachable = d[KeyLen]
<1>1. KeyLen \in Nat
  BY KeyAssumption
<1>2. PICK d : d = CHOOSE f : f = [i \in 0 .. KeyLen |-> IF i = 0 THEN {root} \ {Nil}
                                                ELSE f[i - 1] \cup Children(f[i - 1])]
  OBVIOUS
<1>3. d = [i \in 0 .. KeyLen |-> IF i = 0 THEN {root} \ {Nil}
                                 ELSE d[i - 1] \cup Children(d[i - 1])]
  BY <1>1, <1>2, DownExists
<1>4. Reachable = d[KeyLen]
  BY <1>2 DEF Reachable
<1>5. d[0] = {root} \ {Nil}
  BY <1>1, <1>3
<1>6. ASSUME NEW i \in 1 .. KeyLen PROVE d[i] = d[i - 1] \cup Children(d[i - 1])
  <2>1. i \in 0 .. KeyLen /\ i # 0
    BY <1>1
  <2>2. d[i] = IF i = 0 THEN {root} \ {Nil} ELSE d[i - 1] \cup Children(d[i - 1])
    BY ONLY <1>3, <2>1
  <2> QED
    BY <2>1, <2>2
<1> QED
  BY <1>4, <1>5, <1>6

\* Lookup, by its recursion.
LEMMA LookupIs ==
    ASSUME NEW k
    PROVE  \E w : /\ w[0] = <<root, 0>>
                  /\ \A i \in 1 .. KeyLen : w[i] = LookupTurn(k, w[i - 1])
                  /\ \A n : n = w[KeyLen][1] =>
                        Lookup(k) = IF n # Nil /\ nodes[n] = Leaf(k) THEN n ELSE Nil
<1>1. KeyLen \in Nat
  BY KeyAssumption
<1>2. PICK w : w = CHOOSE f : f = [i \in 0 .. KeyLen |-> IF i = 0 THEN <<root, 0>>
                                                         ELSE LookupTurn(k, f[i - 1])]
  OBVIOUS
<1>3. w = [i \in 0 .. KeyLen |-> IF i = 0 THEN <<root, 0>> ELSE LookupTurn(k, w[i - 1])]
  <2>1. \E f : f = [i \in 0 .. KeyLen |-> IF i = 0 THEN <<root, 0>> ELSE LookupTurn(k, f[i - 1])]
    BY ONLY <1>1, TurnExists
  <2> QED
    BY <1>2, <2>1
<1>4. ASSUME NEW n, n = w[KeyLen][1]
      PROVE  Lookup(k) = IF n # Nil /\ nodes[n] = Leaf(k) THEN n ELSE Nil
  BY <1>2, <1>4 DEF Lookup
<1>5. w[0] = <<root, 0>>
  BY <1>1, <1>3
<1>6. ASSUME NEW i \in 1 .. KeyLen PROVE w[i] = LookupTurn(k, w[i - 1])
  <2>1. i \in 0 .. KeyLen /\ i # 0
    BY <1>1
  <2>2. w[i] = IF i = 0 THEN <<root, 0>> ELSE LookupTurn(k, w[i - 1])
    BY ONLY <1>3, <2>1
  <2> QED
    BY <2>1, <2>2
<1> QED
  BY <1>4, <1>5, <1>6

\* Nodes are reached from the root exactly if they are in the tree.
LEMMA ReachableIsTree ==
    ASSUME NEW tree, NEW rep, NEW end, NEW start, TreeFits(tree, rep, end, start)
    PROVE  Reachable = tree
<1>1. /\ Paths(root, kidsOf, tree, rep, end, start) /\ tree \subseteq Node /\ KeyLen \in Nat
      /\ \A n \in tree : IsUsed(n) /\ end[n] \in Nat /\ start[n] \in 0 .. KeyLen
      /\ \A n \in tree : IsInode(n) => kidsOf[n] = nodes[n].kids
  <2>1. \A n \in Node : end[n] \in 0 .. KeyLen /\ start[n] \in 0 .. KeyLen
    BY Standing
  <2>2. /\ Paths(root, kidsOf, tree, rep, end, start) /\ tree \subseteq Node /\ KeyLen \in Nat
        /\ \A n \in tree : IsUsed(n)
        /\ \A n \in tree : IsInode(n) => kidsOf[n] = nodes[n].kids
    BY Standing
  <2> QED
    BY <2>1, <2>2
<1>2. PICK d : /\ d[0] = {root} \ {Nil}
               /\ \A i \in 1 .. KeyLen : d[i] = d[i - 1] \cup Children(d[i - 1])
               /\ Reachable = d[KeyLen]
  BY ReachableIs
<1> DEFINE Good(i) == d[i] \subseteq tree /\ \A n \in tree : start[n] <= i => n \in d[i]
           S == {i \in 0 .. KeyLen : ~Good(i)}
<1>3. Good(0)
  <2>1. d[0] \subseteq tree
    BY <1>1, <1>2 DEF Paths
  <2>2. ASSUME NEW n \in tree, start[n] <= 0 PROVE n \in d[0]
    <3>1. n = root
      <4>1. ASSUME n # root PROVE FALSE
        <5>1. PICK p \in tree : \E b \in DOMAIN kidsOf[p] : kidsOf[p][b] = n
          BY <1>1, <4>1 DEF Paths
        <5>2. start[n] = end[p] + 1
          BY <1>1, <5>1 DEF Paths
        <5> QED
          BY <1>1, <2>2, <5>2
      <4> QED
        BY <4>1
    <3>2. n # Nil
      BY <1>1 DEF Node, Nil
    <3> QED
      BY <1>2, <3>1, <3>2
  <2> QED
    BY <2>1, <2>2
<1>4. ASSUME NEW i \in 1 .. KeyLen, Good(i - 1) PROVE Good(i)
  <2>1. d[i] = d[i - 1] \cup Children(d[i - 1])
    BY <1>2
  <2>2. ASSUME NEW n \in Children(d[i - 1]) PROVE n \in tree
    <3>1. PICK m \in d[i - 1] : /\ nodes[m].kind = "inode"
                                /\ \E b \in DOMAIN nodes[m].kids : n = nodes[m].kids[b]
      BY <2>2 DEF Children
    <3>2. m \in tree /\ IsInode(m)
      BY <1>1, <1>4, <3>1 DEF IsInode
    <3> QED
      BY <1>1, <3>1, <3>2 DEF Paths
  <2>3. ASSUME NEW n \in tree, start[n] <= i PROVE n \in d[i]
    <3>1. CASE start[n] <= i - 1
      BY <1>4, <2>1, <3>1
    <3>2. CASE ~(start[n] <= i - 1)
      <4>1. start[n] = i /\ i # 0
        BY <1>1, <2>3, <3>2
      <4>2. n # root
        BY <1>1, <4>1 DEF Paths
      <4>3. PICK p \in tree : \E b \in DOMAIN kidsOf[p] : kidsOf[p][b] = n
        BY <1>1, <4>2 DEF Paths
      <4>4. start[n] = end[p] + 1 /\ start[p] <= end[p]
        BY <1>1, <4>3 DEF Paths
      <4>5. start[p] <= i - 1
        BY <1>1, <4>1, <4>4
      <4>6. p \in d[i - 1]
        BY <1>4, <4>5
      <4>7. nodes[p].kind = "inode"
        <5>1. ASSUME nodes[p].kind # "inode" PROVE FALSE
          <6>1. p \in Node
            BY <1>1
          <6>2. kidsOf[p] = <<>>
            BY <5>1, <6>1 DEF kidsOf
          <6> QED
            BY <4>3, <6>2
        <5> QED
          BY <5>1
      <4>8. kidsOf[p] = nodes[p].kids
        BY <1>1, <4>7 DEF IsInode
      <4>9. n \in Children(d[i - 1])
        BY <4>3, <4>6, <4>7, <4>8 DEF Children
      <4> QED
        BY <2>1, <4>9
    <3> QED
      BY <3>1, <3>2
  <2>4. d[i] \subseteq tree
    BY <1>4, <2>1, <2>2
  <2> QED
    BY <2>3, <2>4
<1>5. \A i \in 0 .. KeyLen : Good(i)
  <2> HIDE DEF Good
  <2> SUFFICES ASSUME S # {} PROVE FALSE
    OBVIOUS
  <2>0. S \in SUBSET Nat /\ \A i \in 0 .. KeyLen : i \in S <=> ~Good(i)
    BY <1>1
  <2>s. S \subseteq 0 .. KeyLen
    OBVIOUS
  <2> HIDE DEF S
  <2>1. PICK i \in S : \A y \in S : i <= y
    BY <2>0, LeastNat
  <2>2. i \in 0 .. KeyLen /\ ~Good(i)
    BY <2>0, <2>1, <2>s
  <2>3. i \in 1 .. KeyLen /\ i - 1 \in 0 .. KeyLen /\ ~(i <= i - 1)
    <3>1. i # 0
      BY <1>3, <2>2
    <3> QED
      BY <1>1, <2>2, <3>1
  <2>4. i - 1 \notin S
    BY ONLY <2>1, <2>3
  <2>5. Good(i - 1)
    BY <2>0, <2>3, <2>4
  <2> QED
    BY <1>4, <2>2, <2>3, <2>5
<1>6. Good(KeyLen)
  BY <1>1, <1>5
<1>7. \A n \in tree : start[n] <= KeyLen
  BY <1>1
<1> QED
  BY <1>2, <1>6, <1>7

\* Whoever has made a node obsolete still holds a guard.
LEMMA RetiringLocks ==
    ASSUME LockInv, NEW t \in Thread, NEW l \in Lock, Retired(t, l)
    PROVE  ~Unlocked
<1>1. Guarding(t) /\ Ownership /\ at[t] \in [Role -> Lock]
  BY DEF LockInv, LockTypes
<1>2. pc[t] \in {"grow", "remove_root", "leave_last_child", "shrink", "remove_child"}
  BY DEF Retired, Retires, RemovesChild
<1>3. pc[t] \in Commits
  BY <1>2 DEF Commits
<1>4. \A g : ~ToDo(t, "upgrade", g)
  BY <1>1, <1>3 DEF Guarding, ToDo
<1>5. \E r \in Role : Guards(pc[t], r) /\ ~Retired(t, at[t][r])
  <2>1. CASE pc[t] = "remove_child"
    <3>1. at[t]["child"] # at[t]["node"]
      BY <1>1, <1>3, <2>1 DEF Guarding, RemovesChild
    <3>2. ~Retired(t, at[t]["node"])
      BY <2>1, <3>1 DEF Retired, Retires, Role
    <3> QED
      BY <1>3, <2>1, <3>2 DEF Guards, Role
  <2>2. CASE pc[t] # "remove_child"
    <3>1. at[t]["parent"] # at[t]["node"]
      BY <1>1, <1>2, <1>3 DEF Guarding
    <3>2. pc[t] \in RemovesChild => at[t]["child"] # at[t]["parent"]
      BY <1>1, <1>3 DEF Guarding
    <3>3. ~Retired(t, at[t]["parent"])
      BY <3>1, <3>2 DEF Retired, Retires, Role
    <3> QED
      BY <1>2, <1>3, <2>2, <3>3 DEF Guards, Role
  <2> QED
    BY <2>1, <2>2
<1>6. PICK r \in Role : Guards(pc[t], r) /\ ~Retired(t, at[t][r])
  BY <1>5
<1>7. Holds(t, at[t][r])
  BY <1>1, <1>3, <1>4, <1>6 DEF Guarding
<1>8. PICK g : g = at[t][r]
  OBVIOUS
<1>9. g \in Lock /\ Owns(t, g)
  BY <1>1, <1>7, <1>8 DEF Owns
<1>10. word[g] % 4 = 2
  BY <1>1, <1>9 DEF Ownership
<1> QED
  BY <1>9, <1>10 DEF Unlocked, is_write_locked

(***************************************************************************)
(* Whenever no write section is open, the nodes that are not obsolete are  *)
(* the ones reachable from the root: unlock_and_obsolete, which precedes   *)
(* the handing of a node to QSBR, is called for every node that an insert  *)
(* or remove replaces or takes out, and for no other.                      *)
(***************************************************************************)
THEOREM RetirementCorrect == Spec => []RetiredExactly
<1>1. ASSUME Consistent PROVE RetiredExactly
  <2>1. PICK tree, rep, end, start : Inv(tree, rep, end, start)
    BY <1>1 DEF Consistent
  <2>2. LockInv /\ TreeFits(tree, rep, end, start) /\ RetiredFits(tree)
    BY <2>1 DEF Inv
  <2>3. Reachable = tree
    BY <2>2, ReachableIsTree
  <2>4. tree \subseteq Node /\ \A n \in tree : IsUsed(n)
    BY <2>2, Standing
  <2>5. Node \subseteq Lock
    BY BoundAssumption DEF Node, Lock
  <2>6. ASSUME Unlocked, NEW n \in tree PROVE nodes[n] # Unused /\ ~is_obsolete(word[n])
    <3>1. \A t \in Thread : ~Retired(t, n)
      BY <2>2, <2>4, <2>5, <2>6, RetiringLocks
    <3> QED
      BY <2>2, <2>4, <2>6, <3>1 DEF RetiredFits, IsUsed
  <2>7. ASSUME NEW n \in Node, nodes[n] # Unused, ~is_obsolete(word[n]) PROVE n \in tree
    BY <2>2, <2>7 DEF RetiredFits, IsUsed
  <2>8. ASSUME Unlocked PROVE {n \in Node : nodes[n] # Unused /\ ~is_obsolete(word[n])} = tree
    BY <2>4, <2>6, <2>7, <2>8
  <2> QED
    BY <2>3, <2>8 DEF RetiredExactly
<1> QED
  BY <1>1, AlwaysConsistent, PTL

(***************************************************************************)
(* Whenever no write section is open, every inode in the tree has at least *)
(* min_size and at most capacity children of its class: growing and        *)
(* shrinking are decided on an unlocked read of the count, which is        *)
(* current when they happen.                                               *)
(***************************************************************************)
THEOREM SizesCorrect == Spec => []SizesKept
<1>1. ASSUME Consistent PROVE SizesKept
  <2>1. PICK tree, rep, end, start : Inv(tree, rep, end, start)
    BY <1>1 DEF Consistent
  <2>2. TreeFits(tree, rep, end, start) /\ SizesFit
    BY <2>1 DEF Inv, TreeFits
  <2>3. Reachable = tree
    BY <2>2, ReachableIsTree
  <2>4. tree \subseteq Node /\ \A n \in tree : IsUsed(n)
    BY <2>2, Standing
  <2> QED
    BY <2>2, <2>3, <2>4 DEF SizesKept, SizesFit, SizeFits, IsInode
<1> QED
  BY <1>1, AlwaysConsistent, PTL

\* Where a lookup of k stands: at a node that k leads to, one with more than i bytes
\* above it unless the node answers for k.
Stands(k, tree, rep, start, n, d, i) ==
    /\ n \in tree /\ d = start[n] /\ SameTo(k, rep[n], start[n])
    /\ start[n] >= i \/ IsLeaf(n) \/ map[k] = Nil

\* One turn of Lookup goes from the node on the key's path to the next one.
LEMMA LookupTurnStands ==
    ASSUME NEW tree, NEW rep, NEW end, NEW start, TreeFits(tree, rep, end, start), NEW k \in Key,
           NEW n, NEW d, NEW i \in Nat, Stands(k, tree, rep, start, n, d, i), NEW here,
           here[1] = n, here[2] = d
    PROVE  \E m, e : /\ LookupTurn(k, here)[1] = m /\ LookupTurn(k, here)[2] = e
                     /\ Stands(k, tree, rep, start, m, e, i + 1)
<1>1. /\ Paths(root, kidsOf, tree, rep, end, start) /\ LabelsFit(rep, end)
      /\ tree \subseteq Node /\ KeyLen \in Nat /\ nodes \in [Node -> AnyNode]
  BY Standing
<1>2. n \in tree /\ d = start[n] /\ SameTo(k, rep[n], start[n])
      /\ (start[n] >= i \/ IsLeaf(n) \/ map[k] = Nil)
  BY DEF Stands
<1>3. IsUsed(n) /\ n # Nil /\ n \in Node /\ start[n] \in Nat /\ end[n] \in 0 .. KeyLen
      /\ start[n] <= end[n]
  <2>1. \A m \in Node : end[m] \in 0 .. KeyLen /\ start[m] \in 0 .. KeyLen
    BY Standing
  <2>2. \A m \in tree : IsUsed(m)
    BY Standing
  <2> QED
    BY <1>1, <1>2, <2>1, <2>2 DEF Paths, Node, Nil
<1>4. CASE IsLeaf(n)
  <2>1. LookupTurn(k, here) = here
    BY <1>4 DEF LookupTurn, IsLeaf
  <2>2. Stands(k, tree, rep, start, n, d, i + 1)
    BY <1>2, <1>4 DEF Stands
  <2> QED
    BY <2>1, <2>2
<1>5. CASE IsInode(n)
  <2>1. PICK pf, len : Is(pf, nodes[n].prefix) /\ Is(len, get_shared_length(nodes[n].prefix, k, start[n]))
    BY DEF Is
  <2>2. /\ len = Len(pf) => SameTo(k, rep[n], end[n]) /\ start[n] + len = end[n]
        /\ len < Len(pf) => map[k] = Nil
    <3>1. Is(len, get_shared_length(nodes[n].prefix, k, start[n]))
      BY <2>1
    <3>2. /\ len = Len(nodes[n].prefix) => SameTo(k, rep[n], end[n]) /\ start[n] + len = end[n]
          /\ len < Len(nodes[n].prefix) => map[k] = Nil
      BY ONLY <1>2, <1>5, <3>1, PrefixAnswers, TreeFits(tree, rep, end, start), k \in Key
    <3> QED
      BY <2>1, <3>2 DEF Is
  <2>3. pf \in Seq(Byte) /\ Len(pf) \in Nat /\ len \in 0 .. Len(pf)
    <3>1. nodes[n].prefix \in Seq(Byte)
      BY <1>1, <1>5, InodeFields
    <3>2. pf \in Seq(Byte)
      BY <2>1, <3>1 DEF Is
    <3>3. len = get_shared_length(pf, k, start[n])
      BY <2>1 DEF Is
    <3> QED
      BY <1>3, <3>2, <3>3, SharedLength
  <2>4. PICK b : Is(b, k[end[n] + 1])
    BY DEF Is
  <2>5. CASE len = Len(pf) /\ b \in DOMAIN nodes[n].kids
    <3>1. SameTo(k, rep[n], end[n]) /\ start[n] + Len(pf) + 1 = end[n] + 1
      BY <2>2, <2>5
    <3>2. end[n] < KeyLen
      BY <1>1, <1>3, <1>5 DEF LabelsFit
    <3>3. ByteAt(k, end[n] + 1) = b
      <4>1. end[n] + 1 \in 1 .. KeyLen
        BY <1>1, <1>3, <3>2
      <4> QED
        BY <2>4, <4>1, KeyBytes DEF Is
    <3>4. PICK c : c = nodes[n].kids[b]
      OBVIOUS
    <3>5. c \in tree /\ start[c] = end[n] + 1 /\ SameTo(k, rep[c], start[c])
      <4>1. b = k[end[n] + 1]
        BY <2>4 DEF Is
      <4> QED
        BY <1>2, <1>5, <2>5, <3>1, <3>4, <4>1, ChildAnswers
    <3>6. LookupTurn(k, here) = <<c, end[n] + 1>>
      <4>1. get_shared_length(pf, k, here[2]) = Len(pf) /\ pf = nodes[here[1]].prefix
        BY <1>2, <2>1, <2>5 DEF Is
      <4>2. here[2] + Len(pf) + 1 = end[n] + 1
        BY <1>2, <3>1
      <4>3. here[1] # Nil /\ nodes[here[1]].kind = "inode"
        BY <1>3, <1>5 DEF IsInode
      <4>4. ByteAt(k, end[n] + 1) \in DOMAIN nodes[here[1]].kids
            /\ nodes[here[1]].kids[ByteAt(k, end[n] + 1)] = c
        BY <2>5, <3>3, <3>4
      <4> QED
        BY ONLY <4>1, <4>2, <4>3, <4>4 DEF LookupTurn
    <3>7. start[c] >= i + 1 \/ map[k] = Nil
      <4>1. start[n] >= i \/ map[k] = Nil
        BY <1>2, <1>5 DEF IsLeaf, IsInode
      <4> QED
        BY <1>3, <3>5, <4>1
    <3>8. Stands(k, tree, rep, start, c, end[n] + 1, i + 1)
      BY <3>5, <3>7 DEF Stands
    <3> QED
      BY <3>6, <3>8
  <2>6. CASE ~(len = Len(pf) /\ b \in DOMAIN nodes[n].kids)
    <3>1. map[k] = Nil
      <4>1. CASE len # Len(pf)
        BY <2>2, <2>3, <4>1
      <4>2. CASE len = Len(pf)
        <5>1. b = k[end[n] + 1] /\ b \notin DOMAIN nodes[n].kids /\ SameTo(k, rep[n], end[n])
          BY <2>2, <2>4, <2>6, <4>2 DEF Is
        <5> QED
          BY <1>2, <1>5, <5>1, ChildAnswers
      <4> QED
        BY <4>1, <4>2
    <3>2. LookupTurn(k, here) = here
      <4>1. get_shared_length(nodes[here[1]].prefix, k, here[2]) = len /\ pf = nodes[here[1]].prefix
        BY <1>2, <2>1 DEF Is
      <4>2. CASE len # Len(pf)
        BY ONLY <4>1, <4>2 DEF LookupTurn
      <4>3. CASE len = Len(pf)
        <5>1. start[n] + Len(pf) + 1 = end[n] + 1
          BY <2>2, <4>3
        <5>2. end[n] + 1 \in 1 .. KeyLen
          BY <1>1, <1>3, <1>5 DEF LabelsFit
        <5>3. ByteAt(k, end[n] + 1) = b
          BY <2>4, <5>2, KeyBytes DEF Is
        <5>4. here[2] + Len(nodes[here[1]].prefix) + 1 = end[n] + 1
          BY <1>2, <4>1, <5>1
        <5>5. ByteAt(k, end[n] + 1) \notin DOMAIN nodes[here[1]].kids
          BY <2>6, <4>3, <5>3
        <5> QED
          BY ONLY <5>4, <5>5 DEF LookupTurn
      <4> QED
        BY <4>2, <4>3
    <3>3. Stands(k, tree, rep, start, n, d, i + 1)
      BY <1>2, <3>1 DEF Stands
    <3> QED
      BY <3>2, <3>3
  <2> QED
    BY <2>5, <2>6
<1>6. IsLeaf(n) \/ IsInode(n)
  BY <1>1, <1>3 DEF IsLeaf, IsInode, IsUsed, AnyNode
<1> QED
  BY <1>4, <1>5, <1>6

\* A lookup without concurrency finds what the map says.
LEMMA LookupFinds ==
    ASSUME NEW tree, NEW rep, NEW end, NEW start, TreeFits(tree, rep, end, start), NEW k \in Key
    PROVE  Lookup(k) = map[k]
<1>1. /\ Paths(root, kidsOf, tree, rep, end, start) /\ LabelsFit(rep, end)
      /\ tree \subseteq Node /\ KeyLen \in Nat /\ nodes \in [Node -> AnyNode]
  BY Standing
<1>2. PICK w : /\ w[0] = <<root, 0>>
               /\ \A i \in 1 .. KeyLen : w[i] = LookupTurn(k, w[i - 1])
               /\ \A n : n = w[KeyLen][1] =>
                     Lookup(k) = IF n # Nil /\ nodes[n] = Leaf(k) THEN n ELSE Nil
  BY LookupIs
<1>3. CASE root = Nil
  <2> DEFINE S == {i \in 0 .. KeyLen : w[i] # <<Nil, 0>>}
  <2>1. S = {}
    <3> SUFFICES ASSUME S # {} PROVE FALSE
      OBVIOUS
    <3>0. S \in SUBSET Nat /\ S \subseteq 0 .. KeyLen /\ \A i \in 0 .. KeyLen : i \in S <=> w[i] # <<Nil, 0>>
      BY <1>1
    <3> HIDE DEF S
    <3>1. PICK i \in S : \A y \in S : i <= y
      BY <3>0, LeastNat
    <3>2. i # 0
      BY <1>2, <1>3, <3>0, <3>1
    <3>3. i \in 1 .. KeyLen /\ i - 1 \in 0 .. KeyLen /\ ~(i <= i - 1)
      BY <1>1, <3>0, <3>1, <3>2
    <3>4. i - 1 \notin S
      BY ONLY <3>1, <3>3
    <3>5. w[i - 1] = <<Nil, 0>> /\ w[i] = LookupTurn(k, w[i - 1])
      BY <1>2, <3>0, <3>3, <3>4
    <3>6. LookupTurn(k, <<Nil, 0>>) = <<Nil, 0>>
      BY DEF LookupTurn
    <3> QED
      BY <3>0, <3>1, <3>5, <3>6
  <2>2. w[KeyLen] = <<Nil, 0>>
    BY <1>1, <2>1
  <2>3. Lookup(k) = Nil
    BY <1>2, <2>2
  <2>4. tree = {}
    BY <1>1, <1>3 DEF Paths
  <2>5. map[k] = Nil
    BY <2>4, NotBound
  <2> QED
    BY <2>3, <2>5
<1>4. CASE root # Nil
  <2> DEFINE Good(i) == \E n, d : /\ w[i][1] = n /\ w[i][2] = d
                                  /\ Stands(k, tree, rep, start, n, d, i)
             S == {i \in 0 .. KeyLen : ~Good(i)}
  <2>1. Good(0)
    <3>1. root \in tree /\ start[root] = 0
      BY <1>1, <1>4 DEF Paths
    <3>2. SameTo(k, rep[root], 0)
      BY DEF SameTo
    <3>3. Stands(k, tree, rep, start, root, 0, 0)
      BY <3>1, <3>2 DEF Stands
    <3>4. w[0][1] = root /\ w[0][2] = 0
      BY <1>2
    <3> QED
      BY <3>3, <3>4
  <2>2. ASSUME NEW i \in 1 .. KeyLen, Good(i - 1) PROVE Good(i)
    <3>1. PICK n, d : w[i - 1][1] = n /\ w[i - 1][2] = d /\ Stands(k, tree, rep, start, n, d, i - 1)
      BY <2>2
    <3>2. i - 1 \in Nat /\ i - 1 + 1 = i
      BY <1>1
    <3>3. PICK here : here = w[i - 1]
      OBVIOUS
    <3>4. PICK m, e : /\ LookupTurn(k, here)[1] = m /\ LookupTurn(k, here)[2] = e
                      /\ Stands(k, tree, rep, start, m, e, i - 1 + 1)
      BY <3>1, <3>2, <3>3, LookupTurnStands
    <3>5. w[i] = LookupTurn(k, here)
      BY <1>2, <3>3
    <3> QED
      BY <3>2, <3>4, <3>5
  <2>3. S = {}
    <3> HIDE DEF Good
    <3> SUFFICES ASSUME S # {} PROVE FALSE
      OBVIOUS
    <3>0. S \in SUBSET Nat /\ S \subseteq 0 .. KeyLen /\ \A i \in 0 .. KeyLen : i \in S <=> ~Good(i)
      BY <1>1
    <3> HIDE DEF S
    <3>1. PICK i \in S : \A y \in S : i <= y
      BY <3>0, LeastNat
    <3>2. i \in 0 .. KeyLen /\ ~Good(i)
      BY <3>0, <3>1
    <3>3. i # 0
      BY <2>1, <3>2
    <3>4. i \in 1 .. KeyLen /\ i - 1 \in 0 .. KeyLen /\ ~(i <= i - 1)
      BY <1>1, <3>2, <3>3
    <3>5. i - 1 \notin S
      BY ONLY <3>1, <3>4
    <3>6. Good(i - 1)
      BY <3>0, <3>4, <3>5
    <3> QED
      BY <2>2, <3>2, <3>4, <3>6
  <2>4. Good(KeyLen)
    BY <1>1, <2>3
  <2>5. PICK n, d : w[KeyLen][1] = n /\ w[KeyLen][2] = d /\ Stands(k, tree, rep, start, n, d, KeyLen)
    BY <2>4
  <2>6. /\ n \in tree /\ SameTo(k, rep[n], start[n])
        /\ start[n] >= KeyLen \/ IsLeaf(n) \/ map[k] = Nil
    BY <2>5 DEF Stands
  <2>7. Lookup(k) = IF n # Nil /\ nodes[n] = Leaf(k) THEN n ELSE Nil
    BY <1>2, <2>5
  <2>8. IsUsed(n) /\ n # Nil /\ n \in Node /\ start[n] <= end[n]
        /\ start[n] \in Nat /\ end[n] \in Nat
    <3>1. \A m \in Node : end[m] \in 0 .. KeyLen /\ start[m] \in 0 .. KeyLen
      BY Standing
    <3>2. \A m \in tree : IsUsed(m)
      BY Standing
    <3> QED
      BY <1>1, <2>6, <3>1, <3>2 DEF Paths, Node, Nil
  <2>9. CASE IsLeaf(n)
    <3>1. map[k] = IF nodes[n].key = k THEN n ELSE Nil
      BY <2>6, <2>9, LeafAnswers
    <3>2. nodes[n] = Leaf(k) <=> nodes[n].key = k
      <4>1. nodes[n] = Leaf(nodes[n].key)
        BY <1>1, <2>9, LeafFields
      <4> QED
        BY <4>1 DEF Leaf
    <3> QED
      BY <2>7, <2>8, <3>1, <3>2
  <2>10. CASE IsInode(n)
    <3>1. end[n] < KeyLen
      BY <1>1, <2>8, <2>10 DEF LabelsFit
    <3>2. ~IsLeaf(n) /\ nodes[n] # Leaf(k)
      BY <2>10 DEF IsLeaf, IsInode, Leaf
    <3>3. ~(start[n] >= KeyLen)
      BY <1>1, <2>8, <3>1
    <3> QED
      BY <2>6, <2>7, <3>2, <3>3
  <2>11. IsLeaf(n) \/ IsInode(n)
    BY <1>1, <2>8 DEF IsLeaf, IsInode, IsUsed, AnyNode
  <2> QED
    BY <2>9, <2>10, <2>11
<1> QED
  BY <1>3, <1>4

(***************************************************************************)
(* Whenever no write section is open, a search of the tree finds the leaf  *)
(* of every bound key and none for the others: no interleaving of splits,  *)
(* merges, growing and shrinking loses a key or brings one back.           *)
(***************************************************************************)
THEOREM TreeCorrect == Spec => []TreeMatchesMap
<1>1. ASSUME Consistent PROVE TreeMatchesMap
  <2>1. PICK tree, rep, end, start : Inv(tree, rep, end, start)
    BY <1>1 DEF Consistent
  <2>2. TreeFits(tree, rep, end, start)
    BY <2>1 DEF Inv
  <2>3. \A k \in Key : Lookup(k) = map[k]
    BY <2>2, LookupFinds
  <2> QED
    BY <2>3 DEF TreeMatchesMap
<1> QED
  BY <1>1, AlwaysConsistent, PTL

(***************************************************************************)
(* For users of this module.                                               *)
(***************************************************************************)
\* A step is split_leaf if it does what that does, with names for its parts.
LEMMA SplitsLeaf ==
    ASSUME NEW t, NEW n, NEW k1, NEW k, NEW prefix, NEW d, NEW kids, NEW leaf, NEW inode, NEW nd,
           n = at[t]["node"], k1 = nodes[n].key, k = key[t],
           prefix = common_prefix(k1, k, depth[t]), d = depth[t] + Len(prefix) + 1,
           leaf = fresh(1), inode = fresh(2),
           kids = add(add(<<>>, k1[d], n), k[d], leaf),
           nd = [WithLeaf(t) EXCEPT ![inode] = Inode(1, prefix, kids)],
           inode \in Node, WriteSection(t, "split_leaf"), SetInParent(t, nd, inode),
           Bind(k, leaf)
    PROVE  split_leaf(t)
<1>1. LET m == at[t]["node"]
          j1 == nodes[m].key
          p == common_prefix(j1, key[t], depth[t])
          e == depth[t] + Len(p) + 1
          f == add(add(<<>>, j1[e], m), key[t][e], fresh(1))
      IN SetInParent(t, [WithLeaf(t) EXCEPT ![fresh(2)] = Inode(1, p, f)], fresh(2))
  OBVIOUS
<1>2. Bind(key[t], fresh(1))
  OBVIOUS
<1> QED
  BY <1>1, <1>2, Zenon DEF split_leaf
===============================================================================
