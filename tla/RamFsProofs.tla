---------------------------- MODULE RamFsProofs -----------------------------
(***************************************************************************)
(* Proofs about the RAM file system, for every number of nodes, all names  *)
(* and contents, paths of every length and all partition tables.           *)
(***************************************************************************)
EXTENDS RamFs, FiniteSetTheorems, SequenceTheorems, WellFoundedInduction, TLAPS

-----------------------------------------------------------------------------
(* Induction over the natural numbers.                                     *)

\* A set of natural numbers that is not empty has a least element.
LEMMA LeastOf ==
  ASSUME NEW S, S \subseteq Nat, S # {}
  PROVE  /\ (CHOOSE i \in S : \A j \in S : i <= j) \in S
         /\ \A k \in S : (CHOOSE i \in S : \A j \in S : i <= j) <= k
<1> DEFINE R == {p \in Nat \X Nat : p[1] < p[2]}
<1>1. IsWellFoundedOn(R, Nat)
  <2>1. R = OpToRel(<, Nat)
    BY DEF OpToRel
  <2> QED BY <2>1, NatLessThanWellFounded
<1>2. PICK x \in S : \A y \in S : ~(<<y, x>> \in R)
  <2> HIDE DEF R
  <2> QED BY <1>1, WFMin
<1>3. \A y \in S : ~(y < x)
  <2> SUFFICES ASSUME NEW y \in S PROVE ~(y < x)
    OBVIOUS
  <2>1. ~(<<y, x>> \in R) /\ y \in Nat /\ x \in Nat
    BY <1>2
  <2> QED BY <2>1, Zenon
<1>4. \A y \in S : x <= y
  BY <1>3
<1> QED BY <1>4

LEMMA InductionOnSet ==
  ASSUME NEW T, 0 \in T, \A n \in Nat : n \in T => n + 1 \in T
  PROVE  Nat \subseteq T
<1> SUFFICES ASSUME Nat \ T # {} PROVE FALSE
  OBVIOUS
<1>1. PICK x \in Nat \ T : \A y \in Nat \ T : x <= y
  <2>1. Nat \ T \subseteq Nat
    OBVIOUS
  <2> QED BY <2>1, LeastOf
<1>2. x \in Nat /\ x # 0 /\ x - 1 \in Nat /\ (x - 1) + 1 = x
  OBVIOUS
<1>3. x - 1 \notin T
  BY <1>1, <1>2
<1> QED BY <1>1, <1>2, <1>3

-----------------------------------------------------------------------------
(* The inductive invariant. Nodes are taken in order and never given back, *)
(* so a node's parent is a node before it, and what is used is a prefix.   *)

Root == [Unused EXCEPT !.used = TRUE]
Placed(i) ==
  /\ nodes[i].name \in Names
  /\ nodes[i].parent \in Ids /\ nodes[i].parent < i
  /\ nodes[nodes[i].parent].used /\ nodes[nodes[i].parent].data = Dir
Shape ==
  /\ nodes[0] = Root
  /\ \A i \in Used : i # 0 => Placed(i)
  /\ \A i \in Ids : ~nodes[i].used => nodes[i] = Unused
  /\ \A i \in Used, j \in Ids : j < i => nodes[j].used
Siblings ==
  \A i, j \in Used :
    nodes[i].parent = nodes[j].parent /\ nodes[i].name = nodes[j].name => i = j
Home == cwd \in Used /\ nodes[cwd].data = Dir
RInv == MountAgrees /\ Shape /\ Siblings /\ Home

-----------------------------------------------------------------------------
(* What the operators find.                                                *)

Nodes == [Ids -> [used : BOOLEAN, name : Names \cup {""}, parent : Ids \cup {-1},
                  data : Contents \cup {Dir}]]

LEMMA Constants ==
  /\ FsMax \in Nat /\ 0 \in Ids /\ Ids \subseteq Nat /\ -1 \notin Ids
  /\ \A i \in Ids : i >= 0 /\ ~(i < 0)
  /\ LongHead \in Names /\ LongRest \in Names
  /\ \A n \in Names : n # LongName /\ n # "" /\ n # "." /\ n # ".."
  /\ Dir \notin Contents /\ TooLong \notin Contents /\ TooLong # Dir
<1>1. FsMax \in Nat /\ FsMax # 0
  BY RamFsAssumption
<1>2. 0 \in Ids /\ Ids \subseteq Nat /\ -1 \notin Ids /\ \A i \in Ids : i >= 0 /\ ~(i < 0)
  BY <1>1 DEF Ids
<1>3. LongHead \in Names /\ LongRest \in Names
  BY RamFsAssumption
<1>4. ASSUME NEW n \in Names PROVE n # LongName /\ n # "" /\ n # "." /\ n # ".."
  BY RamFsAssumption
<1>5. Dir \notin Contents /\ TooLong \notin Contents /\ TooLong # Dir
  BY RamFsAssumption
<1> QED BY <1>1, <1>2, <1>3, <1>4, <1>5

LEMMA Facts ==
  ASSUME RInv
  PROVE  /\ nodes \in Nodes /\ Used \subseteq Ids /\ 0 \in Used
         /\ nodes[0].parent = -1 /\ nodes[0].data = Dir
         /\ \A i \in Used : i \in Ids /\ i \in Nat /\ nodes[i].used
         /\ \A i \in Used : i # 0 => Placed(i) /\ nodes[i].parent \in Used
         /\ \A i \in Ids : i \notin Used => nodes[i] = Unused
         /\ cwd \in Used /\ cwd \in Ids /\ nodes[cwd].data = Dir
<1>1. nodes \in Nodes /\ cwd \in Ids
  BY DEF RInv, MountAgrees, TypeOK, Nodes
<1>2. Used \subseteq Ids /\ \A i \in Used : i \in Ids /\ i \in Nat /\ nodes[i].used
  BY Constants DEF Used
<1>3. nodes[0].parent = -1 /\ nodes[0].data = Dir /\ 0 \in Used
  <2>1. Root.used /\ Root.parent = -1 /\ Root.data = Dir
    BY DEF Root, Unused
  <2>2. nodes[0] = Root /\ 0 \in Ids
    BY Constants DEF RInv, Shape
  <2> QED BY <2>1, <2>2 DEF Used
<1>4. \A i \in Used : i # 0 => Placed(i) /\ nodes[i].parent \in Used
  BY DEF RInv, Shape, Placed, Used
<1>5. \A i \in Ids : i \notin Used => nodes[i] = Unused
  BY DEF RInv, Shape, Used
<1> QED BY <1>1, <1>2, <1>3, <1>4, <1>5 DEF RInv, Home

\* find_kid finds the node of that name and directory, if there is one.
Kid(i, dir, name) == i \in Used /\ nodes[i].parent = dir /\ nodes[i].name = name
LEMMA KidFacts ==
  ASSUME RInv
  PROVE  \A dir, name :
           \/ find_kid(dir, name) = -1 /\ \A i \in Used : ~Kid(i, dir, name)
           \/ find_kid(dir, name) \in Used /\ Kid(find_kid(dir, name), dir, name)
<1> SUFFICES ASSUME NEW dir, NEW name
             PROVE  \/ find_kid(dir, name) = -1 /\ \A i \in Used : ~Kid(i, dir, name)
                    \/ find_kid(dir, name) \in Used /\ Kid(find_kid(dir, name), dir, name)
  OBVIOUS
<1> DEFINE kids == {i \in Ids : nodes[i].used /\ nodes[i].parent = dir /\ nodes[i].name = name}
<1>1. find_kid(dir, name) = IF kids = {} THEN -1 ELSE CHOOSE i \in kids : \A j \in kids : i <= j
  BY DEF find_kid
<1>2. kids \subseteq Nat
  BY Constants
<1>3. \A i : i \in kids <=> Kid(i, dir, name)
  BY DEF Kid, Used
<1> HIDE DEF kids
<1>4. CASE kids = {}
  BY <1>1, <1>3, <1>4
<1>5. CASE kids # {}
  <2>1. find_kid(dir, name) \in kids
    BY <1>1, <1>2, <1>5, LeastOf
  <2> QED BY <2>1, <1>3 DEF Kid
<1> QED BY <1>4, <1>5

LEMMA KidIs ==
  ASSUME RInv, NEW i, NEW dir, NEW name, Kid(i, dir, name)
  PROVE  find_kid(dir, name) = i
<1>1. find_kid(dir, name) \in Used /\ Kid(find_kid(dir, name), dir, name)
  BY KidFacts DEF Kid
<1> QED BY <1>1 DEF RInv, Siblings, Kid

\* A component leads from a used node to a used one, or nowhere.
LEMMA EnterFacts ==
  ASSUME RInv, NEW cur, NEW name, NEW more
  PROVE  enter(cur, name, more) \in Used \cup {-1}
  BY KidFacts DEF enter

LEMMA FollowFacts ==
  ASSUME RInv, NEW cur \in Used, NEW c, NEW more
  PROVE  follow(cur, c, more) \in Used \cup {-1}
<1>0. LongName # "" /\ LongName # "." /\ LongName # ".."
  BY RamFsAssumption
<1>1. up(cur) \in Used
  <2>1. CASE cur = 0
    <3>1. nodes[0].parent = -1
      BY Facts
    <3> QED BY <2>1, <3>1 DEF up
  <2>2. CASE cur # 0
    BY <2>2, Facts, Constants DEF up
  <2> QED BY <2>1, <2>2
<1>2. CASE c \in {"", "."}
  BY <1>0, <1>2 DEF follow
<1>3. CASE c = ".."
  BY <1>0, <1>1, <1>3 DEF follow
<1>4. CASE c = LongName
  <2>2. PICK dir : dir = enter(cur, LongHead, TRUE)
    OBVIOUS
  <2>3. follow(cur, c, more) = IF dir < 0 THEN -1 ELSE enter(dir, LongRest, more)
    BY <1>0, <1>4, <2>2 DEF follow
  <2> QED BY <2>3, EnterFacts
<1>5. CASE c \notin {"", ".", "..", LongName}
  <2>1. follow(cur, c, more) = enter(cur, c, more)
    BY <1>5 DEF follow
  <2> QED BY <2>1, EnterFacts
<1> QED BY <1>2, <1>3, <1>4, <1>5

-----------------------------------------------------------------------------
(* The way resolve takes.                                                  *)

\* A recursive function over 0 .. n whose steps stay in S exists.
Recursion(h, g, a, n) == h = [k \in 0 .. n |-> IF k = 0 THEN a ELSE g[k][h[k - 1]]]
LEMMA RecursionExists ==
  ASSUME NEW S, NEW n \in Nat, NEW g \in [1 .. n -> [S -> S]], NEW a \in S
  PROVE  \E h \in [0 .. n -> S] : Recursion(h, g, a, n)
<1> DEFINE Is(h, m) == /\ h \in [0 .. m -> S]
                       /\ \A k \in 0 .. m : h[k] = IF k = 0 THEN a ELSE g[k][h[k - 1]]
           T == {m \in Nat : m <= n => \E h : Is(h, m)}
<1>1. 0 \in T
  <2>1. Is([k \in 0 .. 0 |-> a], 0)
    OBVIOUS
  <2> QED BY <2>1
<1>2. ASSUME NEW m \in Nat, m \in T PROVE m + 1 \in T
  <2> SUFFICES ASSUME m + 1 <= n PROVE \E h : Is(h, m + 1)
    OBVIOUS
  <2>1. PICK h : Is(h, m)
    BY <1>2
  <2> DEFINE v == g[m + 1][h[m]]
             l == [k \in 0 .. m + 1 |-> IF k = m + 1 THEN v ELSE h[k]]
  <2>2. v \in S
    BY <2>1
  <2>3. l \in [0 .. m + 1 -> S]
    BY <2>1, <2>2
  <2>4. ASSUME NEW k \in 0 .. m + 1 PROVE l[k] = IF k = 0 THEN a ELSE g[k][l[k - 1]]
    <3>1. CASE k = m + 1
      <4>1. l[k] = v /\ l[k - 1] = h[m] /\ k # 0
        BY <3>1
      <4> QED BY <3>1, <4>1
    <3>2. CASE k # m + 1
      <4>1. k \in 0 .. m /\ l[k] = h[k]
        BY <3>2
      <4>2. k # 0 => k - 1 \in 0 .. m /\ l[k - 1] = h[k - 1]
        BY <4>1
      <4> QED BY <2>1, <4>1, <4>2
    <3> QED BY <3>1, <3>2
  <2>5. Is(l, m + 1)
    BY <2>3, <2>4
  <2> HIDE DEF Is
  <2> QED BY <2>5
<1>3. Nat \subseteq T
  <2> HIDE DEF T
  <2> QED BY <1>1, <1>2, InductionOnSet
<1>4. PICK h : Is(h, n)
  BY <1>3
<1>5. Recursion(h, g, a, n)
  BY <1>4 DEF Recursion
<1> QED BY <1>4, <1>5

Start(path) == IF path.abs THEN 0 ELSE cwd
MoreAt(path, k) == k < Len(path.comps) /\ path.comps[k + 1] # ""
Goes(path, k, i) == IF i < 0 THEN -1 ELSE follow(i, path.comps[k], MoreAt(path, k))
Way(path, at) ==
  at = [k \in 0 .. Len(path.comps) |-> IF k = 0 THEN Start(path) ELSE Goes(path, k, at[k - 1])]

LEMMA GoesFacts ==
  ASSUME RInv, NEW path, NEW k, NEW i \in Used \cup {-1}
  PROVE  Goes(path, k, i) \in Used \cup {-1}
<1>1. CASE i = -1
  BY <1>1 DEF Goes
<1>2. CASE i \in Used
  BY <1>2, Facts, FollowFacts DEF Goes
<1> QED BY <1>1, <1>2

LEMMA ResolveIs ==
  ASSUME RInv, NEW path, Len(path.comps) \in Nat
  PROVE  \E at \in [0 .. Len(path.comps) -> Used \cup {-1}] :
           Way(path, at) /\ resolve(path) = at[Len(path.comps)]
<1> DEFINE S == Used \cup {-1}
           P(at) == Way(path, at)
<1>1. \E at \in [0 .. Len(path.comps) -> S] : P(at)
  <2>1. PICK n \in Nat : n = Len(path.comps)
    OBVIOUS
  <2>2. PICK a, g : a = Start(path) /\ g = [k \in 1 .. n |-> [i \in S |-> Goes(path, k, i)]]
    OBVIOUS
  <2>3. a \in S
    BY <2>2, Facts DEF Start
  <2>4. g \in [1 .. n -> [S -> S]]
    BY <2>2, GoesFacts
  <2>5. PICK h \in [0 .. n -> S] : Recursion(h, g, a, n)
    <3> HIDE DEF S
    <3> QED BY <2>1, <2>3, <2>4, RecursionExists
  <2>6. \A k \in 0 .. n : k # 0 => k \in 1 .. n /\ k - 1 \in 0 .. n
    BY <2>1
  <2>7. \A k \in 1 .. n, i \in S : g[k][i] = Goes(path, k, i)
    BY <2>2
  <2>8. \A k \in 0 .. n : k # 0 => g[k][h[k - 1]] = Goes(path, k, h[k - 1])
    <3> HIDE DEF S
    <3> QED BY <2>5, <2>6, <2>7
  <2>9. P(h)
    BY <2>1, <2>2, <2>5, <2>8 DEF Way, Recursion
  <2> HIDE DEF P, S
  <2> QED BY <2>1, <2>5, <2>9
<1>2. PICK at : at = CHOOSE f : P(f)
  OBVIOUS
<1>3. P(at)
  <2> HIDE DEF P
  <2> QED BY <1>1, <1>2
<1>4. resolve(path) = at[Len(path.comps)]
  BY <1>2 DEF resolve, Way, Goes, MoreAt, Start
<1>5. at \in [0 .. Len(path.comps) -> S]
  <2>1. PICK n \in Nat : n = Len(path.comps)
    OBVIOUS
  <2> DEFINE T == {k \in Nat : k <= n => at[k] \in S}
  <2>2. at = [k \in 0 .. n |-> IF k = 0 THEN Start(path) ELSE Goes(path, k, at[k - 1])]
    BY <1>3, <2>1 DEF Way
  <2>3. 0 \in T
    BY <2>2, Facts DEF Start
  <2>4. ASSUME NEW k \in Nat, k \in T PROVE k + 1 \in T
    <3> SUFFICES ASSUME k + 1 <= n PROVE at[k + 1] \in S
      OBVIOUS
    <3>1. at[k] \in S
      BY <2>4
    <3>2. at[k + 1] = Goes(path, k + 1, at[k])
      BY <2>2
    <3> QED BY <3>1, <3>2, GoesFacts
  <2>5. Nat \subseteq T
    <3> HIDE DEF T
    <3> QED BY <2>3, <2>4, InductionOnSet
  <2>6. \A k \in 0 .. n : at[k] \in S
    BY <2>5
  <2> HIDE DEF S
  <2> QED BY <2>1, <2>2, <2>6
<1> QED BY <1>3, <1>4, <1>5

-----------------------------------------------------------------------------
(* The paths of the nodes.                                                 *)

\* A recursive function that looks only at smaller arguments exists.
Climbs(h, p, nm, n) ==
  h = [i \in 0 .. n - 1 |-> IF p[i] < 0 THEN <<>> ELSE Append(h[p[i]], nm[i])]
LEMMA ClimbExists ==
  ASSUME NEW n \in Nat, NEW p \in [0 .. n - 1 -> Int], NEW nm, \A i \in 0 .. n - 1 : p[i] < i
  PROVE  \E h : Climbs(h, p, nm, n)
<1> DEFINE Is(h, m) ==
             /\ h = [i \in 0 .. m - 1 |-> h[i]]
             /\ \A i \in 0 .. m - 1 : h[i] = IF p[i] < 0 THEN <<>> ELSE Append(h[p[i]], nm[i])
           T == {m \in Nat : m <= n => \E h : Is(h, m)}
<1>1. 0 \in T
  <2>1. Is([i \in 0 .. 0 - 1 |-> <<>>], 0)
    OBVIOUS
  <2> QED BY <2>1
<1>2. ASSUME NEW m \in Nat, m \in T PROVE m + 1 \in T
  <2> SUFFICES ASSUME m + 1 <= n PROVE \E h : Is(h, m + 1)
    OBVIOUS
  <2>1. PICK h : Is(h, m)
    BY <1>2
  <2>2. PICK v : v = IF p[m] < 0 THEN <<>> ELSE Append(h[p[m]], nm[m])
    OBVIOUS
  <2>3. PICK l : l = [i \in 0 .. m |-> IF i = m THEN v ELSE h[i]]
    OBVIOUS
  <2>4. \A i \in 0 .. m : p[i] \in Int /\ p[i] < i
    OBVIOUS
  <2>5. \A i \in 0 .. m : p[i] >= 0 => p[i] \in 0 .. m - 1 /\ l[p[i]] = h[p[i]]
    BY <2>3, <2>4
  <2>6. ASSUME NEW i \in 0 .. m
        PROVE  l[i] = IF p[i] < 0 THEN <<>> ELSE Append(l[p[i]], nm[i])
    <3>1. CASE i = m
      BY <2>2, <2>3, <2>4, <2>5, <3>1
    <3>2. CASE i # m
      <4>1. i \in 0 .. m - 1 /\ l[i] = h[i]
        BY <2>3, <3>2
      <4>2. h[i] = IF p[i] < 0 THEN <<>> ELSE Append(h[p[i]], nm[i])
        BY <2>1, <4>1
      <4> QED BY <2>4, <2>5, <4>1, <4>2
    <3> QED BY <3>1, <3>2
  <2>7. (m + 1) - 1 = m
    OBVIOUS
  <2>8. l = [i \in 0 .. m |-> l[i]]
    BY <2>3
  <2>9. Is(l, m + 1)
    BY <2>6, <2>7, <2>8
  <2> HIDE DEF Is
  <2> QED BY <2>9
<1>3. Nat \subseteq T
  <2> HIDE DEF T
  <2> QED BY <1>1, <1>2, InductionOnSet
<1>4. PICK h : Is(h, n)
  <2> HIDE DEF Is
  <2> QED BY <1>3
<1>5. Climbs(h, p, nm, n)
  BY <1>4 DEF Climbs
<1> QED BY <1>5

\* fs_getcwd's climb, node by node.
LEMMA PathOfIs ==
  ASSUME RInv
  PROVE  /\ PathOf = [i \in Ids |-> IF nodes[i].parent < 0 THEN <<>>
                                    ELSE Append(PathOf[nodes[i].parent], nodes[i].name)]
         /\ PathOf[0] = <<>>
         /\ \A i \in Used : i # 0 => PathOf[i] = Append(PathOf[nodes[i].parent], nodes[i].name)
<1> DEFINE P(at) == at = [i \in Ids |-> IF nodes[i].parent < 0 THEN <<>>
                                        ELSE Append(at[nodes[i].parent], nodes[i].name)]
<1>1. \E at : P(at)
  <2>1. PICK p, nm : p = [i \in Ids |-> nodes[i].parent] /\ nm = [i \in Ids |-> nodes[i].name]
    OBVIOUS
  <2>2. \A i \in Ids : nodes[i].parent \in Int /\ nodes[i].parent < i
    <3> SUFFICES ASSUME NEW i \in Ids PROVE nodes[i].parent \in Int /\ nodes[i].parent < i
      OBVIOUS
    <3>0. i \in Nat
      BY Constants
    <3>1. CASE i = 0
      <4>1. nodes[0].parent = -1
        BY Facts
      <4>2. nodes[i].parent = -1
        BY <3>1, <4>1
      <4> QED BY <3>1, <4>2
    <3>2. CASE i \in Used /\ i # 0
      <4>1. Placed(i)
        BY <3>2, Facts
      <4>2. nodes[i].parent \in Ids /\ nodes[i].parent < i
        BY <4>1 DEF Placed
      <4> QED BY <4>2 DEF Ids
    <3>3. CASE i \notin Used
      <4>1. nodes[i] = Unused /\ Unused.parent = -1
        BY <3>3, Facts DEF Unused
      <4> QED BY <3>0, <4>1
    <3> QED BY <3>1, <3>2, <3>3
  <2>3. p \in [0 .. FsMax - 1 -> Int] /\ \A i \in 0 .. FsMax - 1 : p[i] < i
    BY <2>1, <2>2 DEF Ids
  <2>4. PICK h : Climbs(h, p, nm, FsMax)
    BY <2>3, Constants, ClimbExists
  <2>5. P(h)
    BY <2>1, <2>4 DEF Climbs, Ids
  <2> HIDE DEF P
  <2> QED BY <2>5
<1>2. PathOf = CHOOSE at : P(at)
  BY DEF PathOf
<1>3. P(PathOf)
  <2> HIDE DEF P
  <2> QED BY <1>1, <1>2
<1>4. PathOf[0] = <<>>
  <2>1. nodes[0].parent = -1 /\ 0 \in Ids
    BY Facts, Constants
  <2> QED BY <1>3, <2>1
<1>5. ASSUME NEW i \in Used, i # 0
      PROVE  PathOf[i] = Append(PathOf[nodes[i].parent], nodes[i].name)
  <2>1. nodes[i].parent \in Ids /\ ~(nodes[i].parent < 0) /\ i \in Ids
    BY <1>5, Facts, Constants DEF Placed
  <2> QED BY <1>3, <2>1
<1> QED BY <1>3, <1>4, <1>5

\* Facts about all used nodes, by induction: one follows from its parent.
LEMMA TreeInduction ==
  ASSUME RInv, NEW T, 0 \in T,
         \A i \in Used : i # 0 /\ nodes[i].parent \in T => i \in T
  PROVE  Used \subseteq T
<1> DEFINE U == {m \in Nat : \A i \in Used : i < m => i \in T}
<1>1. 0 \in U
  BY Facts
<1>2. ASSUME NEW m \in Nat, m \in U PROVE m + 1 \in U
  <2> SUFFICES ASSUME NEW i \in Used, i < m + 1 PROVE i \in T
    OBVIOUS
  <2>1. CASE i = 0
    BY <2>1
  <2>2. CASE i # 0
    <3>1. nodes[i].parent \in Used /\ nodes[i].parent < i /\ nodes[i].parent \in Nat /\ i \in Nat
      BY <2>2, Facts DEF Placed
    <3>2. nodes[i].parent \in T
      BY <1>2, <3>1
    <3> QED BY <2>2, <3>2
  <2> QED BY <2>1, <2>2
<1>3. Nat \subseteq U
  <2> HIDE DEF U
  <2> QED BY <1>1, <1>2, InductionOnSet
<1>4. \A i \in Used : i \in Nat /\ i + 1 \in U /\ i < i + 1
  BY <1>3, Facts
<1> QED BY <1>4

LEMMA PathsAreNames ==
  ASSUME RInv
  PROVE  \A i \in Used : PathOf[i] \in Seq(Names)
<1> DEFINE T == {i \in Used : PathOf[i] \in Seq(Names)}
<1>1. 0 \in T
  <2>1. PathOf[0] = <<>> /\ 0 \in Used
    BY PathOfIs, Facts
  <2>2. <<>> \in Seq(Names)
    OBVIOUS
  <2> QED BY <2>1, <2>2
<1>2. ASSUME NEW i \in Used, i # 0, nodes[i].parent \in T PROVE i \in T
  <2>1. PathOf[i] = Append(PathOf[nodes[i].parent], nodes[i].name) /\ nodes[i].name \in Names
    BY <1>2, PathOfIs, Facts DEF Placed
  <2>2. PathOf[i] \in Seq(Names)
    BY <1>2, <2>1, AppendProperties
  <2> QED BY <2>2
<1>3. Used \subseteq T
  <2> HIDE DEF T
  <2> QED BY <1>1, <1>2, TreeInduction
<1> QED BY <1>3

LEMMA AppendSame ==
  ASSUME NEW S, NEW s \in Seq(S), NEW t \in Seq(S), NEW x \in S, NEW y \in S
  PROVE  /\ Append(s, x) = Append(t, y) => s = t /\ x = y
         /\ Append(s, x) # <<>>
  OBVIOUS

\* Every node has a path of its own.
LEMMA PathsDiffer ==
  ASSUME RInv
  PROVE  \A i, j \in Used : PathOf[i] = PathOf[j] => i = j
<1> DEFINE T == {i \in Used : \A j \in Used : PathOf[i] = PathOf[j] => i = j}
           App(k) == /\ PathOf[k] = Append(PathOf[nodes[k].parent], nodes[k].name)
                     /\ nodes[k].name \in Names /\ nodes[k].parent \in Used
                     /\ PathOf[nodes[k].parent] \in Seq(Names)
<1>0. \A k \in Used : k # 0 => App(k)
  <2> SUFFICES ASSUME NEW k \in Used, k # 0 PROVE App(k)
    OBVIOUS
  <2>1. nodes[k].name \in Names /\ nodes[k].parent \in Used
    BY Facts DEF Placed
  <2> QED BY <2>1, PathOfIs, PathsAreNames
<1>1. 0 \in T
  <2> SUFFICES ASSUME NEW j \in Used, PathOf[0] = PathOf[j], j # 0 PROVE FALSE
    BY Facts
  <2>1. App(j)
    BY <1>0
  <2>2. Append(PathOf[nodes[j].parent], nodes[j].name) # <<>>
    BY <2>1, AppendSame
  <2> QED BY <2>1, <2>2, PathOfIs
<1>2. ASSUME NEW i \in Used, i # 0, nodes[i].parent \in T PROVE i \in T
  <2> SUFFICES ASSUME NEW j \in Used, PathOf[i] = PathOf[j] PROVE i = j
    OBVIOUS
  <2>1. App(i)
    BY <1>0, <1>2
  <2>2. CASE j = 0
    <3>1. Append(PathOf[nodes[i].parent], nodes[i].name) # <<>>
      BY <2>1, AppendSame
    <3> QED BY <2>1, <2>2, <3>1, PathOfIs
  <2>3. CASE j # 0
    <3>1. App(j)
      BY <1>0, <2>3
    <3>2. PathOf[nodes[i].parent] = PathOf[nodes[j].parent] /\ nodes[i].name = nodes[j].name
      <4>1. PICK s \in Seq(Names), x \in Names : s = PathOf[nodes[i].parent] /\ x = nodes[i].name
        BY <2>1
      <4>2. PICK t \in Seq(Names), y \in Names : t = PathOf[nodes[j].parent] /\ y = nodes[j].name
        BY <3>1
      <4>3. Append(s, x) = Append(t, y)
        BY <2>1, <3>1, <4>1, <4>2
      <4>4. s = t /\ x = y
        BY <4>3, AppendSame
      <4> QED BY <4>1, <4>2, <4>4
    <3>3. nodes[i].parent = nodes[j].parent
      BY <1>2, <3>1, <3>2
    <3> QED BY <3>2, <3>3 DEF RInv, Siblings
  <2> QED BY <2>2, <2>3
<1>3. Used \subseteq T
  <2> HIDE DEF T
  <2> QED BY <1>1, <1>2, TreeInduction
<1> QED BY <1>3

-----------------------------------------------------------------------------
(* The calls' paths.                                                       *)

LEMMA AppendFacts ==
  ASSUME NEW C, NEW s \in Seq(C), NEW e
  PROVE  /\ Append(s, e) \in Seq(C \cup {e}) /\ Len(Append(s, e)) \in Nat
         /\ Append(s, e) # <<>> /\ Append(s, e)[Len(Append(s, e))] = e
  OBVIOUS

LEMMA PathFacts ==
  ASSUME NEW path \in Paths
  PROVE  /\ path = [abs |-> path.abs, comps |-> path.comps]
         /\ path.abs \in BOOLEAN
         /\ path.comps \in Seq(Components \cup {""}) /\ Len(path.comps) \in Nat
         /\ \/ path.comps \in Seq(Components)
            \/ path.comps # <<>> /\ path.comps[Len(path.comps)] = ""
<1> DEFINE names == BoundedSeq(Components, Depth)
<1>1. names \subseteq Seq(Components)
  <2>1. \A m \in 0 .. Depth : [1 .. m -> Components] \subseteq Seq(Components)
    <3> SUFFICES ASSUME NEW m \in 0 .. Depth, NEW f \in [1 .. m -> Components]
                 PROVE  f \in Seq(Components)
      OBVIOUS
    <3>0. Depth \in Nat
      BY RamFsAssumption
    <3>1. m \in Nat
      BY <3>0
    <3>2. f \in UNION {[1 .. n -> Components] : n \in Nat}
      BY <3>1
    <3> QED BY <3>2, SeqDef
  <2> QED BY <2>1 DEF BoundedSeq, SeqOf
<1>2. path \in [abs : BOOLEAN, comps : names \cup {Append(s, "") : s \in names \ {<<>>}}]
  BY DEF Paths
<1> HIDE DEF names
<1>3. path = [abs |-> path.abs, comps |-> path.comps] /\ path.abs \in BOOLEAN
  BY <1>2
<1>4. PICK t : t = path.comps
  OBVIOUS
<1>5. t \in names \/ \E s \in names : t = Append(s, "")
  BY <1>2, <1>4
<1>6. CASE t \in names
  <2>1. t \in Seq(Components)
    BY <1>1, <1>6
  <2>2. t \in Seq(Components \cup {""}) /\ Len(t) \in Nat
    BY <2>1, SeqMonotonic, LenProperties
  <2> QED BY <1>3, <1>4, <2>1, <2>2
<1>7. CASE \E s \in names : t = Append(s, "")
  <2>1. PICK s : s \in Seq(Components) /\ t = Append(s, "")
    BY <1>1, <1>7
  <2>2. /\ t \in Seq(Components \cup {""}) /\ Len(t) \in Nat
        /\ t # <<>> /\ t[Len(t)] = ""
    BY <2>1, AppendFacts
  <2> QED BY <1>3, <1>4, <2>2
<1> QED BY <1>5, <1>6, <1>7

LEMMA ResolveFacts ==
  ASSUME RInv, NEW path, Len(path.comps) \in Nat
  PROVE  /\ resolve(path) \in Used \cup {-1}
         /\ resolve_dir(path) \in Used \cup {-1}
         /\ resolve_dir(path) # -1 => resolve_dir(path) = resolve(path) /\ IsDir(resolve_dir(path))
<1>1. resolve(path) \in Used \cup {-1}
  BY ResolveIs
<1> QED BY <1>1, Facts, Constants DEF resolve_dir

\* The path split_parent looks up.
Before(path) == [path EXCEPT !.comps = IF @ = <<>> THEN <<>> ELSE Front(@)]
LEMMA BeforeFacts ==
  ASSUME NEW path \in Paths
  PROVE  /\ Before(path).abs = path.abs /\ Len(Before(path).comps) \in Nat
         /\ path.comps = <<>> => Before(path).comps = <<>>
         /\ path.comps # <<>> =>
              /\ Len(Before(path).comps) = Len(path.comps) - 1
              /\ \A k \in 1 .. Len(path.comps) - 1 : Before(path).comps[k] = path.comps[k]
<1>1. PICK C, s, a : s \in Seq(C) /\ path = [abs |-> a, comps |-> s]
  <2>1. PICK C, s, a : s \in Seq(C) /\ s = path.comps /\ a = path.abs
    BY PathFacts, Zenon
  <2>2. path = [abs |-> a, comps |-> s]
    BY <2>1, PathFacts
  <2> QED BY <2>1, <2>2
<1>2. path.comps = s /\ path.abs = a
  BY <1>1
<1>3. Before(path) = [abs |-> a, comps |-> IF s = <<>> THEN <<>> ELSE Front(s)]
  BY <1>1 DEF Before
<1>4. CASE s = <<>>
  BY <1>2, <1>3, <1>4
<1>5. CASE s # <<>>
  <2>1. Len(s) \in Nat /\ Len(s) >= 1 /\ s \in Seq(C)
    BY <1>1, <1>5
  <2>2. \A k \in 1 .. Len(s) - 1 : s[k] \in C
    BY <2>1, ElementOfSeq
  <2>3. PICK n \in Int : n = Len(s) - 1 /\ n >= 0
    BY <2>1
  <2>4. /\ Len(SubSeq(s, 1, n)) = IF 1 <= n THEN n - 1 + 1 ELSE 0
        /\ \A k \in 1 .. n - 1 + 1 : SubSeq(s, 1, n)[k] = s[1 + k - 1]
    BY <2>2, <2>3, SubSeqProperties
  <2>5. Len(Front(s)) = Len(s) - 1 /\ \A k \in 1 .. Len(s) - 1 : Front(s)[k] = s[k]
    BY <2>3, <2>4 DEF Front
  <2> QED BY <1>2, <1>3, <1>5, <2>1, <2>5
<1> QED BY <1>4, <1>5

LEMMA ParentFacts ==
  ASSUME RInv, NEW path \in Paths
  PROVE  /\ ParentDir(path) \in Used \cup {-1}
         /\ ParentDir(path) # -1 => IsDir(ParentDir(path))
<1>1. ParentDir(path) = cwd \/ ParentDir(path) = resolve_dir(Before(path))
  BY DEF ParentDir, Before
<1>2. Len(Before(path).comps) \in Nat
  BY BeforeFacts
<1>3. resolve_dir(Before(path)) \in Used \cup {-1}
      /\ (resolve_dir(Before(path)) # -1 => IsDir(resolve_dir(Before(path))))
  BY <1>2, ResolveFacts
<1> QED BY <1>1, <1>3, Facts DEF IsDir

LEMMA LeafFacts ==
  ASSUME NEW path \in Paths, Leaf(path) \notin BadLeaves
  PROVE  /\ Leaf(path) \in Names
         /\ path.comps # <<>> /\ path.comps \in Seq(Components)
         /\ Leaf(path) = next_part(path.comps[Len(path.comps)])
<1>1. path.comps # <<>>
  BY DEF Leaf, BadLeaves
<1>2. PICK s : s = path.comps
  OBVIOUS
<1>3. Leaf(path) = next_part(s[Len(s)])
  BY <1>1, <1>2 DEF Leaf, Last
<1>4. s[Len(s)] # ""
  <2> SUFFICES ASSUME s[Len(s)] = "" PROVE FALSE
    OBVIOUS
  <2>1. Leaf(path) = ""
    BY <1>3, RamFsAssumption DEF next_part
  <2> QED BY <2>1 DEF BadLeaves
<1>5. s \in Seq(Components)
  BY <1>2, <1>4, PathFacts
<1>6. s[Len(s)] \in Components
  <2>1. PICK C : C = Components
    OBVIOUS
  <2>2. s \in Seq(C) /\ s # <<>>
    BY <1>1, <1>2, <1>5, <2>1
  <2>3. s[Len(s)] \in C
    BY <2>2
  <2> QED BY <2>1, <2>3
<1>7. Leaf(path) \in Names
  <2>1. CASE s[Len(s)] = LongName
    BY <2>1, <1>3, Constants DEF next_part
  <2>2. CASE s[Len(s)] # LongName
    BY <2>2, <1>3, <1>6 DEF next_part, Components, BadLeaves
  <2> QED BY <2>1, <2>2
<1> QED BY <1>1, <1>2, <1>3, <1>5, <1>7

-----------------------------------------------------------------------------
(* Steps. A call changes the RAM file system in one of three ways.         *)

LEMMA FreeFacts ==
  ASSUME RInv, free_slots # {}
  PROVE  /\ free_slot \in Ids /\ free_slot \notin Used
         /\ \A i \in Ids : i < free_slot => i \in Used
         /\ \A i \in Used : i < free_slot
<1>1. free_slots \subseteq Nat /\ free_slots \subseteq Ids
  BY Constants DEF free_slots
<1>2. free_slot \in free_slots /\ \A k \in free_slots : free_slot <= k
  BY <1>1, LeastOf DEF free_slot
<1>3. \A i \in Ids : i \in free_slots <=> i \notin Used
  BY DEF free_slots, Used
<1>4. free_slot \in Ids /\ free_slot \notin Used
  BY <1>1, <1>2, <1>3
<1>5. ASSUME NEW i \in Ids, i < free_slot PROVE i \in Used
  <2>1. i \in Nat /\ free_slot \in Nat
    BY <1>4, Constants
  <2> QED BY <1>2, <1>3, <1>5, <2>1
<1>6. ASSUME NEW i \in Used PROVE i < free_slot
  <2>1. i \in Nat /\ free_slot \in Nat /\ i # free_slot
    BY <1>4, Facts, Constants
  <2>2. ~(free_slot < i)
    BY <1>4 DEF RInv, Shape, Used
  <2> QED BY <2>1, <2>2
<1> QED BY <1>4, <1>5, <1>6

\* A new node in a directory that has none of that name.
Grows(dir, leaf, data) ==
  /\ dir \in Used /\ IsDir(dir) /\ leaf \in Names /\ data \in Contents \cup {Dir}
  /\ \A i \in Used : ~Kid(i, dir, leaf)
  /\ free_slots # {}
  /\ NewNode(dir, leaf, data) /\ UNCHANGED cwd
\* New data in a file.
Rewrites(kid, data) ==
  /\ kid \in Used /\ ~IsDir(kid) /\ data \in Contents
  /\ nodes' = [nodes EXCEPT ![kid].data = data] /\ UNCHANGED cwd
Moves(dir) == dir \in Used /\ IsDir(dir) /\ cwd' = dir /\ UNCHANGED nodes

\* A new node under dir is what remains of the call.
LEMMA MkdirIs ==
  ASSUME RInv, NEW path \in Paths, fs_mkdir(path)
  PROVE  /\ Unmoved
         /\ \/ UNCHANGED ram /\ (~mounted => ret' # "OK")
            \/ ~mounted /\ Leaf(path) \notin BadLeaves /\ Grows(ParentDir(path), Leaf(path), Dir)
<1>1. PICK dir, leaf : dir = ParentDir(path) /\ leaf = Leaf(path)
  OBVIOUS
<1>2. /\ IF ReadOnly THEN Fails("RO")
         ELSE IF IsEmpty(path) THEN Fails("USAGE")
         ELSE IF dir < 0 THEN Fails("BADPATH")
         ELSE IF leaf \in BadLeaves THEN Fails("BADNAME")
         ELSE IF Exists(dir, leaf) THEN Fails("EXISTS")
         ELSE IF free_slots = {} THEN Fails("FULL")
         ELSE NewNode(dir, leaf, Dir) /\ ret' = "OK" /\ UNCHANGED cwd
      /\ Unmoved
  BY <1>1 DEF fs_mkdir
<1>3. \A r : Fails(r) /\ r # "OK" => UNCHANGED ram /\ ret' # "OK"
  BY DEF Fails
<1>4. CASE ReadOnly \/ IsEmpty(path) \/ dir < 0 \/ leaf \in BadLeaves \/ Exists(dir, leaf) \/ free_slots = {}
  <2>1. UNCHANGED ram /\ ret' # "OK"
    BY <1>2, <1>3, <1>4
  <2> QED BY <1>2, <2>1
<1>5. CASE ~(ReadOnly \/ IsEmpty(path) \/ dir < 0 \/ leaf \in BadLeaves \/ Exists(dir, leaf) \/ free_slots = {})
  <2>1. NewNode(dir, leaf, Dir) /\ UNCHANGED cwd /\ free_slots # {}
    BY <1>2, <1>5
  <2>2. dir \in Used /\ IsDir(dir)
    BY <1>1, <1>5, ParentFacts
  <2>3. leaf \in Names
    BY <1>1, <1>5, LeafFacts
  <2>4. \A i \in Used : ~Kid(i, dir, leaf)
    <3>1. ~(find_kid(dir, leaf) >= 0)
      BY <1>5 DEF Exists
    <3>2. find_kid(dir, leaf) \notin Used
      BY <3>1, Facts
    <3> QED BY <3>2, KidFacts
  <2> QED BY <1>1, <1>2, <1>5, <2>1, <2>2, <2>3, <2>4 DEF Grows, ReadOnly
<1> QED BY <1>4, <1>5

LEMMA FwriteIs ==
  ASSUME RInv, NEW path \in Paths, NEW data \in Contents \cup {TooLong}, fs_fwrite(path, data)
  PROVE  /\ Unmoved
         /\ \/ UNCHANGED ram /\ (~mounted => ret' # "OK")
            \/ /\ ~mounted /\ Leaf(path) \notin BadLeaves
               /\ ParentDir(path) \in Used /\ Leaf(path) \in Names /\ data \in Contents
               /\ \/ Grows(ParentDir(path), Leaf(path), data)
                  \/ \E kid : Kid(kid, ParentDir(path), Leaf(path)) /\ Rewrites(kid, data)
<1>1. PICK dir, leaf, kid : dir = ParentDir(path) /\ leaf = Leaf(path) /\ kid = find_kid(dir, leaf)
  OBVIOUS
<1> DEFINE Writes == IF kid < 0 THEN NewNode(dir, leaf, data)
                     ELSE nodes' = [nodes EXCEPT ![kid].data = data]
<1>2. /\ IF mounted THEN fat_call
         ELSE IF IsEmpty(path) THEN Fails("BADPATH")
         ELSE IF data = TooLong THEN Fails("FULL")
         ELSE IF dir < 0 THEN Fails("BADPATH")
         ELSE IF leaf \in BadLeaves THEN Fails("BADNAME")
         ELSE IF kid >= 0 /\ IsDir(kid) THEN Fails("BADPATH")
         ELSE IF kid < 0 /\ free_slots = {} THEN Fails("FULL")
         ELSE Writes /\ ret' = "OK" /\ UNCHANGED cwd
      /\ Unmoved
  BY <1>1 DEF fs_fwrite
<1> HIDE DEF Writes
<1>3. \A r : Fails(r) /\ r # "OK" => UNCHANGED ram /\ ret' # "OK"
  BY DEF Fails
<1>4. CASE mounted
  BY <1>2, <1>4 DEF fat_call
<1> DEFINE Refused == \/ IsEmpty(path) \/ data = TooLong \/ dir < 0 \/ leaf \in BadLeaves
                      \/ (kid >= 0 /\ IsDir(kid)) \/ (kid < 0 /\ free_slots = {})
<1>5. CASE ~mounted /\ Refused
  <2>1. UNCHANGED ram /\ ret' # "OK"
    BY <1>2, <1>3, <1>5
  <2> QED BY <1>2, <2>1
<1>6. CASE ~mounted /\ ~Refused
  <2>1. Writes /\ UNCHANGED cwd /\ data \in Contents
    BY <1>2, <1>6
  <2>2. dir \in Used /\ IsDir(dir)
    BY <1>1, <1>6, ParentFacts
  <2>3. leaf \in Names
    BY <1>1, <1>6, LeafFacts
  <2>4. CASE kid < 0
    <3>1. kid \notin Used
      BY <2>4, Facts
    <3>2. \A i \in Used : ~Kid(i, dir, leaf)
      BY <1>1, <3>1, KidFacts
    <3>3. free_slots # {} /\ NewNode(dir, leaf, data)
      BY <1>6, <2>1, <2>4 DEF Writes
    <3>4. Grows(dir, leaf, data)
      BY <2>1, <2>2, <2>3, <3>2, <3>3 DEF Grows
    <3> QED BY <1>1, <1>2, <1>6, <2>1, <2>2, <2>3, <3>4
  <2>5. CASE ~(kid < 0)
    <3>1. kid \in Used /\ Kid(kid, dir, leaf)
      BY <1>1, <2>5, KidFacts
    <3>2. ~IsDir(kid)
      BY <1>6, <3>1, Facts, Constants
    <3>3. Rewrites(kid, data)
      BY <2>1, <2>5, <3>1, <3>2 DEF Rewrites, Writes
    <3> QED BY <1>1, <1>2, <1>6, <2>1, <2>2, <2>3, <3>1, <3>3
  <2> QED BY <2>4, <2>5
<1> QED BY <1>4, <1>5, <1>6

LEMMA ChdirIs ==
  ASSUME RInv, NEW path \in Paths, fs_chdir(path)
  PROVE  Unmoved /\ (UNCHANGED ram \/ (~mounted /\ \E dir : Moves(dir)))
<1>1. CASE mounted
  BY <1>1 DEF fs_chdir, fat_call
<1>2. CASE ~mounted /\ IsEmpty(path)
  <2>1. cwd' = 0 /\ UNCHANGED nodes /\ Unmoved
    BY <1>2 DEF fs_chdir
  <2>2. Moves(0)
    BY <2>1, Facts DEF Moves, IsDir
  <2> QED BY <1>2, <2>1, <2>2
<1>3. CASE ~mounted /\ ~IsEmpty(path) /\ resolve_dir(path) < 0
  BY <1>3 DEF fs_chdir, Fails
<1>4. CASE ~mounted /\ ~IsEmpty(path) /\ ~(resolve_dir(path) < 0)
  <2>1. cwd' = resolve_dir(path) /\ UNCHANGED nodes /\ Unmoved
    BY <1>4 DEF fs_chdir
  <2>2. resolve_dir(path) \in Used /\ IsDir(resolve_dir(path))
    <3>1. Len(path.comps) \in Nat
      BY PathFacts
    <3>2. resolve_dir(path) # -1
      BY <1>4
    <3> QED BY <3>1, <3>2, ResolveFacts
  <2>3. Moves(resolve_dir(path))
    BY <2>1, <2>2 DEF Moves
  <2> QED BY <1>4, <2>1, <2>3
<1> QED BY <1>1, <1>2, <1>3, <1>4

LEMMA GrowsFacts ==
  ASSUME RInv, NEW dir, NEW leaf, NEW data, Grows(dir, leaf, data)
  PROVE  \E f \in Ids \ Used :
           /\ f \in Nat /\ dir \in Ids /\ dir < f
           /\ (\A i \in Ids : i < f => i \in Used) /\ (\A i \in Used : i < f)
           /\ nodes' \in Nodes /\ cwd' = cwd
           /\ \A i \in Ids : i # f => nodes'[i] = nodes[i]
           /\ nodes'[f].used /\ nodes'[f].parent = dir
           /\ nodes'[f].name = leaf /\ nodes'[f].data = data
           /\ Used' = Used \cup {f}
<1>1. PICK f : f = free_slot
  OBVIOUS
<1>2. /\ f \in Ids /\ f \notin Used /\ f \in Nat
      /\ (\A i \in Ids : i < f => i \in Used) /\ (\A i \in Used : i < f)
  BY <1>1, FreeFacts, Constants DEF Grows
<1>3. PICK n : n = [used |-> TRUE, name |-> leaf, parent |-> dir, data |-> data]
  OBVIOUS
<1>4. nodes' = [nodes EXCEPT ![f] = n] /\ cwd' = cwd
  BY <1>1, <1>3 DEF Grows, NewNode
<1>5. nodes \in Nodes /\ dir \in Used /\ dir \in Ids
  BY Facts DEF Grows
<1>6. n \in [used : BOOLEAN, name : Names \cup {""}, parent : Ids \cup {-1}, data : Contents \cup {Dir}]
  BY <1>3, <1>5 DEF Grows
<1>7. nodes' \in Nodes
  BY <1>4, <1>5, <1>6 DEF Nodes
<1>8. \A i \in Ids : i # f => nodes'[i] = nodes[i]
  BY <1>4, <1>5 DEF Nodes
<1>9. nodes'[f] = n
  BY <1>2, <1>4, <1>5 DEF Nodes
<1>10. nodes'[f].used /\ nodes'[f].parent = dir /\ nodes'[f].name = leaf /\ nodes'[f].data = data
  BY <1>3, <1>9
<1>11. \A i \in Ids : nodes'[i].used <=> i \in Used \cup {f}
  BY <1>8, <1>10 DEF Used
<1>12. Used' = {i \in Ids : nodes'[i].used}
  BY DEF Used
<1>13. Used' = Used \cup {f}
  BY <1>2, <1>11, <1>12 DEF Used
<1> QED BY <1>2, <1>4, <1>5, <1>7, <1>8, <1>10, <1>13

LEMMA RewritesFacts ==
  ASSUME RInv, NEW kid, NEW data, Rewrites(kid, data)
  PROVE  /\ nodes' \in Nodes /\ cwd' = cwd /\ Used' = Used /\ kid # 0
         /\ \A i \in Ids : nodes'[i].used = nodes[i].used /\ nodes'[i].parent = nodes[i].parent
                           /\ nodes'[i].name = nodes[i].name
         /\ \A i \in Ids : i # kid => nodes'[i] = nodes[i]
         /\ nodes'[kid].data = data /\ data # Dir
<1>1. nodes \in Nodes /\ kid \in Ids /\ kid \in Used /\ kid # 0
  BY Facts DEF Rewrites, IsDir
<1>2. nodes' = [nodes EXCEPT ![kid].data = data] /\ cwd' = cwd /\ data \in Contents
  BY DEF Rewrites
<1>3. nodes' \in Nodes
  BY <1>1, <1>2 DEF Nodes
<1>4. \A i \in Ids : i # kid => nodes'[i] = nodes[i]
  BY <1>1, <1>2 DEF Nodes
<1>5. /\ nodes'[kid].data = data /\ nodes'[kid].used = nodes[kid].used
      /\ nodes'[kid].parent = nodes[kid].parent /\ nodes'[kid].name = nodes[kid].name
  BY <1>1, <1>2 DEF Nodes
<1>6. \A i \in Ids : nodes'[i].used = nodes[i].used /\ nodes'[i].parent = nodes[i].parent
                     /\ nodes'[i].name = nodes[i].name
  BY <1>4, <1>5
<1>7. Used' = {i \in Ids : nodes'[i].used}
  BY DEF Used
<1>8. Used' = Used
  BY <1>6, <1>7 DEF Used
<1> QED BY <1>1, <1>2, <1>3, <1>4, <1>5, <1>6, <1>8, Constants

LEMMA MountFrame ==
  ASSUME RInv, Unmoved, nodes' \in Nodes, cwd' \in Ids
  PROVE  MountAgrees'
  BY DEF RInv, MountAgrees, TypeOK, Unmoved, fatvars, Nodes

LEMMA GrowsInv ==
  ASSUME RInv, Unmoved, NEW dir, NEW leaf, NEW data, Grows(dir, leaf, data)
  PROVE  RInv'
<1>1. PICK f \in Ids \ Used :
           /\ f \in Nat /\ dir \in Ids /\ dir < f
           /\ (\A i \in Ids : i < f => i \in Used) /\ (\A i \in Used : i < f)
           /\ nodes' \in Nodes /\ cwd' = cwd
           /\ \A i \in Ids : i # f => nodes'[i] = nodes[i]
           /\ nodes'[f].used /\ nodes'[f].parent = dir
           /\ nodes'[f].name = leaf /\ nodes'[f].data = data
           /\ Used' = Used \cup {f}
  BY GrowsFacts
<1>2. MountAgrees'
  BY <1>1, Facts, MountFrame
<1>3. dir \in Used /\ IsDir(dir) /\ leaf \in Names /\ (\A i \in Used : ~Kid(i, dir, leaf))
  BY DEF Grows
<1>4. Shape'
  <2>1. nodes'[0] = Root
    BY <1>1, Facts, Constants DEF RInv, Shape
  <2>2. ASSUME NEW i \in Used', i # 0 PROVE Placed(i)'
    <3>1. CASE i = f
      <4>1. nodes'[dir] = nodes[dir] /\ nodes[dir].used /\ nodes[dir].data = Dir
        BY <1>1, <1>3, Facts DEF IsDir
      <4> QED BY <1>1, <1>3, <3>1, <4>1 DEF Placed
    <3>2. CASE i # f
      <4>1. i \in Used /\ i \in Ids
        BY <1>1, <2>2, <3>2, Facts
      <4>2. Placed(i) /\ nodes[i].parent \in Used
        BY <2>2, <4>1, Facts
      <4>3. nodes'[i] = nodes[i] /\ nodes'[nodes[i].parent] = nodes[nodes[i].parent]
        BY <1>1, <3>2, <4>1, <4>2, Facts
      <4> QED BY <4>2, <4>3 DEF Placed
    <3> QED BY <3>1, <3>2
  <2>3. \A i \in Ids : ~nodes'[i].used => nodes'[i] = Unused
    BY <1>1 DEF RInv, Shape
  <2>4. ASSUME NEW i \in Used', NEW j \in Ids, j < i PROVE nodes'[j].used
    <3>0. j \in Nat /\ i \in Nat /\ f \in Nat /\ (i = f \/ i < f)
      BY <1>1, <2>4, Facts, Constants
    <3>1. j < f
      BY <2>4, <3>0
    <3>2. j \in Used /\ j # f
      BY <1>1, <3>1
    <3> QED BY <1>1, <3>2, Facts
  <2> QED BY <2>1, <2>2, <2>3, <2>4 DEF Shape
<1>5. Siblings'
  <2> SUFFICES ASSUME NEW i \in Used', NEW j \in Used', nodes'[i].parent = nodes'[j].parent,
                      nodes'[i].name = nodes'[j].name, i # j
               PROVE  FALSE
    BY DEF Siblings
  <2>1. \A k \in Used' : k # f => k \in Used /\ nodes'[k] = nodes[k]
    BY <1>1, Facts
  <2>2. \A k \in Used' : k # f => ~(nodes'[k].parent = dir /\ nodes'[k].name = leaf)
    BY <1>3, <2>1 DEF Kid
  <2>3. i # f /\ j # f
    BY <1>1, <2>2
  <2>4. i \in Used /\ j \in Used /\ nodes[i].parent = nodes[j].parent /\ nodes[i].name = nodes[j].name
    BY <2>1, <2>3
  <2> QED BY <2>4 DEF RInv, Siblings
<1>6. Home'
  <2>1. cwd' \in Used' /\ nodes'[cwd'] = nodes[cwd]
    BY <1>1, Facts
  <2> QED BY <2>1, Facts DEF Home
<1> QED BY <1>2, <1>4, <1>5, <1>6 DEF RInv

LEMMA RewritesInv ==
  ASSUME RInv, Unmoved, NEW kid, NEW data, Rewrites(kid, data)
  PROVE  RInv'
<1>1. /\ nodes' \in Nodes /\ cwd' = cwd /\ Used' = Used /\ kid # 0
      /\ \A i \in Ids : nodes'[i].used = nodes[i].used /\ nodes'[i].parent = nodes[i].parent
                        /\ nodes'[i].name = nodes[i].name
      /\ \A i \in Ids : i # kid => nodes'[i] = nodes[i]
  BY RewritesFacts
<1>2. kid \in Used /\ nodes[kid].data # Dir
  BY DEF Rewrites, IsDir
<1>3. MountAgrees'
  BY <1>1, Facts, MountFrame
<1>4. Shape'
  <2>1. nodes'[0] = Root
    BY <1>1, Constants DEF RInv, Shape
  <2>2. ASSUME NEW i \in Used', i # 0 PROVE Placed(i)'
    <3>1. i \in Used /\ i \in Ids /\ Placed(i) /\ nodes[i].parent \in Used
      BY <1>1, <2>2, Facts
    <3>2. nodes[i].parent # kid /\ nodes[i].parent \in Ids
      BY <1>2, <3>1 DEF Placed
    <3>3. nodes'[nodes[i].parent] = nodes[nodes[i].parent]
      BY <1>1, <3>2
    <3> QED BY <1>1, <3>1, <3>3 DEF Placed
  <2>3. \A i \in Ids : ~nodes'[i].used => nodes'[i] = Unused
    BY <1>1, <1>2, Facts DEF RInv, Shape
  <2>4. \A i \in Used', j \in Ids : j < i => nodes'[j].used
    BY <1>1 DEF RInv, Shape
  <2> QED BY <2>1, <2>2, <2>3, <2>4 DEF Shape
<1>5. Siblings'
  <2>1. \A i \in Used : i \in Ids
    BY Facts
  <2> QED BY <1>1, <2>1 DEF RInv, Siblings
<1>6. Home'
  <2>1. cwd' \in Used' /\ nodes'[cwd'] = nodes[cwd]
    BY <1>1, <1>2, Facts
  <2> QED BY <2>1, Facts DEF Home
<1> QED BY <1>3, <1>4, <1>5, <1>6 DEF RInv

LEMMA MovesInv ==
  ASSUME RInv, Unmoved, NEW dir, Moves(dir)
  PROVE  RInv'
<1>1. dir \in Used /\ dir \in Ids /\ nodes[dir].data = Dir /\ cwd' = dir /\ nodes' = nodes
  BY Facts DEF Moves, IsDir
<1>2. MountAgrees'
  BY <1>1, Facts, MountFrame
<1>3. Shape' /\ Siblings'
  BY <1>1 DEF RInv, Shape, Siblings, Used, Placed
<1>4. Home'
  BY <1>1 DEF Home, Used
<1> QED BY <1>2, <1>3, <1>4 DEF RInv

LEMMA RamFrame ==
  ASSUME RInv, UNCHANGED ram
  PROVE  (Shape /\ Siblings /\ Home)' /\ nodes' \in Nodes /\ cwd' \in Ids
<1>1. nodes' = nodes /\ cwd' = cwd
  BY DEF ram
<1> QED BY <1>1, Facts DEF RInv, Shape, Siblings, Home, Used, Placed

LEMMA MountInv ==
  ASSUME RInv, NEW idx \in 0 .. PartMax + 1, fs_mount_part(idx)
  PROVE  RInv' /\ UNCHANGED ram
<1>1. UNCHANGED ram /\ parts' = parts
  BY DEF fs_mount_part
<1>2. (Shape /\ Siblings /\ Home)' /\ nodes' \in Nodes /\ cwd' \in Ids
  BY <1>1, RamFrame
<1>3. idx # NoPart
  BY DEF PartMax, NoPart
<1>4. CASE idx \in DOMAIN parts /\ Mounts(idx)
  <2>1. parts[idx] # "unreadable" /\ parts[idx] # "odd"
    BY <1>4 DEF Mounts
  <2>2. fat_mount(idx) /\ mounted' = TRUE /\ mounted_idx' = idx
    BY <1>4 DEF fs_mount_part
  <2>3. is_mounted' = TRUE /\ geometry' = idx /\ volume' = idx
    BY <2>1, <2>2 DEF fat_mount
  <2>4. TypeOK'
    BY <1>1, <1>2, <1>4, <2>2, <2>3 DEF TypeOK, Nodes
  <2> QED BY <1>1, <1>2, <1>3, <2>2, <2>3, <2>4 DEF RInv, MountAgrees
<1>5. CASE ~(idx \in DOMAIN parts /\ Mounts(idx))
  <2>1. UNCHANGED <<mounted, mounted_idx>>
    BY <1>5 DEF fs_mount_part
  <2>2. UNCHANGED <<is_mounted, volume>> /\ (geometry' = geometry \/ (geometry' = idx /\ idx \in DOMAIN parts))
    BY <1>5 DEF fs_mount_part, fat_mount, Mounts, fatvars
  <2>3. TypeOK'
    BY <1>1, <1>2, <2>1, <2>2 DEF RInv, MountAgrees, TypeOK, Nodes
  <2> QED BY <1>1, <1>2, <2>1, <2>2, <2>3 DEF RInv, MountAgrees
<1> QED BY <1>4, <1>5

LEMMA UnmountInv ==
  ASSUME RInv, fs_unmount
  PROVE  RInv' /\ UNCHANGED ram
<1>1. UNCHANGED ram
  BY DEF fs_unmount
<1>2. (Shape /\ Siblings /\ Home)' /\ nodes' \in Nodes /\ cwd' \in Ids
  BY <1>1, RamFrame
<1>3. TypeOK'
  BY <1>2 DEF RInv, MountAgrees, TypeOK, Nodes, fs_unmount
<1>4. MountAgrees'
  BY <1>3 DEF MountAgrees, fs_unmount
<1> QED BY <1>1, <1>2, <1>4 DEF RInv

-----------------------------------------------------------------------------
(* The invariant, the mounts, and what the mounted time leaves alone.      *)

LEMMA RamInit ==
  ASSUME Init
  PROVE  RInv
<1>1. /\ nodes = [i \in Ids |-> IF i = 0 THEN [Unused EXCEPT !.used = TRUE] ELSE Unused]
      /\ cwd = 0 /\ mounted = FALSE /\ mounted_idx = NoPart
      /\ is_mounted = FALSE /\ geometry = NoPart /\ volume = NoPart
  BY DEF Init
<1>2. [Unused EXCEPT !.used = TRUE] = Root
  BY DEF Root
<1>3. nodes = [i \in Ids |-> IF i = 0 THEN Root ELSE Unused]
  BY <1>1, <1>2
<1>4. Root.used = TRUE /\ Root.data = Dir /\ Unused.used = FALSE
  BY DEF Root, Unused
<1>5. /\ Root \in [used : BOOLEAN, name : Names \cup {""}, parent : Ids \cup {-1}, data : Contents \cup {Dir}]
      /\ Unused \in [used : BOOLEAN, name : Names \cup {""}, parent : Ids \cup {-1}, data : Contents \cup {Dir}]
  BY DEF Root, Unused
<1>6. nodes \in Nodes
  BY <1>3, <1>5 DEF Nodes
<1>7. nodes[0] = Root /\ \A i \in Ids : i # 0 => nodes[i] = Unused
  BY <1>3, Constants
<1>8. Used = {0}
  BY <1>4, <1>7, Constants DEF Used
<1>9. Shape
  <2>1. \A i \in Ids : ~nodes[i].used => nodes[i] = Unused
    BY <1>4, <1>7
  <2>2. \A i \in Used, j \in Ids : j < i => nodes[j].used
    BY <1>8, Constants
  <2> QED BY <1>7, <1>8, <2>1, <2>2 DEF Shape
<1>10. Siblings /\ Home
  BY <1>1, <1>4, <1>7, <1>8 DEF Siblings, Home
<1>11. TypeOK
  BY <1>1, <1>6, Constants DEF TypeOK, Nodes
<1> QED BY <1>1, <1>9, <1>10, <1>11 DEF RInv, MountAgrees

\* What a step does to the nodes and the working directory.
Works ==
  \/ \E dir, leaf, data : Grows(dir, leaf, data)
  \/ \E kid, data : Rewrites(kid, data)
  \/ \E dir : Moves(dir)

LEMMA RamStep ==
  ASSUME RInv, [Next]_vars
  PROVE  RInv' /\ (UNCHANGED ram \/ (~mounted /\ Works))
<1>0. ASSUME UNCHANGED ram, Unmoved PROVE RInv'
  BY <1>0, RamFrame, MountFrame DEF RInv
<1>1. CASE UNCHANGED vars
  BY <1>0, <1>1 DEF vars, Unmoved
<1>2. ASSUME NEW path \in Paths, fs_mkdir(path) PROVE RInv' /\ (UNCHANGED ram \/ (~mounted /\ Works))
  <2>1. CASE UNCHANGED ram
    BY <1>0, <1>2, <2>1, MkdirIs
  <2>2. CASE ~mounted /\ Grows(ParentDir(path), Leaf(path), Dir)
    BY <1>2, <2>2, MkdirIs, GrowsInv DEF Works
  <2> QED BY <1>2, <2>1, <2>2, MkdirIs
<1>3. ASSUME NEW path \in Paths, NEW data \in Contents \cup {TooLong}, fs_fwrite(path, data)
      PROVE  RInv' /\ (UNCHANGED ram \/ (~mounted /\ Works))
  <2>0. Unmoved
    BY <1>3, FwriteIs
  <2>1. CASE UNCHANGED ram
    BY <1>0, <2>0, <2>1
  <2>2. CASE ~mounted /\ Grows(ParentDir(path), Leaf(path), data)
    BY <2>0, <2>2, GrowsInv DEF Works
  <2>3. CASE ~mounted /\ \E kid : Rewrites(kid, data)
    BY <2>0, <2>3, RewritesInv DEF Works
  <2> QED BY <1>3, <2>1, <2>2, <2>3, FwriteIs
<1>4. ASSUME NEW path \in Paths, fs_chdir(path) PROVE RInv' /\ (UNCHANGED ram \/ (~mounted /\ Works))
  <2>0. Unmoved
    BY <1>4, ChdirIs
  <2>1. CASE UNCHANGED ram
    BY <1>0, <2>0, <2>1
  <2>2. CASE ~mounted /\ \E dir : Moves(dir)
    BY <2>0, <2>2, MovesInv DEF Works
  <2> QED BY <1>4, <2>1, <2>2, ChdirIs
<1>5. ASSUME NEW idx \in 0 .. PartMax + 1, fs_mount_part(idx) PROVE RInv' /\ UNCHANGED ram
  BY <1>5, MountInv
<1>6. CASE fs_unmount
  BY <1>6, UnmountInv
<1> QED BY <1>1, <1>2, <1>3, <1>4, <1>5, <1>6 DEF Next

\* The inductive invariant: the nodes in use are the first ones and form one
\* tree, in which every node but the root has a name, a directory before it as
\* its parent and no namesake beside it, and the working directory is in it.
THEOREM RamInductive == Spec => []RInv
<1>1. Init => RInv
  BY RamInit
<1>2. RInv /\ [Next]_vars => RInv'
  BY RamStep
<1> QED BY <1>1, <1>2, PTL DEF Spec

\* The two mount flags and the index of the partition always agree, and the
\* data area the file calls use is that of the partition listed as mounted,
\* whichever mounts fail in between.
THEOREM MountsAlwaysAgree == Spec => []MountAgrees
<1>1. RInv => MountAgrees
  BY DEF RInv
<1> QED BY <1>1, RamInductive, PTL

\* No call made while a partition is mounted changes a node of the RAM file
\* system or its working directory.
THEOREM RamIsKept == Spec => RamKept
<1>1. RInv /\ [Next]_vars => [mounted => UNCHANGED ram]_vars
  BY RamStep
<1> QED BY <1>1, RamInductive, PTL DEF Spec, RamKept

-----------------------------------------------------------------------------
(* Every node's path leads to it.                                          *)

LEMMA DepthFacts ==
  ASSUME RInv
  PROVE  /\ Len(PathOf[0]) = 0
         /\ \A i \in Used :
              /\ Len(PathOf[i]) \in Nat
              /\ \A m \in 1 .. Len(PathOf[i]) : PathOf[i][m] \in Names
         /\ \A i \in Used : i # 0 =>
              /\ nodes[i].parent \in Used
              /\ Len(PathOf[i]) = Len(PathOf[nodes[i].parent]) + 1
              /\ \A m \in 1 .. Len(PathOf[nodes[i].parent]) : PathOf[i][m] = PathOf[nodes[i].parent][m]
              /\ PathOf[i][Len(PathOf[i])] = nodes[i].name
<1>1. Len(PathOf[0]) = 0
  BY PathOfIs
<1>2. ASSUME NEW i \in Used
      PROVE  Len(PathOf[i]) \in Nat /\ \A m \in 1 .. Len(PathOf[i]) : PathOf[i][m] \in Names
  BY PathsAreNames, LenProperties, ElementOfSeq
<1>3. ASSUME NEW i \in Used, i # 0
      PROVE  /\ nodes[i].parent \in Used
             /\ Len(PathOf[i]) = Len(PathOf[nodes[i].parent]) + 1
             /\ \A m \in 1 .. Len(PathOf[nodes[i].parent]) : PathOf[i][m] = PathOf[nodes[i].parent][m]
             /\ PathOf[i][Len(PathOf[i])] = nodes[i].name
  <2>1. nodes[i].parent \in Used /\ nodes[i].name \in Names
    BY <1>3, Facts DEF Placed
  <2>2. PICK s \in Seq(Names), x \in Names : s = PathOf[nodes[i].parent] /\ x = nodes[i].name
    BY <2>1, PathsAreNames
  <2>3. PathOf[i] = Append(s, x)
    BY <1>3, <2>2, PathOfIs
  <2>4. /\ Len(Append(s, x)) = Len(s) + 1
        /\ \A m \in 1 .. Len(s) : Append(s, x)[m] = s[m]
        /\ Append(s, x)[Len(Append(s, x))] = x
    OBVIOUS
  <2> QED BY <2>1, <2>2, <2>3, <2>4
<1> QED BY <1>1, <1>2, <1>3

\* j's path is the first k names of i's.
Ancestor(j, i, k) ==
  j \in Used /\ Len(PathOf[j]) = k /\ \A m \in 1 .. k : PathOf[j][m] = PathOf[i][m]

LEMMA AncestorUnique ==
  ASSUME RInv, NEW i, NEW j, NEW l, NEW k, Ancestor(j, i, k), Ancestor(l, i, k)
  PROVE  j = l
<1>1. PathOf[j] \in Seq(Names) /\ PathOf[l] \in Seq(Names) /\ j \in Used /\ l \in Used
  BY PathsAreNames DEF Ancestor
<1>2. Len(PathOf[j]) = Len(PathOf[l]) /\ \A m \in 1 .. Len(PathOf[j]) : PathOf[j][m] = PathOf[l][m]
  BY DEF Ancestor
<1>3. PathOf[j] = PathOf[l]
  BY <1>1, <1>2, SeqEqual
<1> QED BY <1>1, <1>3, PathsDiffer

LEMMA AncestorExists ==
  ASSUME RInv
  PROVE  \A i \in Used : \A k \in 0 .. Len(PathOf[i]) : \E j : Ancestor(j, i, k)
<1> DEFINE T == {i \in Used : \A k \in 0 .. Len(PathOf[i]) : \E j : Ancestor(j, i, k)}
<1>1. \A i \in Used : Ancestor(i, i, Len(PathOf[i]))
  BY DEF Ancestor
<1>2. 0 \in T
  <2>1. 0 \in Used /\ Len(PathOf[0]) = 0
    BY Facts, DepthFacts
  <2>2. Ancestor(0, 0, 0)
    BY <1>1, <2>1
  <2> QED BY <2>1, <2>2
<1>3. ASSUME NEW i \in Used, i # 0, nodes[i].parent \in T PROVE i \in T
  <2> SUFFICES ASSUME NEW k \in 0 .. Len(PathOf[i]) PROVE \E j : Ancestor(j, i, k)
    OBVIOUS
  <2>1. CASE k = Len(PathOf[i])
    BY <1>1, <2>1
  <2>2. CASE k # Len(PathOf[i])
    <3>1. PICK p \in Used : p = nodes[i].parent
      BY <1>3
    <3>2. /\ Len(PathOf[p]) \in Nat /\ Len(PathOf[i]) = Len(PathOf[p]) + 1
          /\ \A m \in 1 .. Len(PathOf[p]) : PathOf[i][m] = PathOf[p][m]
      BY <1>3, <3>1, DepthFacts
    <3>3. k \in 0 .. Len(PathOf[p])
      BY <2>2, <3>2
    <3>4. PICK j : Ancestor(j, p, k)
      BY <1>3, <3>1, <3>3
    <3>5. \A m \in 1 .. k : m \in 1 .. Len(PathOf[p])
      BY <3>2, <3>3
    <3>6. Ancestor(j, i, k)
      BY <3>2, <3>4, <3>5 DEF Ancestor
    <3> QED BY <3>6
  <2> QED BY <2>1, <2>2
<1>4. Used \subseteq T
  <2> HIDE DEF T
  <2> QED BY <1>2, <1>3, TreeInduction
<1> QED BY <1>4

\* The next node on the way down to i.
LEMMA AncestorNext ==
  ASSUME RInv, NEW i \in Used, NEW k \in Nat, k + 1 <= Len(PathOf[i]), NEW j, Ancestor(j, i, k)
  PROVE  \E l : Ancestor(l, i, k + 1) /\ Kid(l, j, PathOf[i][k + 1]) /\ IsDir(j)
<1>0. Len(PathOf[i]) \in Nat
  BY DepthFacts
<1>1. PICK l : Ancestor(l, i, k + 1)
  BY <1>0, AncestorExists
<1>2. l \in Used /\ Len(PathOf[l]) = k + 1 /\ \A m \in 1 .. k + 1 : PathOf[l][m] = PathOf[i][m]
  BY <1>1 DEF Ancestor
<1>3. l # 0
  BY <1>2, DepthFacts
<1>4. PICK p : p = nodes[l].parent
  OBVIOUS
<1>5. /\ p \in Used /\ Len(PathOf[p]) \in Nat /\ Len(PathOf[l]) = Len(PathOf[p]) + 1
      /\ \A m \in 1 .. Len(PathOf[p]) : PathOf[l][m] = PathOf[p][m]
      /\ PathOf[l][Len(PathOf[l])] = nodes[l].name
  BY <1>2, <1>3, <1>4, DepthFacts
<1>6. Len(PathOf[p]) = k
  BY <1>2, <1>5
<1>7. Ancestor(p, i, k)
  BY <1>2, <1>5, <1>6 DEF Ancestor
<1>8. p = j
  BY <1>7, AncestorUnique
<1>9. nodes[l].name = PathOf[i][k + 1]
  BY <1>2, <1>5
<1>10. IsDir(p)
  BY <1>2, <1>3, <1>4, Facts DEF Placed, IsDir
<1> QED BY <1>1, <1>2, <1>4, <1>8, <1>9, <1>10 DEF Kid

LEMMA EnterKid ==
  ASSUME RInv, NEW l, NEW dir \in Used, NEW name \in Names, Kid(l, dir, name),
         NEW more, more => IsDir(l)
  PROVE  follow(dir, name, more) = l
<1>1. find_kid(dir, name) = l
  BY KidIs
<1>2. enter(dir, name, more) = l
  BY <1>1 DEF enter
<1>3. name # LongName /\ name # "" /\ name # "." /\ name # ".."
  BY Constants
<1>4. follow(dir, name, more) = enter(dir, name, more)
  BY <1>3 DEF follow
<1> QED BY <1>2, <1>4

LEMMA PathLeadsBack ==
  ASSUME RInv, NEW i \in Used
  PROVE  resolve([abs |-> TRUE, comps |-> PathOf[i]]) = i
<1>1. PICK path, s, n : path = [abs |-> TRUE, comps |-> s] /\ s = PathOf[i] /\ n = Len(s)
  OBVIOUS
<1>2. n \in Nat /\ (\A m \in 1 .. n : s[m] \in Names) /\ path.comps = s /\ path.abs = TRUE
  BY <1>1, DepthFacts
<1>3. PICK at : Way(path, at) /\ resolve(path) = at[Len(path.comps)]
  BY <1>1, <1>2, ResolveIs
<1>4. at = [k \in 0 .. n |-> IF k = 0 THEN 0 ELSE Goes(path, k, at[k - 1])]
  BY <1>1, <1>2, <1>3 DEF Way, Start
<1> DEFINE T == {k \in Nat : k <= n => Ancestor(at[k], i, k)}
<1>5. 0 \in T
  <2>1. at[0] = 0 /\ 0 \in Used /\ Len(PathOf[0]) = 0
    BY <1>2, <1>4, Facts, DepthFacts
  <2> QED BY <2>1 DEF Ancestor
<1>6. ASSUME NEW k \in Nat, k \in T PROVE k + 1 \in T
  <2> SUFFICES ASSUME k + 1 <= n PROVE Ancestor(at[k + 1], i, k + 1)
    OBVIOUS
  <2>1. PICK j : j = at[k]
    OBVIOUS
  <2>2. Ancestor(j, i, k) /\ j \in Used
    BY <1>2, <1>6, <2>1 DEF Ancestor
  <2>3. PICK l : Ancestor(l, i, k + 1) /\ Kid(l, j, s[k + 1])
    BY <1>1, <2>2, AncestorNext
  <2>4. PICK more \in BOOLEAN : more = MoreAt(path, k + 1)
    BY DEF MoreAt
  <2>5. ASSUME more PROVE IsDir(l)
    <3>1. k + 1 < n
      BY <1>1, <1>2, <2>4, <2>5 DEF MoreAt
    <3>2. k + 1 \in Nat /\ (k + 1) + 1 <= n
      BY <1>2, <3>1
    <3> QED BY <1>1, <2>3, <3>2, AncestorNext
  <2>6. s[k + 1] \in Names
    BY <1>2
  <2>7. follow(j, s[k + 1], more) = l
    BY <2>2, <2>3, <2>5, <2>6, EnterKid
  <2>8. ~(j < 0)
    BY <2>2, Facts
  <2>9. at[k + 1] = Goes(path, k + 1, j)
    BY <1>2, <1>4, <2>1
  <2>10. at[k + 1] = l
    BY <1>2, <2>4, <2>7, <2>8, <2>9 DEF Goes
  <2> QED BY <2>3, <2>10
<1>7. Nat \subseteq T
  <2> HIDE DEF T
  <2> QED BY <1>5, <1>6, InductionOnSet
<1>8. Ancestor(at[n], i, n)
  BY <1>2, <1>7
<1>9. Ancestor(i, i, n)
  BY <1>1 DEF Ancestor
<1>10. at[n] = i
  BY <1>8, <1>9, AncestorUnique
<1> QED BY <1>1, <1>2, <1>3, <1>10

\* What fs_getcwd prints is a path that resolve follows back to the working
\* directory, in every state: no name on it is cut, doubled or a file's.
THEOREM CwdAlwaysLeadsBack == Spec => []CwdLeadsBack
<1>1. RInv => CwdLeadsBack
  BY Facts, PathLeadsBack DEF CwdLeadsBack, fs_getcwd
<1> QED BY <1>1, RamInductive, PTL

-----------------------------------------------------------------------------
(* The nodes implement the tree of paths.                                  *)

View ==
  /\ PathTree = [p \in DOMAIN PathTree |-> PathTree[p]]
  /\ DOMAIN PathTree = {PathOf[i] : i \in Used}
  /\ \A i \in Used : PathTree[PathOf[i]] = nodes[i].data
LEMMA TreeView == RInv => View
<1> SUFFICES ASSUME RInv PROVE View
  OBVIOUS
<1>1. PICK at : at = [i \in Ids |-> IF nodes[i].used THEN PathOf[i] ELSE <<>>]
  OBVIOUS
<1>2. \A i \in Used : at[i] = PathOf[i] /\ i \in Ids
  BY <1>1 DEF Used
<1>3. at \in [Ids -> Seq(Names)]
  <2>1. <<>> \in Seq(Names)
    OBVIOUS
  <2>2. \A i \in Ids : nodes[i].used => PathOf[i] \in Seq(Names)
    BY PathsAreNames DEF Used
  <2> QED BY <1>1, <2>1, <2>2
<1>4. PathTree = [p \in {at[i] : i \in Used} |-> nodes[CHOOSE i \in Used : at[i] = p].data]
  <2>1. PathTree = TreeOf[at]
    BY <1>1 DEF PathTree
  <2>2. TreeOf = [a \in [Ids -> Seq(Names)] |->
                   [p \in {a[i] : i \in Used} |-> nodes[CHOOSE i \in Used : a[i] = p].data]]
    BY DEF TreeOf
  <2> QED BY <1>3, <2>1, <2>2, Zenon
<1>5. {at[i] : i \in Used} = {PathOf[i] : i \in Used}
  BY <1>2
<1>6. ASSUME NEW i \in Used PROVE PathTree[PathOf[i]] = nodes[i].data
  <2>1. PICK j : j = CHOOSE l \in Used : at[l] = PathOf[i]
    OBVIOUS
  <2>2. j \in Used /\ at[j] = PathOf[i]
    BY <1>2, <2>1
  <2>3. j = i
    BY <1>2, <2>2, PathsDiffer
  <2>4. PathOf[i] \in {at[l] : l \in Used}
    BY <1>2
  <2> QED BY <1>4, <2>1, <2>3, <2>4
<1>7. PathTree = [p \in DOMAIN PathTree |-> PathTree[p]] /\ DOMAIN PathTree = {at[i] : i \in Used}
  BY <1>4
<1> QED BY <1>5, <1>6, <1>7 DEF View

LEMMA TreeViewNext == RInv' => View'
<1>1. (RInv => View)'
  BY TreeView, PTL
<1> QED BY <1>1

Climb ==
  /\ PathOf[0] = <<>>
  /\ \A i \in Used : i # 0 => PathOf[i] = Append(PathOf[nodes[i].parent], nodes[i].name)
LEMMA ClimbNext == RInv' => Climb'
<1>1. RInv => Climb
  BY PathOfIs DEF Climb
<1>2. (RInv => Climb)'
  BY <1>1, PTL
<1> QED BY <1>2

Distinct == \A i, j \in Used : PathOf[i] = PathOf[j] => i = j
LEMMA PathsDifferNext == RInv' => Distinct'
<1>1. RInv => Distinct
  BY PathsDiffer DEF Distinct
<1>2. (RInv => Distinct)'
  BY <1>1, PTL
<1> QED BY <1>2

\* Paths do not change while the nodes keep their names and parents.
LEMMA PathsKept ==
  ASSUME RInv, RInv', Used \subseteq Used',
         \A i \in Used : nodes'[i].parent = nodes[i].parent /\ nodes'[i].name = nodes[i].name
  PROVE  \A i \in Used : PathOf'[i] = PathOf[i]
<1> DEFINE T == {i \in Used : PathOf'[i] = PathOf[i]}
<1>0. Climb'
  BY ClimbNext
<1>1. 0 \in T
  BY <1>0, Facts, PathOfIs DEF Climb
<1>2. ASSUME NEW i \in Used, i # 0, nodes[i].parent \in T PROVE i \in T
  <2>1. PathOf'[i] = Append(PathOf'[nodes[i].parent], nodes[i].name)
    BY <1>0, <1>2 DEF Climb
  <2> QED BY <1>2, <2>1, PathOfIs
<1>3. Used \subseteq T
  <2> HIDE DEF T
  <2> QED BY <1>1, <1>2, TreeInduction
<1> QED BY <1>3

\* There is room for one more as long as a slot is free.
LEMMA RoomLeft ==
  ASSUME RInv, NEW f \in Ids \ Used
  PROVE  Cardinality(DOMAIN PathTree) < FsMax
<1>1. IsFiniteSet(Ids) /\ Cardinality(Ids) = FsMax
  <2>0. FsMax \in Nat /\ FsMax # 0
    BY RamFsAssumption
  <2>1. PICK n \in Int : n = FsMax - 1
    BY <2>0
  <2>2. IsFiniteSet(0 .. n) /\ Cardinality(0 .. n) = n - 0 + 1
    BY <2>0, <2>1, FS_Interval
  <2>3. n - 0 + 1 = FsMax /\ Ids = 0 .. n
    BY <2>0, <2>1 DEF Ids
  <2> QED BY <2>2, <2>3
<1>2. IsFiniteSet(Ids \ {f}) /\ Cardinality(Ids \ {f}) = FsMax - 1
  BY <1>1, FS_RemoveElement
<1>3. Used \subseteq Ids \ {f}
  BY Facts
<1>4. IsFiniteSet(Used) /\ Cardinality(Used) <= FsMax - 1 /\ Cardinality(Used) \in Nat
  BY <1>2, <1>3, FS_Subset, FS_CardinalityType
<1>5. DOMAIN PathTree = {PathOf[i] : i \in Used}
  BY TreeView DEF View
<1>6. PICK g : g = [i \in Used |-> PathOf[i]]
  OBVIOUS
<1>7. g \in Surjection(Used, DOMAIN PathTree)
  BY <1>5, <1>6 DEF Surjection
<1>8. IsFiniteSet(DOMAIN PathTree) /\ Cardinality(DOMAIN PathTree) <= Cardinality(Used)
  BY <1>4, <1>7, FS_Surjection
<1>9. Cardinality(DOMAIN PathTree) \in Nat
  BY <1>8, FS_CardinalityType
<1>10. PICK a \in Nat, b \in Nat : a = Cardinality(DOMAIN PathTree) /\ b = Cardinality(Used)
  BY <1>4, <1>9
<1>11. a <= b /\ b <= FsMax - 1 /\ FsMax \in Nat
  BY <1>4, <1>8, <1>10, Constants
<1>12. a < FsMax
  BY <1>11
<1> QED BY <1>10, <1>12

LEMMA SameCardinality == \A S : Tree!Cardinality(S) = Cardinality(S)
  BY Zenon DEF Tree!Cardinality, Cardinality

TreeStep == [Tree!Next]_<<PathTree, fs_getcwd>>

LEMMA GrowsTree ==
  ASSUME RInv, RInv', NEW dir, NEW leaf, NEW data, Grows(dir, leaf, data)
  PROVE  TreeStep
<1>1. PICK f \in Ids \ Used :
           /\ dir \in Ids /\ dir < f
           /\ cwd' = cwd
           /\ \A i \in Ids : i # f => nodes'[i] = nodes[i]
           /\ nodes'[f].used /\ nodes'[f].parent = dir
           /\ nodes'[f].name = leaf /\ nodes'[f].data = data
           /\ Used' = Used \cup {f}
  BY GrowsFacts
<1>2. dir \in Used /\ nodes[dir].data = Dir /\ leaf \in Names /\ data \in Contents \cup {Dir}
      /\ (\A i \in Used : ~Kid(i, dir, leaf))
  BY DEF Grows, IsDir
<1>3. \A i \in Used : i \in Ids /\ i # f /\ nodes'[i] = nodes[i]
  BY <1>1, Facts
<1>4. \A i \in Used : PathOf'[i] = PathOf[i]
  BY <1>1, <1>3, PathsKept
<1>5. PICK p, q : p = PathOf[dir] /\ q = Append(p, leaf)
  OBVIOUS
<1>6. PathOf'[f] = q
  <2>1. f \in Used' /\ f # 0
    BY <1>1, Facts
  <2>2. PathOf'[f] = Append(PathOf'[nodes'[f].parent], nodes'[f].name)
    BY <2>1, ClimbNext DEF Climb
  <2> QED BY <1>1, <1>2, <1>4, <1>5, <2>2
<1>7. View /\ View'
  BY TreeView, TreeViewNext
<1>8. p \in DOMAIN PathTree /\ PathTree[p] = Dir
  BY <1>2, <1>5, <1>7 DEF View
<1>9. q \notin DOMAIN PathTree
  <2> SUFFICES ASSUME q \in DOMAIN PathTree PROVE FALSE
    OBVIOUS
  <2>1. PICK i \in Used : q = PathOf[i]
    BY <1>7 DEF View
  <2>2. PathOf'[i] = PathOf'[f] /\ i # f /\ i \in Used' /\ f \in Used'
    BY <1>1, <1>3, <1>4, <1>6, <2>1
  <2>3. (\A j, l \in Used : PathOf[j] = PathOf[l] => j = l)'
    BY PathsDifferNext DEF Distinct
  <2> QED BY <2>2, <2>3
<1>10. Cardinality(DOMAIN PathTree) < FsMax
  BY RoomLeft
<1>11. DOMAIN PathTree' = DOMAIN PathTree \cup {q}
  <2>1. DOMAIN PathTree' = {PathOf'[i] : i \in Used'} /\ DOMAIN PathTree = {PathOf[i] : i \in Used}
    BY <1>7 DEF View
  <2>2. {PathOf'[i] : i \in Used'} = {PathOf'[i] : i \in Used} \cup {PathOf'[f]}
    BY <1>1
  <2>3. {PathOf'[i] : i \in Used} = {PathOf[i] : i \in Used}
    BY <1>4
  <2> QED BY <1>6, <2>1, <2>2, <2>3
<1>12. ASSUME NEW r \in DOMAIN PathTree' PROVE PathTree'[r] = IF r = q THEN data ELSE PathTree[r]
  <2>1. CASE r = q
    <3>1. f \in Used' /\ PathTree'[PathOf'[f]] = nodes'[f].data
      BY <1>1, <1>7 DEF View
    <3> QED BY <1>1, <1>6, <2>1, <3>1
  <2>2. CASE r # q
    <3>1. PICK i \in Used : r = PathOf[i]
      BY <1>7, <1>11, <1>12, <2>2 DEF View
    <3>2. PathTree'[PathOf'[i]] = nodes'[i].data /\ PathTree[PathOf[i]] = nodes[i].data
      BY <1>1, <1>7, <3>1 DEF View
    <3> QED BY <1>3, <1>4, <2>2, <3>1, <3>2
  <2> QED BY <2>1, <2>2
<1>13. PathTree' = [r \in DOMAIN PathTree \cup {q} |-> IF r = q THEN data ELSE PathTree[r]]
  <2>1. PathTree' = [r \in DOMAIN PathTree' |-> PathTree'[r]]
    BY <1>7 DEF View
  <2> QED BY <1>11, <1>12, <2>1
<1>14. fs_getcwd' = fs_getcwd
  BY <1>1, <1>4, Facts DEF fs_getcwd
<1>15. CASE data = Dir
  <2>1. Tree!MakeDir(p, leaf)
    BY <1>5, <1>8, <1>9, <1>10, <1>13, <1>14, <1>15, SameCardinality DEF Tree!MakeDir, Tree!CanHold, Tree!Put
  <2> QED BY <1>2, <1>8, <2>1 DEF TreeStep, Tree!Next
<1>16. CASE data \in Contents
  <2>1. Tree!WriteFile(p, leaf, data)
    BY <1>5, <1>8, <1>9, <1>10, <1>13, <1>14, SameCardinality DEF Tree!WriteFile, Tree!CanHold, Tree!Put
  <2> QED BY <1>2, <1>8, <1>16, <2>1 DEF TreeStep, Tree!Next
<1> QED BY <1>2, <1>15, <1>16

LEMMA RewritesTree ==
  ASSUME RInv, RInv', NEW kid, NEW data, Rewrites(kid, data)
  PROVE  TreeStep
<1>1. /\ cwd' = cwd /\ Used' = Used /\ kid # 0
      /\ \A i \in Ids : nodes'[i].used = nodes[i].used /\ nodes'[i].parent = nodes[i].parent
                        /\ nodes'[i].name = nodes[i].name
      /\ \A i \in Ids : i # kid => nodes'[i] = nodes[i]
      /\ nodes'[kid].data = data
  BY RewritesFacts
<1>2. kid \in Used /\ nodes[kid].data # Dir /\ data \in Contents
  BY DEF Rewrites, IsDir
<1>3. \A i \in Used : PathOf'[i] = PathOf[i]
  BY <1>1, Facts, PathsKept
<1>4. PICK dir, n : dir = nodes[kid].parent /\ n = nodes[kid].name
  OBVIOUS
<1>5. dir \in Used /\ nodes[dir].data = Dir /\ n \in Names
  BY <1>1, <1>2, <1>4, Facts DEF Placed
<1>6. PICK p, q : p = PathOf[dir] /\ q = PathOf[kid]
  OBVIOUS
<1>7. q = Append(p, n)
  BY <1>1, <1>2, <1>4, <1>6, PathOfIs
<1>8. View /\ View'
  BY TreeView, TreeViewNext
<1>9. p \in DOMAIN PathTree /\ PathTree[p] = Dir /\ q \in DOMAIN PathTree /\ PathTree[q] # Dir
  BY <1>2, <1>5, <1>6, <1>8 DEF View
<1>10. DOMAIN PathTree' = DOMAIN PathTree \cup {q}
  <2>1. DOMAIN PathTree' = {PathOf'[i] : i \in Used'} /\ DOMAIN PathTree = {PathOf[i] : i \in Used}
    BY <1>8 DEF View
  <2>2. {PathOf'[i] : i \in Used'} = {PathOf[i] : i \in Used}
    BY <1>1, <1>3
  <2> QED BY <1>9, <2>1, <2>2
<1>11. ASSUME NEW r \in DOMAIN PathTree' PROVE PathTree'[r] = IF r = q THEN data ELSE PathTree[r]
  <2>0. r \in DOMAIN PathTree /\ DOMAIN PathTree = {PathOf[i] : i \in Used}
    BY <1>8, <1>9, <1>10 DEF View
  <2>1. PICK i \in Used : r = PathOf[i]
    BY <2>0
  <2>2. PathTree'[PathOf'[i]] = nodes'[i].data /\ PathTree[PathOf[i]] = nodes[i].data
    BY <1>1, <1>8, <2>1 DEF View
  <2>3. CASE i = kid
    BY <1>1, <1>3, <1>6, <2>1, <2>2, <2>3
  <2>4. CASE i # kid
    <3>1. r # q
      BY <1>2, <1>6, <2>1, <2>4, PathsDiffer
    <3>2. nodes'[i] = nodes[i]
      BY <1>1, <2>4, Facts
    <3> QED BY <1>3, <2>1, <2>2, <3>1, <3>2
  <2> QED BY <2>3, <2>4
<1>12. PathTree' = [r \in DOMAIN PathTree \cup {q} |-> IF r = q THEN data ELSE PathTree[r]]
  <2>1. PathTree' = [r \in DOMAIN PathTree' |-> PathTree'[r]]
    BY <1>8 DEF View
  <2> QED BY <1>10, <1>11, <2>1
<1>13. fs_getcwd' = fs_getcwd
  BY <1>1, <1>3, Facts DEF fs_getcwd
<1>14. Tree!WriteFile(p, n, data)
  BY <1>7, <1>9, <1>12, <1>13 DEF Tree!WriteFile, Tree!CanHold, Tree!Put
<1> QED BY <1>2, <1>5, <1>9, <1>14 DEF TreeStep, Tree!Next

LEMMA MovesTree ==
  ASSUME RInv, NEW dir, Moves(dir)
  PROVE  TreeStep
<1>1. dir \in Used /\ nodes[dir].data = Dir /\ cwd' = dir /\ nodes' = nodes
  BY DEF Moves, IsDir
<1>2. PathOf' = PathOf
  BY <1>1 DEF PathOf
<1>3. PathTree' = PathTree
  BY <1>1, <1>2 DEF PathTree, TreeOf, Used
<1>4. PICK p : p = PathOf[dir]
  OBVIOUS
<1>5. p \in DOMAIN PathTree /\ PathTree[p] = Dir
  BY <1>1, <1>4, TreeView DEF View
<1>6. fs_getcwd' = p
  BY <1>1, <1>2, <1>4 DEF fs_getcwd
<1>7. Tree!ChangeDir(p)
  BY <1>3, <1>5, <1>6 DEF Tree!ChangeDir, Tree!CanHold
<1> QED BY <1>5, <1>7 DEF TreeStep, Tree!Next

LEMMA TreeFrame ==
  ASSUME UNCHANGED ram
  PROVE  TreeStep
<1>1. nodes' = nodes /\ cwd' = cwd
  BY DEF ram
<1>2. PathOf' = PathOf
  BY <1>1 DEF PathOf
<1>3. PathTree' = PathTree
  BY <1>1, <1>2 DEF PathTree, TreeOf, Used
<1>4. fs_getcwd' = fs_getcwd
  BY <1>1, <1>2 DEF fs_getcwd
<1> QED BY <1>3, <1>4 DEF TreeStep

LEMMA TreeInit ==
  ASSUME Init
  PROVE  Tree!Init
<1>1. RInv
  BY RamInit
<1>2. View
  BY <1>1, TreeView
<1>3. cwd = 0 /\ fs_getcwd = <<>>
  BY <1>1, PathOfIs DEF Init, fs_getcwd
<1>4. Used = {0}
  <2>1. \A i \in Ids : i # 0 => ~nodes[i].used
    BY DEF Init, Unused
  <2> QED BY <1>1, <2>1, Facts DEF Used
<1>5. nodes[0].data = Dir /\ PathOf[0] = <<>>
  BY <1>1, Facts, PathOfIs
<1>6. DOMAIN PathTree = {<<>>} /\ PathTree[<<>>] = Dir /\ PathTree = [p \in DOMAIN PathTree |-> PathTree[p]]
  BY <1>2, <1>4, <1>5 DEF View
<1>7. PathTree = [p \in {<<>>} |-> Dir]
  BY <1>6
<1> QED BY <1>3, <1>7 DEF Tree!Init

\* The RAM file system is a tree of directories and files named by absolute
\* paths: mkdir and writes add or change the one path they name, whatever
\* mixture of relative paths, ".." and cut names led there, and nothing else
\* is ever changed, renamed, moved or lost.
THEOREM RamImplementsFileTree == Spec => ImplementsFileTree
<1>1. Init => Tree!Init
  BY TreeInit
<1>2. RInv /\ RInv' /\ [Next]_vars => [Tree!Next]_<<PathTree, fs_getcwd>>
  <2> SUFFICES ASSUME RInv, RInv', [Next]_vars PROVE TreeStep
    BY DEF TreeStep
  <2>1. CASE UNCHANGED ram
    BY <2>1, TreeFrame
  <2>2. CASE Works
    BY <2>2, GrowsTree, RewritesTree, MovesTree DEF Works
  <2> QED BY <2>1, <2>2, RamStep
<1> QED BY <1>1, <1>2, RamInductive, PTL DEF Spec, ImplementsFileTree, Tree!Spec

-----------------------------------------------------------------------------
(* What was made is found: resolve takes the way split_parent took, also   *)
(* in the state after the call.                                            *)

KidUnique == \A i, dir, name : Kid(i, dir, name) => find_kid(dir, name) = i
LEMMA KidUniqueNext == RInv' => KidUnique'
<1>1. RInv => KidUnique
  BY KidIs DEF KidUnique
<1>2. (RInv => KidUnique)'
  BY <1>1, PTL
<1> QED BY <1>2

Entered ==
  \A dir \in Used, name \in Names : \A l : Kid(l, dir, name) => follow(dir, name, FALSE) = l
LEMMA EnteredNext == RInv' => Entered'
<1>1. RInv => Entered
  BY EnterKid DEF Entered
<1>2. (RInv => Entered)'
  BY <1>1, PTL
<1> QED BY <1>2

Resolved ==
  \A path : Len(path.comps) \in Nat =>
              \E at : Way(path, at) /\ resolve(path) = at[Len(path.comps)]
LEMMA ResolvedNext == RInv' => Resolved'
<1>1. RInv => Resolved
  BY ResolveIs DEF Resolved
<1>2. (RInv => Resolved)'
  BY <1>1, PTL
<1> QED BY <1>2

\* A step that leaves every way as it is.
Keeps ==
  /\ Used \subseteq Used' /\ cwd' = cwd
  /\ \A i \in Used : nodes'[i].parent = nodes[i].parent /\ nodes'[i].name = nodes[i].name
  /\ \A i \in Used : IsDir(i) => IsDir(i)'

LEMMA GrowsKeeps ==
  ASSUME RInv, NEW dir, NEW leaf, NEW data, Grows(dir, leaf, data)
  PROVE  Keeps /\ \E l : Kid(l, dir, leaf)' /\ nodes'[l].data = data
<1>1. PICK f \in Ids \ Used :
           /\ cwd' = cwd
           /\ \A i \in Ids : i # f => nodes'[i] = nodes[i]
           /\ nodes'[f].used /\ nodes'[f].parent = dir
           /\ nodes'[f].name = leaf /\ nodes'[f].data = data
           /\ Used' = Used \cup {f}
  BY GrowsFacts
<1>2. \A i \in Used : nodes'[i] = nodes[i]
  BY <1>1, Facts
<1> QED BY <1>1, <1>2 DEF Keeps, Kid, IsDir

LEMMA RewritesKeeps ==
  ASSUME RInv, NEW kid, NEW data, Rewrites(kid, data), NEW dir, NEW leaf, Kid(kid, dir, leaf)
  PROVE  Keeps /\ Kid(kid, dir, leaf)' /\ nodes'[kid].data = data
<1>1. /\ cwd' = cwd /\ Used' = Used
      /\ \A i \in Ids : nodes'[i].parent = nodes[i].parent /\ nodes'[i].name = nodes[i].name
      /\ \A i \in Ids : i # kid => nodes'[i] = nodes[i]
      /\ nodes'[kid].data = data
  BY RewritesFacts
<1>2. kid \in Used /\ ~IsDir(kid) /\ \A i \in Used : i \in Ids
  BY Facts DEF Rewrites
<1>3. \A i \in Used : IsDir(i) => IsDir(i)'
  BY <1>1, <1>2 DEF IsDir
<1> QED BY <1>1, <1>2, <1>3 DEF Keeps, Kid

\* A component that led somewhere leads there still.
LEMMA FollowKept ==
  ASSUME RInv, RInv', Keeps, NEW x \in Used, NEW c, c # LongName,
         NEW m1 \in BOOLEAN, NEW m2 \in BOOLEAN, NEW y \in Used, follow(x, c, m1) = y,
         m2 => m1 \/ IsDir(y)
  PROVE  follow(x, c, m2)' = y
<1>0. LongName # "" /\ LongName # "." /\ LongName # ".."
  BY RamFsAssumption
<1>1. CASE c \in {"", "."}
  <2>1. follow(x, c, m1) = x /\ follow(x, c, m2)' = x
    BY <1>0, <1>1 DEF follow
  <2> QED BY <2>1
<1>2. CASE c = ".."
  <2>1. follow(x, c, m1) = up(x) /\ follow(x, c, m2)' = up(x)'
    BY <1>0, <1>2 DEF follow
  <2>2. up(x)' = up(x)
    BY DEF up, Keeps
  <2> QED BY <2>1, <2>2
<1>3. CASE c \notin {"", ".", ".."}
  <2>1. follow(x, c, m1) = enter(x, c, m1) /\ follow(x, c, m2)' = enter(x, c, m2)'
    BY <1>3 DEF follow
  <2>2. enter(x, c, m1) = IF find_kid(x, c) >= 0 /\ m1 /\ ~IsDir(find_kid(x, c)) THEN -1 ELSE find_kid(x, c)
    BY DEF enter
  <2>3. y \in Nat /\ y # -1
    BY Facts
  <2>4. y = find_kid(x, c) /\ (m1 => IsDir(y))
    BY <2>1, <2>2, <2>3
  <2>5. Kid(y, x, c)
    BY <2>3, <2>4, KidFacts
  <2>6. Kid(y, x, c)'
    BY <2>5 DEF Kid, Keeps
  <2>7. find_kid(x, c)' = y
    BY <2>6, KidUniqueNext DEF KidUnique
  <2>8. m2 => IsDir(y)'
    BY <2>4 DEF Keeps
  <2>9. enter(x, c, m2)' = IF find_kid(x, c)' >= 0 /\ m2 /\ ~(nodes'[find_kid(x, c)'].data = Dir)
                             THEN -1 ELSE find_kid(x, c)'
    BY DEF enter, IsDir
  <2>10. m2 => nodes'[y].data = Dir
    BY <2>8 DEF IsDir
  <2> QED BY <2>1, <2>7, <2>9, <2>10
<1> QED BY <1>1, <1>2, <1>3

LEMMA WayKept ==
  ASSUME RInv, RInv', Keeps, NEW path \in Paths, LongName \notin ToSet(path.comps),
         NEW dir \in Used, NEW leaf, dir = ParentDir(path), leaf = Leaf(path), leaf \notin BadLeaves,
         NEW l, Kid(l, dir, leaf)'
  PROVE  resolve(path)' = l
<1>1. PICK s, n : s = path.comps /\ n = Len(s)
  OBVIOUS
<1>2. s \in Seq(Components) /\ s # <<>> /\ leaf \in Names /\ leaf = next_part(s[n])
  BY <1>1, LeafFacts
<1>3. n \in Nat /\ n >= 1 /\ n \in 1 .. n
  <2>1. Len(s) \in Nat \ {0}
    BY <1>2, EmptySeq
  <2> QED BY <1>1, <2>1
<1>4. \A k \in 1 .. n : s[k] # LongName /\ s[k] # ""
  <2> SUFFICES ASSUME NEW k \in 1 .. n PROVE s[k] # LongName /\ s[k] # ""
    OBVIOUS
  <2>1. s[k] \in Components /\ DOMAIN s = 1 .. n
    BY <1>1, <1>2, ElementOfSeq, LenProperties
  <2>2. s[k] # LongName
    BY <1>1, <2>1 DEF ToSet
  <2>3. "" \notin Components
    BY RamFsAssumption DEF Components
  <2> QED BY <2>1, <2>2, <2>3
<1>5. leaf = s[n]
  BY <1>2, <1>3, <1>4 DEF next_part
<1>6. PICK h : Way(path, h)' /\ resolve(path)' = h[n]
  BY <1>1, <1>3, ResolvedNext DEF Resolved
<1>7. h = [k \in 0 .. n |-> IF k = 0 THEN Start(path)' ELSE Goes(path, k, h[k - 1])']
  BY <1>1, <1>6 DEF Way
<1>8. h[n - 1] = dir
  <2>1. CASE ~path.abs /\ ~(n > 1)
    <3>1. dir = cwd
      BY <1>1, <2>1 DEF ParentDir
    <3>2. n - 1 = 0 /\ 0 \in 0 .. n
      BY <1>3, <2>1
    <3>3. Start(path)' = cwd'
      BY <2>1 DEF Start
    <3> QED BY <1>7, <3>1, <3>2, <3>3 DEF Keeps
  <2>2. CASE path.abs \/ n > 1
    <3>1. PICK before : before = Before(path)
      OBVIOUS
    <3>2. dir = resolve_dir(before)
      BY <1>1, <2>2, <3>1 DEF ParentDir, Before
    <3>3. /\ before.abs = path.abs /\ Len(before.comps) = n - 1
          /\ \A k \in 1 .. n - 1 : before.comps[k] = s[k]
      BY <1>1, <1>2, <3>1, BeforeFacts
    <3>4. n - 1 \in Nat
      BY <1>3
    <3>5. PICK g \in [0 .. n - 1 -> Used \cup {-1}] : Way(before, g) /\ resolve(before) = g[n - 1]
      BY <3>3, <3>4, ResolveIs
    <3>6. dir = g[n - 1] /\ IsDir(dir)
      <4>1. dir \in Used /\ dir # -1
        BY Facts, Constants
      <4> QED BY <3>2, <3>3, <3>4, <3>5, <4>1, ResolveFacts
    <3>7. g = [k \in 0 .. n - 1 |-> IF k = 0 THEN Start(before) ELSE Goes(before, k, g[k - 1])]
      BY <3>3, <3>5 DEF Way
    <3> DEFINE T == {k \in Nat : k <= n - 1 => g[k] = -1 \/ h[k] = g[k]}
    <3>8. 0 \in T
      <4>1. Start(path)' = Start(before)
        BY <3>3 DEF Start, Keeps
      <4> QED BY <1>3, <1>7, <3>4, <3>7, <4>1
    <3>9. ASSUME NEW k \in Nat, k \in T PROVE k + 1 \in T
      <4> SUFFICES ASSUME k + 1 <= n - 1, g[k + 1] # -1 PROVE h[k + 1] = g[k + 1]
        OBVIOUS
      <4>1. /\ k \in 0 .. n - 1 /\ k + 1 \in 0 .. n - 1 /\ k + 1 \in 1 .. n - 1
            /\ k + 1 \in 0 .. n /\ k + 1 \in 1 .. n /\ k + 1 # 0 /\ (k + 1) - 1 = k
        BY <1>3, <3>4
      <4>2. g[k + 1] = Goes(before, k + 1, g[k]) /\ h[k + 1] = Goes(path, k + 1, h[k])'
        BY <1>7, <3>7, <4>1
      <4>3. PICK x, y, c : x = g[k] /\ y = g[k + 1] /\ c = s[k + 1]
        OBVIOUS
      <4>4. x \in Used \cup {-1} /\ y \in Used
        BY <3>5, <4>1, <4>3
      <4>5. x # -1 /\ x \in Used /\ ~(x < 0)
        <5>1. CASE x = -1
          BY <4>2, <4>3, <5>1 DEF Goes
        <5> QED BY <4>4, <5>1, Facts
      <4>6. h[k] = x
        BY <3>9, <4>1, <4>3, <4>5
      <4>7. PICK m1 \in BOOLEAN, m2 \in BOOLEAN : m1 = MoreAt(before, k + 1) /\ m2 = MoreAt(path, k + 1)
        BY DEF MoreAt
      <4>8. follow(x, c, m1) = y
        BY <3>3, <4>1, <4>2, <4>3, <4>5, <4>7 DEF Goes
      <4>9. ASSUME m2 PROVE m1 \/ IsDir(y)
        <5>1. CASE k + 1 = n - 1
          BY <3>6, <4>3, <5>1
        <5>2. CASE k + 1 # n - 1
          <6>1. k + 1 < n - 1 /\ (k + 1) + 1 \in 1 .. n - 1 /\ (k + 1) + 1 \in 1 .. n
            BY <1>3, <4>1, <5>2
          <6>2. before.comps[(k + 1) + 1] # ""
            BY <1>4, <3>3, <6>1
          <6> QED BY <3>3, <4>7, <6>1, <6>2 DEF MoreAt
        <5> QED BY <5>1, <5>2
      <4>10. c # LongName
        BY <1>4, <4>1, <4>3
      <4>11. follow(x, c, m2)' = y
        BY <4>4, <4>5, <4>7, <4>8, <4>9, <4>10, FollowKept
      <4>12. Goes(path, k + 1, x)' = follow(x, c, m2)'
        BY <1>1, <4>3, <4>5, <4>7 DEF Goes
      <4> QED BY <4>2, <4>3, <4>6, <4>11, <4>12
    <3>10. Nat \subseteq T
      <4> HIDE DEF T
      <4> QED BY <3>8, <3>9, InductionOnSet
    <3>11. g[n - 1] = -1 \/ h[n - 1] = g[n - 1]
      BY <3>4, <3>10
    <3>12. dir # -1
      BY Facts, Constants
    <3> QED BY <3>6, <3>11, <3>12
  <2> QED BY <2>1, <2>2
<1>9. h[n] = Goes(path, n, dir)'
  BY <1>3, <1>7, <1>8
<1>10. MoreAt(path, n) = FALSE
  <2>1. MoreAt(path, n) \in BOOLEAN
    BY DEF MoreAt
  <2>2. ~MoreAt(path, n)
    <3>1. ~(n < n)
      BY <1>3
    <3>2. n = Len(path.comps)
      BY <1>1
    <3>3. ~(n < Len(path.comps))
      BY <3>1, <3>2, Zenon
    <3> QED BY <3>3, Zenon DEF MoreAt
  <2> QED BY <2>1, <2>2
<1>11. ~(dir < 0)
  BY Facts
<1>12. Goes(path, n, dir)' = follow(dir, leaf, FALSE)'
  BY <1>1, <1>5, <1>10, <1>11 DEF Goes
<1>13. dir \in Used'
  BY DEF Keeps
<1>14. follow(dir, leaf, FALSE)' = l
  BY <1>2, <1>13, EnteredNext DEF Entered
<1> QED BY <1>6, <1>9, <1>12, <1>14

LEMMA MadeLeads ==
  ASSUME RInv, RInv', Accepts, NEW path \in Paths, LongName \notin ToSet(path.comps),
         NEW data \in Contents \cup {Dir}, Made(path, data)
  PROVE  Leads(path, data)'
<1>0. ret' = "OK" /\ ~mounted /\ nodes' # nodes
  BY DEF Accepts
<1>1. PICK dir, leaf : dir = ParentDir(path) /\ leaf = Leaf(path)
  OBVIOUS
<1>2. /\ dir \in Used /\ leaf \notin BadLeaves
      /\ \/ Grows(dir, leaf, data)
         \/ \E kid : Kid(kid, dir, leaf) /\ Rewrites(kid, data)
  <2>1. CASE data = Dir
    <3>1. fs_mkdir(path)
      BY <2>1 DEF Made
    <3>2. leaf \notin BadLeaves /\ Grows(dir, leaf, data)
      BY <1>0, <1>1, <2>1, <3>1, MkdirIs
    <3> QED BY <3>2 DEF Grows
  <2>2. CASE data # Dir
    <3>1. fs_fwrite(path, data) /\ data \in Contents
      BY <2>2 DEF Made
    <3> QED BY <1>0, <1>1, <3>1, FwriteIs
  <2> QED BY <2>1, <2>2
<1>3. PICK l : Keeps /\ Kid(l, dir, leaf)' /\ nodes'[l].data = data
  BY <1>2, GrowsKeeps, RewritesKeeps
<1>4. resolve(path)' = l
  BY <1>1, <1>2, <1>3, WayKept
<1>5. l >= 0 /\ ~(l < 0)
  <2>1. l \in Used'
    BY <1>3 DEF Kid
  <2>2. l \in Ids
    BY <2>1 DEF Used
  <2> QED BY <2>2, Constants
<1>6. CASE data = Dir
  <2>1. resolve_dir(path)' = l
    BY <1>3, <1>4, <1>5, <1>6 DEF resolve_dir, IsDir
  <2> QED BY <1>5, <1>6, <2>1 DEF Leads
<1>7. CASE data # Dir
  <2>1. fs_fread_ram(path)' = data
    BY <1>3, <1>4, <1>5, <1>7 DEF fs_fread_ram, IsDir
  <2> QED BY <1>7, <2>1 DEF Leads
<1> QED BY <1>6, <1>7

\* A path without a cut name that fs_mkdir or fs_fwrite accepted leads to what
\* was made: the way split_parent takes a path apart agrees with the way
\* resolve follows it, for paths of any length, relative or absolute.
THEOREM AcceptedPathsLead == Spec => AcceptedLeads
<1> DEFINE A == Accepts => \A path \in {p \in Paths : LongName \notin ToSet(p.comps)},
                              data \in Contents \cup {Dir} : Made(path, data) => Leads(path, data)'
<1>1. RInv /\ RInv' => [A]_vars
  <2> SUFFICES ASSUME RInv, RInv', Accepts, NEW path \in Paths, LongName \notin ToSet(path.comps),
                      NEW data \in Contents \cup {Dir}, Made(path, data)
               PROVE  Leads(path, data)'
    OBVIOUS
  <2> QED BY MadeLeads
<1>2. AcceptedLeads <=> [][A]_vars
  BY DEF AcceptedLeads
<1> HIDE DEF A
<1> QED BY <1>1, <1>2, RamInductive, PTL
=============================================================================
