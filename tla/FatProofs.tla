----------------------------- MODULE FatProofs ------------------------------
(***************************************************************************)
(* Proofs about writing files on the FAT volume, for every size of the     *)
(* volume and of its clusters, any number of FAT copies, names, contents   *)
(* and disk errors, and power losses at any disk write.                    *)
(***************************************************************************)
EXTENDS Fat, FiniteSetTheorems, SequenceTheorems, WellFoundedInduction, TLAPS

-----------------------------------------------------------------------------
(* Induction and recursion over the natural numbers.                       *)

LEMMA SetInduction ==
  ASSUME NEW T, 0 \in T, \A n \in Nat : n \in T => n + 1 \in T
  PROVE  Nat \subseteq T
<1> SUFFICES ASSUME Nat \ T # {} PROVE FALSE
  OBVIOUS
<1> DEFINE R == {p \in Nat \X Nat : p[1] < p[2]}
<1>1. IsWellFoundedOn(R, Nat)
  <2>1. R = OpToRel(<, Nat)
    BY DEF OpToRel
  <2> QED BY <2>1, NatLessThanWellFounded
<1>2. PICK x \in Nat \ T : \A y \in Nat \ T : ~(<<y, x>> \in R)
  <2>1. Nat \ T \subseteq Nat
    OBVIOUS
  <2> HIDE DEF R
  <2> QED BY <1>1, <2>1, WFMin
<1>3. x \in Nat /\ x # 0 /\ x - 1 \in Nat /\ (x - 1) + 1 = x
  OBVIOUS
<1>4. x - 1 \notin T
  BY <1>2, <1>3
<1>5. ~(<<x - 1, x>> \in R)
  BY <1>2, <1>3, <1>4
<1>6. ~(x - 1 < x)
  BY <1>3, <1>5, Zenon
<1> QED BY <1>3, <1>6

\* What a recursive function from 1 .. n says of itself is true of one.
Recurs(h, g, a, n) == h = [i \in 1 .. n |-> IF i = 1 THEN a ELSE g[h[i - 1]]]
LEMMA RecursiveSequence ==
  ASSUME NEW S, NEW g \in [S -> S], NEW a \in S, NEW n \in Nat
  PROVE  \E h : Recurs(h, g, a, n)
<1> DEFINE Is(h, m) == h \in [1 .. m -> S] /\ \A i \in 1 .. m : h[i] = IF i = 1 THEN a ELSE g[h[i - 1]]
           T == {m \in Nat : \E h : Is(h, m)}
<1>1. 0 \in T
  <2>1. Is([i \in 1 .. 0 |-> a], 0)
    OBVIOUS
  <2> QED BY <2>1
<1>2. ASSUME NEW m \in Nat, m \in T PROVE m + 1 \in T
  <2>1. PICK h : Is(h, m)
    BY <1>2
  <2> DEFINE v == IF m = 0 THEN a ELSE g[h[m]]
             k == [i \in 1 .. m + 1 |-> IF i = m + 1 THEN v ELSE h[i]]
  <2>2. v \in S
    BY <2>1
  <2>3. k \in [1 .. m + 1 -> S]
    BY <2>1, <2>2
  <2>4. ASSUME NEW i \in 1 .. m + 1 PROVE k[i] = IF i = 1 THEN a ELSE g[k[i - 1]]
    BY <2>1, <2>4
  <2>5. Is(k, m + 1)
    BY <2>3, <2>4
  <2> HIDE DEF Is
  <2> QED BY <2>5
<1>3. Nat \subseteq T
  <2> HIDE DEF T
  <2> QED BY <1>1, <1>2, SetInduction
<1>4. PICK h : Is(h, n)
  BY <1>3
<1>5. Recurs(h, g, a, n)
  BY <1>4 DEF Recurs
<1> QED BY <1>5

-----------------------------------------------------------------------------
(* Chains. A path is what a chain should be: it starts at c, follows the   *)
(* FAT copy f, ends with the end mark and comes to no cluster twice.       *)

Copy == [Clusters -> {0} \cup Clusters \cup {EOC}]
Path(f, c, s) ==
  /\ s \in Seq(Clusters)
  /\ \A i, j \in 1 .. Len(s) : s[i] = s[j] => i = j
  /\ s = <<>> => c \notin Clusters
  /\ s # <<>> => s[1] = c /\ f[s[Len(s)]] = EOC
  /\ \A i \in 1 .. Len(s) - 1 : f[s[i]] = s[i + 1]

LEMMA Sizes ==
  /\ FatMax \in Nat /\ DataEnd \in Nat /\ 5 <= DataEnd /\ DataEnd <= FatMax
  /\ NumFats \in Nat /\ NumFats >= 1 /\ Slots \in Nat /\ Slots >= 2
  /\ EOC = FatMax /\ EOC \notin Clusters /\ 0 \notin Clusters /\ EOC # 0
  /\ Root \in Clusters /\ Clusters \subseteq Nat /\ 1 \in 1 .. NumFats
  /\ 2 .. DataEnd - 1 \subseteq Clusters
  BY FatAssumption DEF EOC, Clusters, Root

LEMMA VisitedFacts ==
  ASSUME NEW f \in Copy, NEW c
  PROVE  Visited(f, c) = [i \in 1 .. FatMax |->
                            IF i = 1 THEN Ends(c) ELSE Links(f)[Visited(f, c)[i - 1]]]
<1> DEFINE S == Clusters \cup {EOC}
           P(at) == at = [i \in 1 .. FatMax |-> IF i = 1 THEN Ends(c) ELSE Links(f)[at[i - 1]]]
<1>1. Ends(c) \in S /\ FatMax \in Nat
  BY Sizes DEF Ends
<1>2. Links(f) \in [S -> S]
  BY DEF Links, Ends
<1>3. \E at : P(at)
  <2>1. PICK a, g, n : a = Ends(c) /\ g = Links(f) /\ n = FatMax
    OBVIOUS
  <2>2. a \in S /\ g \in [S -> S] /\ n \in Nat
    BY <1>1, <1>2, <2>1
  <2>3. PICK h : Recurs(h, g, a, n)
    <3> HIDE DEF S
    <3> QED BY <2>2, RecursiveSequence
  <2>4. P(h)
    BY <2>1, <2>3 DEF Recurs
  <2> HIDE DEF P
  <2> QED BY <2>4
<1>4. Visited(f, c) = CHOOSE at : P(at)
  BY DEF Visited
<1>5. P(CHOOSE at : P(at))
  <2> HIDE DEF P
  <2> QED BY <1>3
<1> QED BY <1>4, <1>5

\* A path is shorter than the FAT.
LEMMA PathLength ==
  ASSUME NEW f, NEW c, NEW s, Path(f, c, s)
  PROVE  Len(s) \in Nat /\ Len(s) < FatMax /\ \A i \in 1 .. Len(s) : s[i] \in Clusters
<1>1. s \in Seq(Clusters) /\ \A i, j \in 1 .. Len(s) : s[i] = s[j] => i = j
  BY DEF Path
<1>2. Len(s) \in Nat /\ s \in [1 .. Len(s) -> Clusters] /\ DOMAIN s = 1 .. Len(s)
  <2> DEFINE C == Clusters
  <2>1. s \in Seq(C)
    BY <1>1
  <2> HIDE DEF C
  <2>2. Len(s) \in Nat /\ s \in [1 .. Len(s) -> C] /\ DOMAIN s = 1 .. Len(s)
    BY <2>1
  <2> QED BY <2>2 DEF C
<1>3. s \in Injection(1 .. Len(s), Clusters)
  BY <1>1, <1>2 DEF Injection, IsInjective
<1>4. IsFiniteSet(Clusters) /\ Cardinality(Clusters) = FatMax - 2
  BY Sizes, FS_Interval DEF Clusters
<1>5. Cardinality(1 .. Len(s)) <= Cardinality(Clusters)
  BY <1>3, <1>4, FS_Injection
<1>6. Cardinality(1 .. Len(s)) = Len(s)
  <2>1. PICK n \in Nat : n = Len(s)
    BY <1>2
  <2>2. Cardinality(1 .. n) = n
    BY FS_Interval
  <2> QED BY <2>1, <2>2, Zenon
<1> QED BY <1>2, <1>4, <1>5, <1>6, Sizes

\* Where there is a path, it is what the program follows.
LEMMA ChainIsPath ==
  ASSUME NEW f \in Copy, NEW c, NEW s, Path(f, c, s)
  PROVE  ChainIn(f, c) = s
<1>1. /\ s \in Seq(Clusters) /\ Len(s) \in Nat /\ Len(s) < FatMax
      /\ \A i \in 1 .. Len(s) : s[i] \in Clusters
  BY PathLength DEF Path
<1>2. PICK at : at = Visited(f, c)
  OBVIOUS
<1>3. at = [i \in 1 .. FatMax |-> IF i = 1 THEN Ends(c) ELSE Links(f)[at[i - 1]]]
  BY <1>2, VisitedFacts
<1> DEFINE V(i) == IF i <= Len(s) THEN s[i] ELSE EOC
           T == {n \in Nat : n + 1 \in 1 .. FatMax => at[n + 1] = V(n + 1)}
<1>4. \A i \in 1 .. FatMax : at[i] = V(i)
  <2>1. 0 \in T
    <3>1. at[1] = Ends(c)
      BY <1>3, Sizes
    <3>2. CASE s = <<>>
      BY <1>1, <3>1, <3>2 DEF Path, Ends
    <3>3. CASE s # <<>>
      <4>1. 1 <= Len(s) /\ s[1] = c /\ s[1] \in Clusters
        BY <1>1, <3>3 DEF Path
      <4> QED BY <3>1, <4>1 DEF Ends
    <3> QED BY <3>2, <3>3
  <2>2. ASSUME NEW n \in Nat, n \in T PROVE n + 1 \in T
    <3> SUFFICES ASSUME n + 2 \in 1 .. FatMax PROVE at[n + 2] = V(n + 2)
      OBVIOUS
    <3>1. n + 1 \in 1 .. FatMax /\ at[n + 1] = V(n + 1)
      BY <2>2, Sizes
    <3>2. at[n + 2] = Links(f)[at[n + 1]]
      <4>1. (n + 2) - 1 = n + 1 /\ n + 2 # 1
        OBVIOUS
      <4>2. at[n + 2] = IF n + 2 = 1 THEN Ends(c) ELSE Links(f)[at[(n + 2) - 1]]
        BY <1>3, Zenon
      <4> QED BY <4>1, <4>2
    <3>3. CASE n + 2 <= Len(s)
      <4>1. at[n + 1] = s[n + 1] /\ s[n + 1] \in Clusters /\ n + 1 \in 1 .. Len(s) - 1
        BY <1>1, <3>1, <3>3
      <4>2. f[s[n + 1]] = s[n + 2] /\ s[n + 2] \in Clusters
        <5>1. f[s[n + 1]] = s[(n + 1) + 1]
          BY <4>1 DEF Path
        <5> QED BY <1>1, <3>3, <5>1
      <4> QED BY <3>2, <3>3, <4>1, <4>2, Sizes DEF Links, Ends
    <3>4. CASE n + 1 = Len(s)
      <4>1. at[n + 1] = s[n + 1] /\ s[n + 1] \in Clusters /\ f[s[n + 1]] = EOC
        BY <1>1, <3>1, <3>4 DEF Path
      <4> QED BY <1>1, <3>2, <3>4, <4>1, Sizes DEF Links, Ends
    <3>5. CASE n + 1 > Len(s)
      <4>1. at[n + 1] = EOC
        BY <1>1, <3>1, <3>5
      <4> QED BY <1>1, <3>2, <3>5, <4>1 DEF Links
    <3> QED BY <1>1, <3>3, <3>4, <3>5
  <2>3. Nat \subseteq T
    <3> HIDE DEF T
    <3> QED BY <2>1, <2>2, SetInduction
  <2>4. ASSUME NEW i \in 1 .. FatMax PROVE at[i] = V(i)
    <3>1. i - 1 \in Nat /\ (i - 1) + 1 = i
      BY Sizes
    <3>2. i - 1 \in T
      BY <2>3, <3>1
    <3> QED BY <3>1, <3>2
  <2> QED BY <2>4
<1>5. {i \in 1 .. FatMax : at[i] # EOC} = 1 .. Len(s)
  BY <1>1, <1>4, Sizes
<1>6. Cardinality({i \in 1 .. FatMax : at[i] # EOC}) = Len(s)
  <2>1. Cardinality(1 .. Len(s)) = Len(s)
    <3>1. PICK n \in Nat : n = Len(s)
      BY <1>1
    <3>2. Cardinality(1 .. n) = n
      BY FS_Interval
    <3> QED BY <3>1, <3>2
  <2> QED BY <1>5, <2>1, Zenon
<1>7. ChainIn(f, c) = [i \in 1 .. Len(s) |-> at[i]]
  BY <1>2, <1>6 DEF ChainIn
<1>8. \A i \in 1 .. Len(s) : at[i] = s[i]
  <2>1. \A i \in 1 .. Len(s) : i \in 1 .. FatMax /\ i <= Len(s)
    BY <1>1, Sizes
  <2> QED BY <1>4, <2>1
<1>9. s = [i \in 1 .. Len(s) |-> s[i]]
  <2> DEFINE C == Clusters
  <2>1. s \in Seq(C)
    BY <1>1
  <2> HIDE DEF C
  <2> QED BY <2>1
<1> QED BY <1>7, <1>8, <1>9

-----------------------------------------------------------------------------
(* How paths change.                                                       *)

\* The clusters of a chain, and the chains that are paths.
On(f, c) == ToSet(ChainIn(f, c))
Sound(f, c) == Path(f, c, ChainIn(f, c))

LEMMA PathFacts ==
  ASSUME NEW f, NEW c, NEW s, Path(f, c, s)
  PROVE  /\ Len(s) \in Nat /\ DOMAIN s = 1 .. Len(s)
         /\ \A i \in 1 .. Len(s) : s[i] \in Clusters
         /\ ToSet(s) = {s[i] : i \in 1 .. Len(s)}
         /\ ToSet(s) \subseteq Clusters
         /\ s # <<>> <=> Len(s) > 0
         /\ c \in Clusters => s # <<>> /\ s[1] = c /\ c \in ToSet(s)
         /\ c \notin Clusters => s = <<>>
<1> DEFINE C == Clusters
<1>1. s \in Seq(C)
  BY DEF Path
<1>2. Len(s) \in Nat /\ DOMAIN s = 1 .. Len(s) /\ (\A i \in 1 .. Len(s) : s[i] \in C)
      /\ (s # <<>> <=> Len(s) > 0)
  <2> HIDE DEF C
  <2> QED BY <1>1
<1>3. ToSet(s) = {s[i] : i \in 1 .. Len(s)} /\ ToSet(s) \subseteq Clusters
  BY <1>2 DEF ToSet
<1>4. c \in Clusters => s # <<>> /\ s[1] = c /\ c \in ToSet(s)
  <2> SUFFICES ASSUME c \in Clusters PROVE s # <<>> /\ s[1] = c /\ c \in ToSet(s)
    OBVIOUS
  <2>1. s # <<>> /\ s[1] = c
    BY DEF Path
  <2>2. 1 \in 1 .. Len(s)
    BY <1>2, <2>1
  <2> QED BY <1>3, <2>1, <2>2
<1>5. c \notin Clusters => s = <<>>
  <2> SUFFICES ASSUME s # <<>> PROVE c \in Clusters
    OBVIOUS
  <2> QED BY <1>2 DEF Path
<1> QED BY <1>2, <1>3, <1>4, <1>5

\* A chain that is a path depends only on the entries of its own clusters.
LEMMA SoundFrame ==
  ASSUME NEW f \in Copy, NEW g \in Copy, NEW c, Sound(f, c),
         \A x \in On(f, c) : g[x] = f[x]
  PROVE  ChainIn(g, c) = ChainIn(f, c) /\ Sound(g, c)
<1>1. PICK s : s = ChainIn(f, c)
  OBVIOUS
<1>2. Path(f, c, s) /\ \A x \in ToSet(s) : g[x] = f[x]
  BY <1>1 DEF Sound, On
<1>3. \A i \in 1 .. Len(s) : g[s[i]] = f[s[i]]
  BY <1>2, PathFacts
<1>4. Len(s) \in Nat /\ (s # <<>> => Len(s) \in 1 .. Len(s))
      /\ 1 .. Len(s) - 1 \subseteq 1 .. Len(s)
  BY <1>2, PathFacts
<1>5. Path(g, c, s)
  BY <1>2, <1>3, <1>4 DEF Path
<1> QED BY <1>1, <1>5, ChainIsPath DEF Sound

LEMMA PathSound ==
  ASSUME NEW f \in Copy, NEW c, NEW s, Path(f, c, s)
  PROVE  ChainIn(f, c) = s /\ Sound(f, c) /\ On(f, c) = ToSet(s)
  BY ChainIsPath DEF Sound, On

LEMMA NoPath ==
  ASSUME NEW f \in Copy, NEW c, c \notin Clusters
  PROVE  ChainIn(f, c) = <<>> /\ Sound(f, c) /\ On(f, c) = {}
<1>1. Path(f, c, <<>>)
  BY DEF Path
<1>2. ToSet(<<>>) = {}
  BY DEF ToSet
<1> QED BY <1>1, <1>2, PathSound

LEMMA PathOne ==
  ASSUME NEW f \in Copy, NEW c \in Clusters, f[c] = EOC
  PROVE  ChainIn(f, c) = <<c>> /\ Sound(f, c) /\ On(f, c) = {c}
<1>1. Path(f, c, <<c>>)
  <2> DEFINE C == Clusters
  <2>1. c \in C
    OBVIOUS
  <2> HIDE DEF C
  <2>2. <<c>> \in Seq(C)
    BY <2>1
  <2>3. <<c>> \in Seq(Clusters)
    BY <2>2 DEF C
  <2> QED BY <2>3 DEF Path
<1>2. ToSet(<<c>>) = {c}
  <2>1. ToSet(<<c>>) = {<<c>>[i] : i \in 1 .. 1}
    BY DEF ToSet
  <2> QED BY <2>1
<1> QED BY <1>1, <1>2, PathSound

\* The FAT copy f with one entry changed.
Linked(f, c, v) == [f EXCEPT ![c] = v]

\* The last cluster of a path is linked to a new one.
LEMMA PathLinked ==
  ASSUME NEW f \in Copy, NEW c, NEW s, Path(f, c, s), s # <<>>,
         NEW x \in Clusters, x \notin ToSet(s), f[x] = EOC,
         NEW g, g = Linked(f, s[Len(s)], x)
  PROVE  /\ g \in Copy /\ Path(g, c, Append(s, x))
         /\ ToSet(Append(s, x)) = ToSet(s) \cup {x} /\ Len(Append(s, x)) = Len(s) + 1
<1>1. /\ Len(s) \in Nat /\ Len(s) > 0 /\ \A i \in 1 .. Len(s) : s[i] \in Clusters /\ s[i] # x
      /\ ToSet(s) = {s[i] : i \in 1 .. Len(s)}
  BY PathFacts
<1>2. g \in Copy
  BY <1>1 DEF Copy, Linked
<1>3. PICK n \in Nat : n = Len(s)
  BY <1>1
<1>4. PICK t : t = Append(s, x)
  OBVIOUS
<1>5. t \in Seq(Clusters) /\ Len(t) = n + 1 /\ t[n + 1] = x /\ \A i \in 1 .. n : t[i] = s[i]
  <2> DEFINE C == Clusters
  <2>1. s \in Seq(C) /\ x \in C
    BY DEF Path
  <2> HIDE DEF C
  <2>2. t \in Seq(C) /\ Len(t) = n + 1 /\ t[n + 1] = x /\ \A i \in 1 .. n : t[i] = s[i]
    BY <1>3, <1>4, <2>1
  <2> QED BY <2>2 DEF C
<1>6. \A i, j \in 1 .. n : s[i] = s[j] => i = j
  BY <1>3 DEF Path
<1>7. \A i, j \in 1 .. n + 1 : t[i] = t[j] => i = j
  BY <1>1, <1>3, <1>5, <1>6
<1>8. t[1] = c /\ s[n] \in Clusters /\ s[n] # x /\ n >= 1
  BY <1>1, <1>3, <1>5 DEF Path
<1>9. g[s[n]] = x /\ g[x] = EOC /\ \A y \in Clusters : y # s[n] => g[y] = f[y]
  BY <1>3, <1>8 DEF Copy, Linked
<1>10. \A i \in 1 .. n : g[t[i]] = t[i + 1]
  <2> SUFFICES ASSUME NEW i \in 1 .. n PROVE g[t[i]] = t[i + 1]
    OBVIOUS
  <2>1. CASE i = n
    BY <1>5, <1>9, <2>1
  <2>2. CASE i # n
    <3>1. i \in 1 .. n - 1 /\ i + 1 \in 1 .. n /\ n \in 1 .. n
      BY <2>2
    <3>2. f[s[i]] = s[i + 1]
      BY <1>3, <3>1 DEF Path
    <3>3. s[i] # s[n] /\ s[i] \in Clusters
      BY <1>1, <1>3, <1>6, <2>2, <3>1
    <3> QED BY <1>5, <1>9, <3>1, <3>2, <3>3
  <2> QED BY <2>1, <2>2
<1>11. Path(g, c, t)
  BY <1>5, <1>7, <1>8, <1>9, <1>10 DEF Path
<1>12. ToSet(t) = ToSet(s) \cup {x}
  <2>1. ToSet(t) = {t[i] : i \in 1 .. n + 1}
    BY <1>5, <1>11, PathFacts
  <2> QED BY <1>1, <1>3, <1>5, <2>1
<1> QED BY <1>2, <1>3, <1>4, <1>5, <1>11, <1>12

\* The rest of a path is one, and does not come back to its first cluster.
LEMMA PathRest ==
  ASSUME NEW f \in Copy, NEW c \in Clusters, Sound(f, c)
  PROVE  /\ Sound(f, f[c]) /\ c \notin On(f, f[c]) /\ On(f, c) = On(f, f[c]) \cup {c}
         /\ f[c] \in Clusters \cup {EOC}
<1>1. PICK s : s = ChainIn(f, c)
  OBVIOUS
<1>2. Path(f, c, s)
  BY <1>1 DEF Sound
<1>3. /\ Len(s) \in Nat /\ Len(s) > 0 /\ s[1] = c /\ \A i \in 1 .. Len(s) : s[i] \in Clusters
      /\ ToSet(s) = {s[i] : i \in 1 .. Len(s)} /\ s # <<>>
  BY <1>2, PathFacts
<1>4. PICK n \in Nat : n = Len(s)
  BY <1>3
<1>5. PICK t : t = Tail(s)
  OBVIOUS
<1>6. t \in Seq(Clusters) /\ Len(t) = n - 1 /\ \A i \in 1 .. n - 1 : t[i] = s[i + 1]
  <2> DEFINE C == Clusters
  <2>1. s \in Seq(C) /\ s # <<>>
    BY <1>2, <1>3 DEF Path
  <2> HIDE DEF C
  <2>2. t \in Seq(C) /\ Len(t) = n - 1 /\ \A i \in 1 .. n - 1 : t[i] = s[i + 1]
    BY <1>4, <1>5, <2>1
  <2> QED BY <2>2 DEF C
<1>7. \A i, j \in 1 .. n : s[i] = s[j] => i = j
  BY <1>2, <1>4 DEF Path
<1>8. (\A i \in 1 .. n - 1 : f[s[i]] = s[i + 1]) /\ f[s[n]] = EOC
  BY <1>2, <1>3, <1>4 DEF Path
<1>9. CASE n = 1
  <2>1. f[c] = EOC
    BY <1>3, <1>8, <1>9
  <2>2. On(f, f[c]) = {} /\ Sound(f, f[c])
    BY <2>1, NoPath, Sizes
  <2>3. ToSet(s) = {c}
    BY <1>3, <1>4, <1>9
  <2> QED BY <1>1, <2>1, <2>2, <2>3 DEF On
<1>10. CASE n # 1
  <2>1. n >= 2
    BY <1>3, <1>4, <1>10
  <2>2. t # <<>> /\ t[1] = s[2] /\ f[c] = s[2] /\ s[2] \in Clusters
    <3>1. t[1] = s[1 + 1] /\ f[s[1]] = s[1 + 1] /\ 2 \in 1 .. Len(s)
      BY <1>4, <1>6, <1>8, <2>1
    <3>2. t # <<>>
      BY <1>6, <2>1
    <3> QED BY <1>3, <3>1, <3>2
  <2>3. \A i, j \in 1 .. n - 1 : t[i] = t[j] => i = j
    BY <1>6, <1>7
  <2>4. \A i \in 1 .. (n - 1) - 1 : f[t[i]] = t[i + 1]
    <3> SUFFICES ASSUME NEW i \in 1 .. (n - 1) - 1 PROVE f[t[i]] = t[i + 1]
      OBVIOUS
    <3>1. i \in 1 .. n - 1 /\ i + 1 \in 1 .. n - 1
      BY <1>4
    <3>2. t[i] = s[i + 1] /\ t[i + 1] = s[(i + 1) + 1]
      BY <1>6, <3>1
    <3>3. f[s[i + 1]] = s[(i + 1) + 1]
      BY <1>8, <3>1
    <3> QED BY <3>2, <3>3
  <2>5. f[t[n - 1]] = EOC
    BY <1>6, <1>8, <2>1
  <2>6. Path(f, f[c], t)
    BY <1>6, <2>2, <2>3, <2>4, <2>5 DEF Path
  <2>7. On(f, f[c]) = ToSet(t) /\ Sound(f, f[c])
    BY <2>6, PathSound
  <2>8. ToSet(t) = {t[i] : i \in 1 .. n - 1}
    <3>1. ToSet(t) = {t[i] : i \in 1 .. Len(t)}
      BY <2>6, PathFacts
    <3> QED BY <1>6, <3>1, Zenon
  <2>9. c \notin ToSet(t)
    BY <1>3, <1>4, <1>6, <1>7, <2>8
  <2>10. ToSet(s) = ToSet(t) \cup {c}
    <3>1. ASSUME NEW i \in 1 .. n PROVE s[i] \in ToSet(t) \cup {c}
      <4>1. CASE i = 1
        BY <1>3, <4>1
      <4>2. CASE i # 1
        <5>1. i - 1 \in 1 .. n - 1 /\ t[i - 1] = s[i]
          <6>1. i - 1 \in 1 .. n - 1 /\ (i - 1) + 1 = i
            BY <4>2
          <6> QED BY <1>6, <6>1
        <5> QED BY <2>8, <5>1
      <4> QED BY <4>1, <4>2
    <3>2. ASSUME NEW i \in 1 .. n - 1 PROVE t[i] \in ToSet(s)
      BY <1>3, <1>4, <1>6
    <3>3. c \in ToSet(s)
      BY <1>2, PathFacts
    <3> QED BY <1>3, <1>4, <2>8, <3>1, <3>2, <3>3
  <2> QED BY <1>1, <2>2, <2>7, <2>9, <2>10 DEF On
<1> QED BY <1>9, <1>10

-----------------------------------------------------------------------------
(* The table of a directory: the entries of its clusters, one after the    *)
(* other.                                                                  *)

EntryRec == [name : Names \cup {Dir, Missing}, dir : BOOLEAN, clus : {0} \cup Clusters, size : Nat]
DirRec == [kind : {"dir"}, slots : [1 .. Slots -> EntryRec]]
EntryOf(d, p) == IF p[1] < DataEnd /\ d[p[1]].kind = "dir" THEN d[p[1]].slots[p[2]] ELSE FreeSlot
Table(R, d) == [i \in 1 .. Len(R) * Slots |-> EntryOf(d, Places[R][i])]
Full(R, d) == \A a \in 1 .. Len(R) : R[a] < DataEnd /\ d[R[a]] \in DirRec

\* The cluster and the slot of the i-th entry.
Clu(i) == ((i - 1) \div Slots) + 1
Slt(i) == ((i - 1) % Slots) + 1

LEMMA DivMod ==
  ASSUME NEW x \in Nat, NEW n \in Nat, n > 0
  PROVE  x \div n \in Nat /\ x % n \in 0 .. n - 1 /\ x = (x \div n) * n + (x % n)
<1>1. x \div n \in Nat /\ x % n \in 0 .. n - 1
  BY SMT
<1>2. x = n * (x \div n) + (x % n)
  BY SMT
<1> QED BY <1>1, <1>2

LEMMA MulOrder ==
  ASSUME NEW a \in Nat, NEW b \in Nat, NEW n \in Nat
  PROVE  /\ a * n \in Nat /\ b * n \in Nat /\ (a + 1) * n = a * n + n
         /\ a <= b => a * n <= b * n
         /\ a < b => a * n + n <= b * n
<1>1. a * n \in Nat /\ b * n \in Nat /\ (a + 1) * n = a * n + n
  OBVIOUS
<1>2. a <= b => a * n <= b * n
  OBVIOUS
<1>3. a < b => a * n + n <= b * n
  OBVIOUS
<1> QED BY <1>1, <1>2, <1>3

LEMMA Divided ==
  ASSUME NEW a \in Nat, NEW b \in Nat, NEW n \in Nat, b < n, NEW x \in Nat, x = a * n + b
  PROVE  x \div n = a /\ x % n = b
<1>1. PICK q \in Nat, r \in 0 .. n - 1 : q = x \div n /\ r = x % n /\ x = q * n + r
  BY DivMod
<1>2. q * n \in Nat /\ a * n \in Nat /\ (q < a => q * n + n <= a * n) /\ (a < q => a * n + n <= q * n)
  BY MulOrder
<1>3. q = a
  BY <1>1, <1>2
<1>4. q * n = a * n
  BY <1>3
<1> QED BY <1>1, <1>2, <1>3, <1>4

LEMMA Position ==
  ASSUME NEW n \in Nat, NEW i \in 1 .. n * Slots
  PROVE  /\ i \in Nat /\ Clu(i) \in 1 .. n /\ Slt(i) \in 1 .. Slots
         /\ i = (Clu(i) - 1) * Slots + Slt(i)
<1>1. n * Slots \in Nat /\ Slots \in Nat /\ Slots > 0
  BY Sizes, MulOrder
<1>2. i \in Nat /\ i >= 1 /\ i <= n * Slots /\ i - 1 \in Nat
  BY <1>1
<1>3. PICK q \in Nat, r \in 0 .. Slots - 1 :
        q = (i - 1) \div Slots /\ r = (i - 1) % Slots /\ i - 1 = q * Slots + r
  BY <1>1, <1>2, DivMod
<1>4. q * Slots \in Nat /\ (n <= q => n * Slots <= q * Slots)
  BY <1>1, MulOrder
<1>5. q < n
  BY <1>1, <1>2, <1>3, <1>4
<1>6. Clu(i) = q + 1 /\ Slt(i) = r + 1 /\ (q + 1) - 1 = q
  BY <1>3 DEF Clu, Slt
<1>7. i = q * Slots + (r + 1)
  BY <1>2, <1>3, <1>4
<1> QED BY <1>1, <1>2, <1>3, <1>5, <1>6, <1>7

LEMMA At ==
  ASSUME NEW n \in Nat, NEW a \in 1 .. n, NEW b \in 1 .. Slots,
         NEW i, i = (a - 1) * Slots + b
  PROVE  i \in 1 .. n * Slots /\ Clu(i) = a /\ Slt(i) = b
<1>1. Slots \in Nat /\ a - 1 \in Nat /\ b - 1 \in Nat /\ b - 1 < Slots /\ a - 1 < n
  BY Sizes
<1>2. (a - 1) * Slots \in Nat /\ n * Slots \in Nat /\ (a - 1) * Slots + Slots <= n * Slots
  BY <1>1, MulOrder
<1>3. i \in 1 .. n * Slots /\ i - 1 \in Nat /\ i - 1 = (a - 1) * Slots + (b - 1)
  BY <1>1, <1>2
<1>4. (i - 1) \div Slots = a - 1 /\ (i - 1) % Slots = b - 1
  <2>1. PICK p \in Nat, q \in Nat, x \in Nat : p = a - 1 /\ q = b - 1 /\ x = i - 1
    BY <1>1, <1>3
  <2>2. x \div Slots = p /\ x % Slots = q
    <3>1. x = p * Slots + q /\ q < Slots /\ Slots \in Nat
      BY <1>1, <1>3, <2>1
    <3> QED BY <3>1, Divided
  <2> QED BY <2>1, <2>2
<1> QED BY <1>3, <1>4 DEF Clu, Slt

LEMMA PlacesFacts ==
  ASSUME NEW R \in Seq(Clusters)
  PROVE  /\ Len(R) \in Nat /\ Len(R) * Slots \in Nat
         /\ Len(Places[R]) = Len(R) * Slots
         /\ Places[R] \in Seq(Seq(Nat))
         /\ DOMAIN Places[R] = 1 .. Len(R) * Slots
         /\ \A i \in 1 .. Len(R) * Slots : /\ Places[R][i] = <<R[Clu(i)], Slt(i)>>
                                           /\ Places[R][i][1] = R[Clu(i)]
                                           /\ Places[R][i][2] = Slt(i)
                                           /\ Places[R][i] # <<>>
                                           /\ R[Clu(i)] \in Clusters
<1>1. Len(R) \in Nat /\ \A a \in 1 .. Len(R) : R[a] \in Clusters
  <2> DEFINE C == Clusters
  <2>1. R \in Seq(C)
    OBVIOUS
  <2>2. Len(R) \in Nat /\ \A a \in 1 .. Len(R) : R[a] \in C
    <3> HIDE DEF C
    <3> QED BY <2>1
  <2> QED BY <2>2
<1>2. PICK n \in Nat : n = Len(R)
  BY <1>1
<1>3. PICK m \in Nat : m = n * Slots
  BY Sizes, MulOrder
<1>4. Places[R] = [i \in 1 .. m |-> <<R[Clu(i)], Slt(i)>>]
  BY <1>2, <1>3 DEF Places, Clu, Slt
<1>5. \A i \in 1 .. m : R[Clu(i)] \in Clusters /\ R[Clu(i)] \in Nat /\ Slt(i) \in Nat
  <2> SUFFICES ASSUME NEW i \in 1 .. m PROVE R[Clu(i)] \in Clusters /\ R[Clu(i)] \in Nat /\ Slt(i) \in Nat
    OBVIOUS
  <2>1. Clu(i) \in 1 .. n /\ Slt(i) \in 1 .. Slots
    BY <1>3, Position
  <2>2. R[Clu(i)] \in Clusters
    BY <1>1, <1>2, <2>1
  <2>3. Slt(i) \in Nat
    BY <2>1, Sizes
  <2> QED BY <2>2, <2>3, Sizes
<1>6. \A i \in 1 .. m : <<R[Clu(i)], Slt(i)>> \in Seq(Nat)
  BY <1>5
<1>7. \A i \in 1 .. m : /\ Places[R][i] = <<R[Clu(i)], Slt(i)>> /\ Places[R][i][1] = R[Clu(i)]
                        /\ Places[R][i][2] = Slt(i) /\ Places[R][i] # <<>>
  BY <1>4
<1>8. Places[R] \in [1 .. m -> Seq(Nat)] /\ DOMAIN Places[R] = 1 .. m
  BY <1>4, <1>6
<1>9. Places[R] \in Seq(Seq(Nat)) /\ Len(Places[R]) = m
  <2> DEFINE S == Seq(Nat)
  <2>1. Places[R] \in [1 .. m -> S]
    BY <1>8
  <2> HIDE DEF S
  <2>2. Places[R] \in Seq(S) /\ Len(Places[R]) = m
    BY <2>1
  <2> QED BY <2>2 DEF S
<1> QED BY <1>1, <1>2, <1>3, <1>5, <1>7, <1>8, <1>9

LEMMA TableFacts ==
  ASSUME NEW R \in Seq(Clusters), NEW d, Full(R, d)
  PROVE  /\ Len(R) * Slots \in Nat
         /\ Table(R, d) \in [1 .. Len(R) * Slots -> EntryRec]
         /\ DOMAIN Table(R, d) = 1 .. Len(R) * Slots
         /\ \A i \in 1 .. Len(R) * Slots : /\ Table(R, d)[i] = d[R[Clu(i)]].slots[Slt(i)]
                                           /\ Table(R, d)[i] = EntryOf(d, Places[R][i])
<1>1. PICK n \in Nat : n = Len(R)
  BY PlacesFacts
<1>2. PICK m \in Nat : m = n * Slots
  BY Sizes, MulOrder
<1>3. \A i \in 1 .. m : Places[R][i][1] = R[Clu(i)] /\ Places[R][i][2] = Slt(i)
  BY <1>1, <1>2, PlacesFacts
<1>4. ASSUME NEW i \in 1 .. m
      PROVE  /\ EntryOf(d, Places[R][i]) = d[R[Clu(i)]].slots[Slt(i)]
             /\ EntryOf(d, Places[R][i]) \in EntryRec
  <2>1. Clu(i) \in 1 .. n /\ Slt(i) \in 1 .. Slots
    BY <1>2, Position
  <2>2. R[Clu(i)] < DataEnd /\ d[R[Clu(i)]] \in DirRec
    BY <1>1, <2>1 DEF Full
  <2>3. d[R[Clu(i)]].kind = "dir" /\ d[R[Clu(i)]].slots \in [1 .. Slots -> EntryRec]
    BY <2>2 DEF DirRec
  <2>4. d[R[Clu(i)]].slots[Slt(i)] \in EntryRec
    BY <2>1, <2>3
  <2>5. EntryOf(d, Places[R][i]) = d[R[Clu(i)]].slots[Slt(i)]
    BY <1>3, <2>2, <2>3 DEF EntryOf
  <2> QED BY <2>4, <2>5
<1>5. Table(R, d) = [i \in 1 .. m |-> EntryOf(d, Places[R][i])]
  BY <1>1, <1>2 DEF Table
<1> QED BY <1>1, <1>2, <1>4, <1>5

\* FirstPlace, with the data area as a parameter.
Hits(d, ps, n) ==
  {i \in 1 .. Len(ps) : /\ EntryOf(d, ps[i]).name = n
                        /\ \A j \in 1 .. i - 1 : EntryOf(d, ps[j]).name \notin {n, Missing}}
FirstIn(d, ps, n) ==
  IF Hits(d, ps, n) = {} THEN <<>> ELSE ps[CHOOSE i \in Hits(d, ps, n) : TRUE]

LEMMA FirstAbsent ==
  ASSUME NEW R \in Seq(Clusters), NEW d, Full(R, d), NEW n,
         \A i \in 1 .. Len(R) * Slots : Table(R, d)[i].name # n
  PROVE  FirstIn(d, Places[R], n) = <<>>
<1>1. Len(Places[R]) = Len(R) * Slots
  BY PlacesFacts
<1>2. \A i \in 1 .. Len(R) * Slots : EntryOf(d, Places[R][i]) = Table(R, d)[i]
  BY TableFacts
<1>3. Hits(d, Places[R], n) = {}
  BY <1>1, <1>2 DEF Hits
<1> QED BY <1>3 DEF FirstIn

LEMMA FirstPresent ==
  ASSUME NEW R \in Seq(Clusters), NEW d, Full(R, d), NEW n, NEW i \in 1 .. Len(R) * Slots,
         Table(R, d)[i].name = n,
         \A j \in 1 .. i - 1 : Table(R, d)[j].name \notin {n, Missing}
  PROVE  FirstIn(d, Places[R], n) = Places[R][i]
<1>1. PICK m \in Nat : m = Len(R) * Slots
  BY PlacesFacts
<1>2. Len(Places[R]) = m
  BY <1>1, PlacesFacts
<1>3. \A j \in 1 .. m : EntryOf(d, Places[R][j]) = Table(R, d)[j]
  BY <1>1, TableFacts
<1>4. i \in 1 .. m /\ 1 .. i - 1 \subseteq 1 .. m
  BY <1>1
<1>5. i \in Hits(d, Places[R], n)
  BY <1>2, <1>3, <1>4 DEF Hits
<1>6. ASSUME NEW k \in Hits(d, Places[R], n) PROVE k = i
  <2>1. /\ k \in 1 .. m /\ EntryOf(d, Places[R][k]).name = n
        /\ \A j \in 1 .. k - 1 : EntryOf(d, Places[R][j]).name \notin {n, Missing}
    BY <1>2 DEF Hits
  <2>2. Table(R, d)[k].name = n
    BY <1>3, <2>1
  <2>3. ~(k < i)
    BY <1>4, <2>1, <2>2
  <2>4. ~(i < k)
    <3> SUFFICES ASSUME i < k PROVE FALSE
      OBVIOUS
    <3>1. i \in 1 .. k - 1
      BY <1>4, <2>1
    <3> QED BY <1>3, <1>4, <2>1, <3>1
  <2> QED BY <1>4, <2>1, <2>3, <2>4
<1>7. (CHOOSE k \in Hits(d, Places[R], n) : TRUE) = i
  BY <1>5, <1>6
<1>8. Hits(d, Places[R], n) # {}
  BY <1>5
<1> QED BY <1>7, <1>8 DEF FirstIn

\* A data area, a chain without repetition, and the area with the entry x
\* written at p.
Area(d) == d = [c \in 2 .. DataEnd - 1 |-> d[c]]
Once(R) == \A a, b \in 1 .. Len(R) : R[a] = R[b] => a = b
EntryPut(d, p, x) == [d EXCEPT ![p[1]].slots[p[2]] = x]

\* One entry is written.
LEMMA TableWritten ==
  ASSUME NEW R \in Seq(Clusters), NEW d, Full(R, d), NEW i \in 1 .. Len(R) * Slots,
         Once(R), Area(d),
         NEW x \in EntryRec, NEW p, p = Places[R][i],
         NEW e, e = EntryPut(d, p, x)
  PROVE  /\ Full(R, e) /\ Table(R, e) = [Table(R, d) EXCEPT ![i] = x]
         /\ Area(e) /\ p[1] = R[Clu(i)] /\ Clu(i) \in 1 .. Len(R)
         /\ \A c \in 2 .. DataEnd - 1 : c # p[1] => e[c] = d[c]
<1>1. PICK n \in Nat : n = Len(R)
  BY PlacesFacts
<1>2. PICK m \in Nat : m = n * Slots
  BY Sizes, MulOrder
<1>3. PICK c0, s0 : c0 = R[Clu(i)] /\ s0 = Slt(i)
  OBVIOUS
<1>4. p[1] = c0 /\ p[2] = s0
  BY <1>3, PlacesFacts
<1>5. Clu(i) \in 1 .. n /\ s0 \in 1 .. Slots
  BY <1>1, <1>3, Position
<1>6. c0 < DataEnd /\ d[c0] \in DirRec /\ c0 \in Clusters
  BY <1>1, <1>3, <1>5, PlacesFacts DEF Full
<1>7. c0 \in 2 .. DataEnd - 1
  BY <1>6, Sizes DEF Clusters
<1>8. e = [d EXCEPT ![c0] = [d[c0] EXCEPT !.slots = [d[c0].slots EXCEPT ![s0] = x]]]
  BY <1>4 DEF EntryPut
<1> DEFINE new == [d[c0].slots EXCEPT ![s0] = x]
<1>9. d[c0].kind = "dir" /\ d[c0].slots \in [1 .. Slots -> EntryRec]
  BY <1>6 DEF DirRec
<1>10. /\ new \in [1 .. Slots -> EntryRec] /\ new[s0] = x
       /\ \A s \in 1 .. Slots : s # s0 => new[s] = d[c0].slots[s]
  BY <1>5, <1>9
<1> HIDE DEF new
<1>11. [d[c0] EXCEPT !.slots = new] = [kind |-> "dir", slots |-> new]
  <2> DEFINE S == [1 .. Slots -> EntryRec]
  <2>1. d[c0] \in [kind : {"dir"}, slots : S]
    BY <1>6 DEF DirRec
  <2> HIDE DEF S
  <2> QED BY <2>1
<1>12. e = [d EXCEPT ![c0] = [kind |-> "dir", slots |-> new]]
  BY <1>8, <1>11 DEF new
<1>13. e[c0] = [kind |-> "dir", slots |-> new] /\ e[c0].slots = new /\ e[c0] \in DirRec
  <2>1. e[c0] = [kind |-> "dir", slots |-> new]
    BY <1>7, <1>12 DEF Area
  <2>2. e[c0].slots = new
    BY <2>1
  <2>3. e[c0] \in DirRec
    <3> DEFINE S == [1 .. Slots -> EntryRec]
    <3>1. new \in S
      BY <1>10
    <3> HIDE DEF S
    <3>2. [kind |-> "dir", slots |-> new] \in [kind : {"dir"}, slots : S]
      BY <3>1
    <3> QED BY <2>1, <3>2 DEF DirRec, S
  <2> QED BY <2>1, <2>2, <2>3
<1>14. \A c \in 2 .. DataEnd - 1 : c # c0 => e[c] = d[c]
  BY <1>12 DEF Area
<1>a. ASSUME NEW a \in 1 .. n PROVE R[a] \in 2 .. DataEnd - 1
  <2>1. R[a] < DataEnd
    BY <1>1 DEF Full
  <2>2. R[a] \in Clusters
    <3> DEFINE C == Clusters
    <3>1. R \in Seq(C)
      OBVIOUS
    <3> HIDE DEF C
    <3>2. R[a] \in C
      BY <1>1, <3>1
    <3> QED BY <3>2 DEF C
  <2> QED BY <2>1, <2>2, Sizes DEF Clusters
<1>15. Full(R, e)
  BY <1>1, <1>a, <1>13, <1>14 DEF Full
<1>16. Area(e)
  BY <1>12 DEF Area
<1>17. ASSUME NEW j \in 1 .. m PROVE Table(R, e)[j] = [Table(R, d) EXCEPT ![i] = x][j]
  <2>1. Table(R, e)[j] = e[R[Clu(j)]].slots[Slt(j)] /\ Table(R, d)[j] = d[R[Clu(j)]].slots[Slt(j)]
    <3>1. j \in 1 .. Len(R) * Slots
      BY <1>1, <1>2
    <3>2. Table(R, e)[j] = e[R[Clu(j)]].slots[Slt(j)]
      BY <1>15, <3>1, TableFacts, Zenon
    <3>3. Table(R, d)[j] = d[R[Clu(j)]].slots[Slt(j)]
      BY <3>1, TableFacts
    <3> QED BY <3>2, <3>3
  <2>2. Clu(j) \in 1 .. n /\ Slt(j) \in 1 .. Slots /\ j = (Clu(j) - 1) * Slots + Slt(j)
    BY <1>2, Position
  <2>3. DOMAIN Table(R, d) = 1 .. m
    BY <1>1, <1>2, TableFacts
  <2>4. CASE j = i
    BY <1>3, <1>10, <1>13, <2>1, <2>3, <2>4
  <2>5. CASE j # i
    <3>1. i = (Clu(i) - 1) * Slots + Slt(i)
      BY <1>1, <1>2, Position
    <3>2. Clu(j) # Clu(i) \/ Slt(j) # Slt(i)
      BY <2>2, <2>5, <3>1
    <3>3. e[R[Clu(j)]].slots[Slt(j)] = d[R[Clu(j)]].slots[Slt(j)]
      <4>1. CASE Clu(j) # Clu(i)
        <5>1. R[Clu(j)] # c0
          BY <1>1, <1>3, <1>5, <2>2, <4>1 DEF Once
        <5> QED BY <1>14, <1>a, <2>2, <5>1
      <4>2. CASE Clu(j) = Clu(i)
        <5>1. R[Clu(j)] = c0 /\ Slt(j) # s0
          BY <1>3, <3>2, <4>2
        <5> QED BY <1>10, <1>13, <2>2, <5>1
      <4> QED BY <4>1, <4>2
    <3> QED BY <2>1, <2>3, <2>5, <3>3
  <2> QED BY <2>4, <2>5
<1>18. Table(R, e) \in [1 .. m -> EntryRec] /\ Table(R, d) \in [1 .. m -> EntryRec]
  BY <1>1, <1>2, <1>15, TableFacts
<1>19. Table(R, e) = [Table(R, d) EXCEPT ![i] = x]
  BY <1>17, <1>18
<1> QED BY <1>1, <1>3, <1>4, <1>5, <1>14, <1>15, <1>16, <1>19

\* The directory gets another, empty cluster.
LEMMA TableExtended ==
  ASSUME NEW R \in Seq(Clusters), NEW d, Full(R, d),
         NEW c \in Clusters, c < DataEnd, d[c] = ZeroCluster
  PROVE  /\ Append(R, c) \in Seq(Clusters) /\ Full(Append(R, c), d)
         /\ Len(Append(R, c)) * Slots = Len(R) * Slots + Slots
         /\ \A i \in 1 .. Len(R) * Slots : /\ Table(Append(R, c), d)[i] = Table(R, d)[i]
                                           /\ Places[Append(R, c)][i] = Places[R][i]
         /\ \A i \in Len(R) * Slots + 1 .. Len(R) * Slots + Slots :
              Table(Append(R, c), d)[i] = FreeSlot
         /\ Places[Append(R, c)][Len(R) * Slots + 1] = <<c, 1>>
<1>1. PICK n \in Nat : n = Len(R)
  BY PlacesFacts
<1>2. PICK m \in Nat : m = n * Slots
  BY Sizes, MulOrder
<1>3. PICK Q : Q = Append(R, c)
  OBVIOUS
<1>4. Q \in Seq(Clusters) /\ Len(Q) = n + 1 /\ Q[n + 1] = c /\ \A a \in 1 .. n : Q[a] = R[a]
  <2> DEFINE C == Clusters
  <2>1. R \in Seq(C) /\ c \in C
    OBVIOUS
  <2> HIDE DEF C
  <2>2. Q \in Seq(C) /\ Len(Q) = n + 1 /\ Q[n + 1] = c /\ \A a \in 1 .. n : Q[a] = R[a]
    BY <1>1, <1>3, <2>1
  <2> QED BY <2>2 DEF C
<1>5. FreeSlot \in EntryRec
  BY DEF FreeSlot, EntryRec
<1>6. /\ ZeroCluster = [kind |-> "dir", slots |-> [i \in 1 .. Slots |-> FreeSlot]]
      /\ ZeroCluster.slots = [i \in 1 .. Slots |-> FreeSlot]
  BY DEF ZeroCluster, DirCluster
<1>7. ZeroCluster \in DirRec
  BY <1>5, <1>6 DEF DirRec
<1>8. Full(Q, d)
  BY <1>1, <1>4, <1>7 DEF Full
<1>9. Slots \in Nat /\ Slots >= 2 /\ (n + 1) * Slots = m + Slots
  BY <1>2, Sizes, MulOrder
<1>10. /\ \A i \in 1 .. m : Table(R, d)[i] = d[R[Clu(i)]].slots[Slt(i)] /\ Places[R][i] = <<R[Clu(i)], Slt(i)>>
       /\ \A i \in 1 .. m + Slots : /\ Table(Q, d)[i] = d[Q[Clu(i)]].slots[Slt(i)]
                                    /\ Places[Q][i] = <<Q[Clu(i)], Slt(i)>>
  <2>1. Len(Q) * Slots = m + Slots
    BY <1>4, <1>9
  <2>2. \A i \in 1 .. m : Table(R, d)[i] = d[R[Clu(i)]].slots[Slt(i)] /\ Places[R][i] = <<R[Clu(i)], Slt(i)>>
    <3>1. m = Len(R) * Slots
      BY <1>1, <1>2
    <3>2. \A i \in 1 .. Len(R) * Slots : Table(R, d)[i] = d[R[Clu(i)]].slots[Slt(i)]
      BY TableFacts
    <3>3. \A i \in 1 .. Len(R) * Slots : Places[R][i] = <<R[Clu(i)], Slt(i)>>
      BY PlacesFacts
    <3> QED BY <3>1, <3>2, <3>3
  <2>3. \A i \in 1 .. Len(Q) * Slots : /\ Table(Q, d)[i] = d[Q[Clu(i)]].slots[Slt(i)]
                                       /\ Places[Q][i] = <<Q[Clu(i)], Slt(i)>>
    <3>1. \A i \in 1 .. Len(Q) * Slots : Table(Q, d)[i] = d[Q[Clu(i)]].slots[Slt(i)]
      BY <1>4, <1>8, TableFacts, Zenon
    <3>2. \A i \in 1 .. Len(Q) * Slots : Places[Q][i] = <<Q[Clu(i)], Slt(i)>>
      BY <1>4, PlacesFacts, Zenon
    <3> QED BY <3>1, <3>2
  <2> QED BY <2>1, <2>2, <2>3
<1>11. ASSUME NEW i \in 1 .. m PROVE Table(Q, d)[i] = Table(R, d)[i] /\ Places[Q][i] = Places[R][i]
  <2>1. Clu(i) \in 1 .. n
    BY <1>2, Position
  <2>2. Q[Clu(i)] = R[Clu(i)] /\ i \in 1 .. m + Slots
    BY <1>4, <1>9, <2>1
  <2> QED BY <1>10, <2>2
<1>12. ASSUME NEW i \in m + 1 .. m + Slots
       PROVE  Table(Q, d)[i] = FreeSlot /\ Places[Q][i] = <<c, i - m>>
  <2>1. i - m \in 1 .. Slots /\ n + 1 \in 1 .. n + 1 /\ (n + 1) - 1 = n /\ i = n * Slots + (i - m)
    BY <1>2, <1>9
  <2>2. PICK b \in 1 .. Slots, a \in 1 .. n + 1 : b = i - m /\ a = n + 1 /\ i = (a - 1) * Slots + b
    BY <2>1
  <2>3. Clu(i) = a /\ Slt(i) = b
    <3>1. PICK k \in Nat : k = n + 1
      OBVIOUS
    <3>2. a \in 1 .. k
      BY <3>1
    <3>3. i = (a - 1) * Slots + b /\ a \in 1 .. k /\ b \in 1 .. Slots /\ k \in Nat
      BY <2>2, <3>1, <3>2, Zenon
    <3>4. \A z : z = (a - 1) * Slots + b => Clu(z) = a /\ Slt(z) = b
      BY <3>3, At
    <3> QED BY <3>3, <3>4, Zenon
  <2>4. i \in 1 .. m + Slots /\ Q[Clu(i)] = c
    BY <1>4, <1>9, <2>2, <2>3
  <2>5. Table(Q, d)[i] = ZeroCluster.slots[b]
    BY <1>10, <2>3, <2>4
  <2> QED BY <1>6, <1>10, <2>2, <2>3, <2>4, <2>5
<1>13. Places[Q][m + 1] = <<c, 1>>
  <2>1. m + 1 \in m + 1 .. m + Slots /\ (m + 1) - m = 1
    BY <1>9
  <2> QED BY <1>12, <2>1
<1> QED BY <1>1, <1>2, <1>3, <1>4, <1>8, <1>9, <1>11, <1>12, <1>13

-----------------------------------------------------------------------------
(* A sound volume: what the root directory lists, and the chains of its    *)
(* entries.                                                                *)

RootChain(f) == ChainIn(f, Root)
Size(f) == Len(RootChain(f)) * Slots
Tab(f, d) == Table(RootChain(f), d)

\* The used entries come first, no name comes twice, and the directory of the
\* formatted volume is there.
Listing(T, n) ==
  /\ n \in Nat /\ T \in [1 .. n -> EntryRec]
  /\ \A i, j \in 1 .. n : i < j /\ T[j].name # Missing => T[i].name # Missing
  /\ \A i, j \in 1 .. n : T[i].name # Missing /\ T[i].name = T[j].name => i = j
  /\ \E i \in 1 .. n : T[i].name = Dir

\* What holds of one used entry, and of two.
EntrySound(f, x) ==
  /\ Sound(f, x.clus)
  /\ x.dir <=> x.name = Dir
  /\ \A c \in On(f, x.clus) : c < DataEnd
  /\ ~x.dir => Len(ChainIn(f, x.clus)) = x.size
  /\ On(f, x.clus) \cap On(f, Root) = {}
Chained(f, T, n) ==
  /\ \A i \in 1 .. n : T[i].name # Missing => EntrySound(f, T[i])
  /\ \A i, j \in 1 .. n : i # j /\ T[i].name # Missing /\ T[j].name # Missing =>
       On(f, T[i].clus) \cap On(f, T[j].clus) = {}

Vol(f, d) ==
  /\ f \in Copy /\ Area(d)
  /\ Sound(f, Root) /\ Full(RootChain(f), d)
  /\ Listing(Tab(f, d), Size(f)) /\ Chained(f, Tab(f, d), Size(f))

\* The clusters of the directory and of its entries.
Held(f, T, n) ==
  {c \in Clusters : \E i \in 1 .. n : T[i].name # Missing /\ c \in On(f, T[i].clus)}
Reach(f, d) == On(f, Root) \cup Held(f, Tab(f, d), Size(f))

\* ReadChain and fat_read, with the disk as a parameter.
Bytes(d, ch, size) ==
  [i \in 1 .. (IF size < Len(ch) THEN size ELSE Len(ch)) |->
     IF ch[i] < DataEnd /\ d[ch[i]].kind = "file" THEN d[ch[i]].block ELSE Missing]
ReadTable(f, d, T, n, name) ==
  IF \E i \in 1 .. n : T[i].name = name
  THEN LET i == CHOOSE k \in 1 .. n : T[k].name = name
       IN  Bytes(d, ChainIn(f, T[i].clus), T[i].size)
  ELSE Missing
Reads(f, d, name) == ReadTable(f, d, Tab(f, d), Size(f), name)

LEMMA OnClusters ==
  ASSUME NEW f, NEW c, Sound(f, c)
  PROVE  On(f, c) \subseteq Clusters
  BY PathFacts DEF Sound, On

LEMMA VolFacts ==
  ASSUME NEW f, NEW d, Vol(f, d)
  PROVE  /\ RootChain(f) \in Seq(Clusters) /\ On(f, Root) \subseteq Clusters
         /\ On(f, Root) = {RootChain(f)[a] : a \in 1 .. Len(RootChain(f))}
         /\ Len(RootChain(f)) \in Nat /\ Len(RootChain(f)) > 0
         /\ \A a, b \in 1 .. Len(RootChain(f)) : RootChain(f)[a] = RootChain(f)[b] => a = b
         /\ Reach(f, d) \subseteq 2 .. DataEnd - 1
         /\ Reach(f, d) \subseteq Clusters
<1>1. Path(f, Root, RootChain(f))
  BY DEF Vol, Sound, RootChain
<1>2. /\ RootChain(f) \in Seq(Clusters)
      /\ \A a, b \in 1 .. Len(RootChain(f)) : RootChain(f)[a] = RootChain(f)[b] => a = b
  BY <1>1 DEF Path
<1>3. /\ Len(RootChain(f)) \in Nat /\ Len(RootChain(f)) > 0
      /\ ToSet(RootChain(f)) = {RootChain(f)[a] : a \in 1 .. Len(RootChain(f))}
      /\ ToSet(RootChain(f)) \subseteq Clusters
  BY <1>1, PathFacts, Sizes
<1>4. On(f, Root) = ToSet(RootChain(f))
  BY DEF On, RootChain
<1>5. ASSUME NEW c \in On(f, Root) PROVE c < DataEnd
  BY <1>3, <1>4 DEF Vol, Full
<1>6. ASSUME NEW c \in Held(f, Tab(f, d), Size(f)) PROVE c < DataEnd
  BY DEF Held, Vol, Chained, EntrySound
<1>7. ASSUME NEW c \in Reach(f, d) PROVE c \in Clusters /\ c \in 2 .. DataEnd - 1
  <2>1. c < DataEnd
    BY <1>5, <1>6 DEF Reach
  <2>2. c \in Clusters
    BY <1>3, <1>4 DEF Reach, Held
  <2> QED BY <2>1, <2>2, Sizes DEF Clusters
<1> QED BY <1>2, <1>3, <1>4, <1>7

\* What happens outside the directory and its files does not touch them.
LEMMA VolFrame ==
  ASSUME NEW f, NEW d, Vol(f, d), NEW g \in Copy, NEW e, Area(e),
         \A c \in Reach(f, d) : g[c] = f[c] /\ e[c] = d[c]
  PROVE  /\ Vol(g, e) /\ RootChain(g) = RootChain(f) /\ Size(g) = Size(f)
         /\ Tab(g, e) = Tab(f, d) /\ Reach(g, e) = Reach(f, d)
         /\ \A i \in 1 .. Size(f) : Tab(f, d)[i].name # Missing =>
              ChainIn(g, Tab(f, d)[i].clus) = ChainIn(f, Tab(f, d)[i].clus)
         /\ \A name \in Names : Reads(g, e, name) = Reads(f, d, name)
<1>1. ChainIn(g, Root) = ChainIn(f, Root) /\ Sound(g, Root)
  BY SoundFrame DEF Vol, Reach
<1>2. RootChain(g) = RootChain(f) /\ Size(g) = Size(f) /\ On(g, Root) = On(f, Root)
  BY <1>1 DEF RootChain, Size, On
<1>3. PICK R : R = RootChain(f)
  OBVIOUS
<1>4. /\ R \in Seq(Clusters) /\ Full(R, d) /\ Len(R) \in Nat /\ Len(R) * Slots = Size(f)
      /\ \A a \in 1 .. Len(R) : R[a] \in On(f, Root)
  BY <1>3, VolFacts DEF Vol, Size
<1>5. \A a \in 1 .. Len(R) : e[R[a]] = d[R[a]]
  BY <1>4 DEF Reach
<1>6. Full(R, e)
  BY <1>4, <1>5 DEF Full
<1>7. PICK n \in Nat : n = Size(f)
  BY <1>4, PlacesFacts
<1>8. Table(R, e) = Table(R, d)
  <2>1. ASSUME NEW i \in 1 .. n PROVE Table(R, e)[i] = Table(R, d)[i]
    <3>1. i \in 1 .. Len(R) * Slots /\ Clu(i) \in 1 .. Len(R)
      BY <1>4, <1>7, Position
    <3>2. Table(R, e)[i] = e[R[Clu(i)]].slots[Slt(i)]
      BY <1>4, <1>6, <3>1, TableFacts
    <3>3. Table(R, d)[i] = d[R[Clu(i)]].slots[Slt(i)]
      BY <1>4, <3>1, TableFacts
    <3> QED BY <1>5, <3>1, <3>2, <3>3
  <2>2. Table(R, e) \in [1 .. n -> EntryRec] /\ Table(R, d) \in [1 .. n -> EntryRec]
    BY <1>4, <1>6, <1>7, TableFacts
  <2> QED BY <2>1, <2>2
<1>9. Tab(g, e) = Tab(f, d)
  BY <1>2, <1>3, <1>8 DEF Tab
<1>10. PICK T : T = Tab(f, d)
  OBVIOUS
<1>11. Listing(T, n) /\ Chained(f, T, n)
  BY <1>7, <1>10 DEF Vol
<1>12. ASSUME NEW i \in 1 .. n, T[i].name # Missing
       PROVE  /\ ChainIn(g, T[i].clus) = ChainIn(f, T[i].clus)
              /\ On(g, T[i].clus) = On(f, T[i].clus) /\ EntrySound(g, T[i])
  <2>1. EntrySound(f, T[i])
    BY <1>11, <1>12 DEF Chained
  <2>2. Sound(f, T[i].clus) /\ f \in Copy
    BY <2>1 DEF EntrySound, Vol
  <2>3. On(f, T[i].clus) \subseteq Reach(f, d)
    BY <1>7, <1>10, <1>12, <2>2, OnClusters DEF Reach, Held
  <2>4. ChainIn(g, T[i].clus) = ChainIn(f, T[i].clus) /\ Sound(g, T[i].clus)
    BY <2>2, <2>3, SoundFrame
  <2>5. On(g, T[i].clus) = On(f, T[i].clus)
    BY <2>4 DEF On
  <2> QED BY <1>2, <2>1, <2>4, <2>5 DEF EntrySound
<1>13. Chained(g, T, n)
  BY <1>11, <1>12 DEF Chained
<1>14. Vol(g, e)
  BY <1>1, <1>2, <1>3, <1>6, <1>7, <1>9, <1>10, <1>11, <1>13 DEF Vol
<1>15. Held(g, T, n) = Held(f, T, n)
  BY <1>12 DEF Held
<1>16. Reach(g, e) = Reach(f, d)
  BY <1>2, <1>7, <1>9, <1>10, <1>15 DEF Reach
<1>17. ASSUME NEW name \in Names PROVE Reads(g, e, name) = Reads(f, d, name)
  <2>1. Reads(g, e, name) = ReadTable(g, e, T, n, name) /\ Reads(f, d, name) = ReadTable(f, d, T, n, name)
    BY <1>2, <1>7, <1>9, <1>10 DEF Reads
  <2>2. CASE \E i \in 1 .. n : T[i].name = name
    <3>1. PICK i : i = CHOOSE k \in 1 .. n : T[k].name = name
      OBVIOUS
    <3>2. i \in 1 .. n /\ T[i].name = name
      BY <2>2, <3>1
    <3>3. T[i].name # Missing
      BY <3>2, FatAssumption
    <3>4. PICK ch : ch = ChainIn(f, T[i].clus) /\ ch = ChainIn(g, T[i].clus)
      BY <1>12, <3>2, <3>3
    <3>5. Path(f, T[i].clus, ch)
      BY <1>11, <3>2, <3>3, <3>4 DEF Chained, EntrySound, Sound
    <3>6. \A k \in 1 .. Len(ch) : e[ch[k]] = d[ch[k]]
      <4>1. \A k \in 1 .. Len(ch) : ch[k] \in On(f, T[i].clus) /\ ch[k] \in Clusters
        BY <3>4, <3>5, PathFacts DEF On
      <4>2. \A k \in 1 .. Len(ch) : ch[k] \in Reach(f, d)
        BY <1>7, <1>10, <3>2, <3>3, <4>1 DEF Reach, Held
      <4> QED BY <4>2
    <3>7. PICK m : m = IF T[i].size < Len(ch) THEN T[i].size ELSE Len(ch)
      OBVIOUS
    <3>8. T[i].size \in Nat /\ Len(ch) \in Nat
      BY <1>11, <3>2, <3>5, PathFacts DEF Listing, EntryRec
    <3>9. 1 .. m \subseteq 1 .. Len(ch)
      BY <3>7, <3>8
    <3>10. Bytes(e, ch, T[i].size) = Bytes(d, ch, T[i].size)
      BY <3>6, <3>7, <3>9 DEF Bytes
    <3>11. /\ ReadTable(g, e, T, n, name) = Bytes(e, ChainIn(g, T[i].clus), T[i].size)
           /\ ReadTable(f, d, T, n, name) = Bytes(d, ChainIn(f, T[i].clus), T[i].size)
      BY <2>2, <3>1 DEF ReadTable
    <3> QED BY <2>1, <3>4, <3>10, <3>11
  <2>3. CASE ~\E i \in 1 .. n : T[i].name = name
    BY <2>1, <2>3 DEF ReadTable
  <2> QED BY <2>2, <2>3
<1> QED BY <1>2, <1>7, <1>9, <1>10, <1>12, <1>14, <1>16, <1>17

\* Reading by the index of the entry.
LEMMA ReadsAt ==
  ASSUME NEW f, NEW d, NEW T, NEW n, Listing(T, n), NEW name, name # Missing
  PROVE  \A i \in 1 .. n : T[i].name = name =>
           ReadTable(f, d, T, n, name) = Bytes(d, ChainIn(f, T[i].clus), T[i].size)
<1> SUFFICES ASSUME NEW i \in 1 .. n, T[i].name = name
             PROVE  ReadTable(f, d, T, n, name) = Bytes(d, ChainIn(f, T[i].clus), T[i].size)
  OBVIOUS
<1>1. \A j \in 1 .. n : T[j].name = name => j = i
  BY DEF Listing
<1>2. (CHOOSE j \in 1 .. n : T[j].name = name) = i
  BY <1>1
<1> QED BY <1>2 DEF ReadTable

LEMMA BytesFrame ==
  ASSUME NEW f, NEW c, Sound(f, c), NEW d, NEW e, \A x \in On(f, c) : e[x] = d[x], NEW size \in Nat
  PROVE  Bytes(e, ChainIn(f, c), size) = Bytes(d, ChainIn(f, c), size)
<1>1. PICK ch : ch = ChainIn(f, c)
  OBVIOUS
<1>2. Path(f, c, ch)
  BY <1>1 DEF Sound
<1>3. \A k \in 1 .. Len(ch) : e[ch[k]] = d[ch[k]]
  BY <1>1, <1>2, PathFacts DEF On
<1>4. PICK m : m = IF size < Len(ch) THEN size ELSE Len(ch)
  OBVIOUS
<1>5. Len(ch) \in Nat
  BY <1>2, PathFacts
<1>6. 1 .. m \subseteq 1 .. Len(ch)
  BY <1>4, <1>5
<1>7. Bytes(e, ch, size) = Bytes(d, ch, size)
  BY <1>3, <1>4, <1>6 DEF Bytes
<1> QED BY <1>1, <1>7

\* The root directory grows by a zeroed cluster.
LEMMA VolLinked ==
  ASSUME NEW f, NEW d, Vol(f, d), NEW c \in Clusters, c < DataEnd, f[c] = EOC, d[c] = ZeroCluster,
         c \notin Reach(f, d), \A i \in 1 .. Size(f) : Tab(f, d)[i].name # Missing,
         NEW g, g = Linked(f, Last(RootChain(f)), c)
  PROVE  /\ Vol(g, d) /\ RootChain(g) = Append(RootChain(f), c)
         /\ Size(f) \in Nat /\ Size(g) = Size(f) + Slots
         /\ Reach(g, d) = Reach(f, d) \cup {c}
         /\ \A i \in 1 .. Size(f) : Tab(g, d)[i] = Tab(f, d)[i]
         /\ \A i \in Size(f) + 1 .. Size(f) + Slots : Tab(g, d)[i] = FreeSlot
         /\ Places[RootChain(g)][Size(f) + 1] = <<c, 1>>
         /\ \A name \in Names : Reads(g, d, name) = Reads(f, d, name)
<1>1. PICK R, l : R = RootChain(f) /\ l = Last(R)
  OBVIOUS
<1>2. Path(f, Root, R) /\ R # <<>> /\ ToSet(R) = On(f, Root) /\ l = R[Len(R)] /\ l \in On(f, Root)
      /\ R \in Seq(Clusters) /\ Full(R, d) /\ f \in Copy
  <2>1. Path(f, Root, R) /\ ToSet(R) = On(f, Root) /\ l = R[Len(R)] /\ Full(R, d) /\ f \in Copy
    BY <1>1 DEF Vol, Sound, RootChain, On, Last
  <2>2. R # <<>> /\ R \in Seq(Clusters) /\ Len(R) \in 1 .. Len(R)
        /\ ToSet(R) = {R[i] : i \in 1 .. Len(R)}
    <3>1. R # <<>> /\ Len(R) \in Nat /\ Len(R) > 0 /\ ToSet(R) = {R[i] : i \in 1 .. Len(R)}
      BY <2>1, PathFacts, Sizes
    <3>2. R \in Seq(Clusters)
      BY <2>1 DEF Path
    <3> QED BY <3>1, <3>2
  <2> QED BY <2>1, <2>2
<1>3. /\ g \in Copy /\ Path(g, Root, Append(R, c)) /\ ToSet(Append(R, c)) = On(f, Root) \cup {c}
      /\ Len(Append(R, c)) = Len(R) + 1
  <2>1. c \notin ToSet(R) /\ g = Linked(f, R[Len(R)], c)
    BY <1>1, <1>2 DEF Reach
  <2> QED BY <1>2, <2>1, PathLinked
<1>4. RootChain(g) = Append(R, c) /\ Sound(g, Root) /\ On(g, Root) = On(f, Root) \cup {c}
  BY <1>3, PathSound DEF RootChain
<1>5. PICK n \in Nat : n = Size(f)
  BY <1>1, <1>2, PlacesFacts DEF Size
<1>6. /\ Append(R, c) \in Seq(Clusters) /\ Full(Append(R, c), d)
      /\ Len(Append(R, c)) * Slots = n + Slots
      /\ \A i \in 1 .. n : Table(Append(R, c), d)[i] = Table(R, d)[i]
      /\ \A i \in n + 1 .. n + Slots : Table(Append(R, c), d)[i] = FreeSlot
      /\ Places[Append(R, c)][n + 1] = <<c, 1>>
  BY <1>1, <1>2, <1>5, TableExtended DEF Size
<1>7. PICK T, U : T = Tab(f, d) /\ U = Tab(g, d)
  OBVIOUS
<1>8. /\ Size(g) = n + Slots /\ \A i \in 1 .. n : U[i] = T[i]
      /\ \A i \in n + 1 .. n + Slots : U[i] = FreeSlot
  BY <1>1, <1>4, <1>6, <1>7 DEF Tab, Size
<1>9. FreeSlot.name = Missing
  BY DEF FreeSlot
<1>10. Listing(T, n) /\ Chained(f, T, n) /\ Slots \in Nat /\ \A i \in 1 .. n : T[i].name # Missing
  BY <1>5, <1>7, Sizes DEF Vol
<1>11. U \in [1 .. n + Slots -> EntryRec]
  <2>1. U \in [1 .. Len(Append(R, c)) * Slots -> EntryRec]
    BY <1>4, <1>6, <1>7, TableFacts DEF Tab
  <2> QED BY <1>6, <2>1
<1>12. \A i \in 1 .. n + Slots : U[i].name # Missing => i \in 1 .. n
  BY <1>8, <1>9, <1>10
<1>13. Listing(U, n + Slots)
  <2>1. \A i, j \in 1 .. n + Slots : i < j /\ U[j].name # Missing => U[i].name # Missing
    <3> SUFFICES ASSUME NEW i \in 1 .. n + Slots, NEW j \in 1 .. n + Slots, i < j, U[j].name # Missing
                 PROVE  U[i].name # Missing
      OBVIOUS
    <3>1. j \in 1 .. n
      BY <1>12
    <3>2. i \in 1 .. n
      BY <1>10, <3>1
    <3> QED BY <1>8, <1>10, <3>2
  <2>2. \A i, j \in 1 .. n + Slots : U[i].name # Missing /\ U[i].name = U[j].name => i = j
    <3> SUFFICES ASSUME NEW i \in 1 .. n + Slots, NEW j \in 1 .. n + Slots,
                        U[i].name # Missing, U[i].name = U[j].name
                 PROVE  i = j
      OBVIOUS
    <3>1. i \in 1 .. n /\ j \in 1 .. n
      BY <1>12
    <3>2. T[i].name # Missing /\ T[i].name = T[j].name
      BY <1>8, <3>1
    <3> QED BY <1>10, <3>1, <3>2 DEF Listing
  <2>3. \E i \in 1 .. n + Slots : U[i].name = Dir
    <3>1. PICK i \in 1 .. n : T[i].name = Dir
      BY <1>10 DEF Listing
    <3>2. i \in 1 .. n + Slots /\ U[i].name = Dir
      BY <1>8, <1>10, <3>1
    <3> QED BY <3>2
  <2>4. n + Slots \in Nat
    BY <1>10
  <2> QED BY <1>11, <2>1, <2>2, <2>3, <2>4 DEF Listing
<1>14. \A x \in Clusters : x # l => g[x] = f[x]
  BY <1>1, <1>2 DEF Copy, Linked
<1>15. ASSUME NEW i \in 1 .. n
       PROVE  /\ ChainIn(g, T[i].clus) = ChainIn(f, T[i].clus)
              /\ On(g, T[i].clus) = On(f, T[i].clus) /\ EntrySound(g, T[i])
  <2>1. EntrySound(f, T[i])
    BY <1>10 DEF Chained
  <2>2. Sound(f, T[i].clus) /\ On(f, T[i].clus) \subseteq Clusters
    BY <2>1, OnClusters DEF EntrySound
  <2>3. l \notin On(f, T[i].clus)
    BY <1>2, <2>1 DEF EntrySound
  <2>4. ChainIn(g, T[i].clus) = ChainIn(f, T[i].clus) /\ Sound(g, T[i].clus)
    BY <1>2, <1>3, <1>14, <2>2, <2>3, SoundFrame
  <2>5. On(g, T[i].clus) = On(f, T[i].clus)
    BY <2>4 DEF On
  <2>6. c \notin On(f, T[i].clus)
    BY <1>5, <1>7, <1>10 DEF Reach, Held
  <2> QED BY <1>4, <2>1, <2>4, <2>5, <2>6 DEF EntrySound
<1>16. Chained(g, U, n + Slots)
  <2>1. ASSUME NEW i \in 1 .. n + Slots, U[i].name # Missing
        PROVE  i \in 1 .. n /\ U[i] = T[i] /\ EntrySound(g, U[i]) /\ On(g, U[i].clus) = On(f, T[i].clus)
    BY <1>8, <1>12, <1>15, <2>1
  <2>2. ASSUME NEW i \in 1 .. n + Slots, NEW j \in 1 .. n + Slots, i # j,
               U[i].name # Missing, U[j].name # Missing
        PROVE  On(g, U[i].clus) \cap On(g, U[j].clus) = {}
    <3>1. /\ i \in 1 .. n /\ On(g, U[i].clus) = On(f, T[i].clus)
          /\ j \in 1 .. n /\ On(g, U[j].clus) = On(f, T[j].clus)
      BY <2>1, <2>2
    <3>2. On(f, T[i].clus) \cap On(f, T[j].clus) = {}
      BY <1>10, <2>2, <3>1 DEF Chained
    <3> QED BY <3>1, <3>2
  <2> QED BY <2>1, <2>2 DEF Chained
<1>17. Vol(g, d)
  BY <1>3, <1>4, <1>6, <1>7, <1>8, <1>13, <1>16 DEF Vol
<1>18. Held(g, U, n + Slots) = Held(f, T, n)
  <2>1. ASSUME NEW x \in Held(g, U, n + Slots) PROVE x \in Held(f, T, n)
    <3>1. PICK i \in 1 .. n + Slots : U[i].name # Missing /\ x \in On(g, U[i].clus)
      BY DEF Held
    <3>2. i \in 1 .. n /\ U[i] = T[i]
      BY <1>8, <1>12, <3>1
    <3> QED BY <1>15, <3>1, <3>2 DEF Held
  <2>2. ASSUME NEW x \in Held(f, T, n) PROVE x \in Held(g, U, n + Slots)
    <3>1. PICK i \in 1 .. n : T[i].name # Missing /\ x \in On(f, T[i].clus)
      BY DEF Held
    <3>2. i \in 1 .. n + Slots /\ U[i] = T[i]
      BY <1>8, <1>10, <3>1
    <3> QED BY <1>15, <3>1, <3>2 DEF Held
  <2> QED BY <2>1, <2>2
<1>19. Reach(g, d) = Reach(f, d) \cup {c}
  BY <1>4, <1>5, <1>7, <1>8, <1>18 DEF Reach
<1>20. ASSUME NEW name \in Names PROVE Reads(g, d, name) = Reads(f, d, name)
  <2>1. Reads(g, d, name) = ReadTable(g, d, U, n + Slots, name) /\ Reads(f, d, name) = ReadTable(f, d, T, n, name)
    BY <1>5, <1>7, <1>8 DEF Reads
  <2>2. name # Missing
    BY FatAssumption
  <2>3. ASSUME NEW i \in 1 .. n, T[i].name = name PROVE Reads(g, d, name) = Reads(f, d, name)
    <3>1. i \in 1 .. n + Slots /\ U[i] = T[i] /\ U[i].name = name
      BY <1>8, <1>10, <2>3
    <3>2. ReadTable(f, d, T, n, name) = Bytes(d, ChainIn(f, T[i].clus), T[i].size)
      BY <1>10, <2>2, <2>3, ReadsAt
    <3>3. ReadTable(g, d, U, n + Slots, name) = Bytes(d, ChainIn(g, U[i].clus), U[i].size)
      <4>1. PICK k : k = n + Slots
        OBVIOUS
      <4>2. Listing(U, k) /\ i \in 1 .. k
        BY <1>13, <3>1, <4>1
      <4>3. ReadTable(g, d, U, k, name) = Bytes(d, ChainIn(g, U[i].clus), U[i].size)
        <5>1. \A a \in 1 .. k : U[a].name = name =>
                ReadTable(g, d, U, k, name) = Bytes(d, ChainIn(g, U[a].clus), U[a].size)
          BY <2>2, <4>2, ReadsAt
        <5> QED BY <3>1, <4>2, <5>1
      <4> QED BY <4>1, <4>3
    <3> QED BY <1>15, <2>1, <3>1, <3>2, <3>3
  <2>4. ASSUME \A i \in 1 .. n : T[i].name # name PROVE Reads(g, d, name) = Reads(f, d, name)
    <3>1. \A i \in 1 .. n + Slots : U[i].name # name
      BY <1>8, <1>12, <2>2, <2>4
    <3> QED BY <2>1, <2>4, <3>1 DEF ReadTable
  <2> QED BY <2>3, <2>4
<1> QED BY <1>1, <1>4, <1>5, <1>6, <1>7, <1>8, <1>17, <1>19, <1>20

\* The entry a new chain may be written to: the one of that name, or the first
\* free one if there is none.
Fits(T, n, i, name) ==
  /\ i \in 1 .. n
  /\ \/ T[i].name = name
     \/ /\ T[i].name = Missing /\ \A j \in 1 .. i - 1 : T[j].name # Missing
        /\ \A j \in 1 .. n : T[j].name # name
OldChain(f, x) == IF x.name = Missing THEN {} ELSE On(f, x.clus)

\* An entry is replaced by one with a chain that nothing refers to yet.
Replaces(f, d, i, x) ==
  /\ x \in EntryRec /\ x.name \in Names /\ ~x.dir /\ Fits(Tab(f, d), Size(f), i, x.name)
  /\ Sound(f, x.clus) /\ On(f, x.clus) \cap Reach(f, d) = {}
  /\ \A c \in On(f, x.clus) : c < DataEnd
  /\ Len(ChainIn(f, x.clus)) = x.size

LEMMA VolWritten ==
  ASSUME NEW f, NEW d, Vol(f, d), NEW i, NEW x, Replaces(f, d, i, x),
         NEW p, p = Places[RootChain(f)][i], NEW e, e = EntryPut(d, p, x)
  PROVE  /\ Vol(f, e)
         /\ Reach(f, e) = (Reach(f, d) \ OldChain(f, Tab(f, d)[i])) \cup On(f, x.clus)
         /\ Reads(f, e, x.name) = Bytes(d, ChainIn(f, x.clus), x.size)
         /\ \A name \in Names \ {x.name} : Reads(f, e, name) = Reads(f, d, name)
<1> x \in EntryRec /\ x.name \in Names /\ ~x.dir /\ Fits(Tab(f, d), Size(f), i, x.name)
    /\ Sound(f, x.clus) /\ On(f, x.clus) \cap Reach(f, d) = {}
    /\ (\A c \in On(f, x.clus) : c < DataEnd) /\ Len(ChainIn(f, x.clus)) = x.size
  BY DEF Replaces
<1>1. PICK R : R = RootChain(f)
  OBVIOUS
<1>2. /\ R \in Seq(Clusters) /\ Full(R, d) /\ Area(d) /\ f \in Copy /\ Sound(f, Root)
      /\ \A a, b \in 1 .. Len(R) : R[a] = R[b] => a = b
      /\ On(f, Root) = {R[a] : a \in 1 .. Len(R)}
  BY <1>1, VolFacts DEF Vol
<1>3. PICK n \in Nat : n = Size(f)
  BY <1>1, <1>2, PlacesFacts DEF Size
<1>4. PICK T, U : T = Tab(f, d) /\ U = Tab(f, e)
  OBVIOUS
<1>5. i \in 1 .. n /\ n = Len(R) * Slots /\ p = Places[R][i]
  BY <1>1, <1>3, <1>4 DEF Fits, Size
<1>6. /\ Full(R, e) /\ Table(R, e) = [Table(R, d) EXCEPT ![i] = x] /\ Area(e)
      /\ p[1] \in On(f, Root) /\ \A c \in 2 .. DataEnd - 1 : c # p[1] => e[c] = d[c]
  <2>1. /\ Full(R, e) /\ Table(R, e) = [Table(R, d) EXCEPT ![i] = x] /\ Area(e)
        /\ p[1] = R[Clu(i)] /\ Clu(i) \in 1 .. Len(R)
        /\ \A c \in 2 .. DataEnd - 1 : c # p[1] => e[c] = d[c]
    <3>1. i \in 1 .. Len(R) * Slots
      BY <1>5
    <3>2. Once(R)
      BY <1>2 DEF Once
    <3> QED BY <1>2, <1>5, <3>1, <3>2, TableWritten
  <2> QED BY <1>2, <2>1
<1>7. Listing(T, n) /\ Chained(f, T, n)
  BY <1>3, <1>4 DEF Vol
<1>8. T \in [1 .. n -> EntryRec] /\ U = [T EXCEPT ![i] = x]
  BY <1>1, <1>4, <1>6, <1>7 DEF Tab, Listing
<1>9. U \in [1 .. n -> EntryRec] /\ U[i] = x /\ \A j \in 1 .. n : j # i => U[j] = T[j]
  BY <1>5, <1>8
<1>10. x.name # Missing /\ x.name # Dir
  BY FatAssumption
<1>11. /\ T[i].name = x.name \/ T[i].name = Missing
       /\ \A j \in 1 .. n : T[j].name = x.name => j = i
       /\ \A j \in 1 .. n : j < i => T[j].name # Missing
  <2>1. CASE T[i].name = x.name
    <3>1. \A j \in 1 .. n : T[j].name = x.name => j = i
      BY <1>5, <1>7, <1>10, <2>1 DEF Listing
    <3>2. \A j \in 1 .. n : j < i => T[j].name # Missing
      BY <1>5, <1>7, <1>10, <2>1 DEF Listing
    <3> QED BY <2>1, <3>1, <3>2
  <2>2. CASE T[i].name # x.name
    <3>1. /\ T[i].name = Missing /\ \A j \in 1 .. i - 1 : T[j].name # Missing
          /\ \A j \in 1 .. n : T[j].name # x.name
      BY <1>3, <1>4, <2>2 DEF Fits
    <3>2. \A j \in 1 .. n : j < i => j \in 1 .. i - 1
      BY <1>5
    <3> QED BY <3>1, <3>2
  <2> QED BY <2>1, <2>2
<1>12. Listing(U, n)
  <2>1. ASSUME NEW j \in 1 .. n, NEW k \in 1 .. n, j < k, U[k].name # Missing PROVE U[j].name # Missing
    <3>1. CASE j = i
      BY <1>9, <1>10, <3>1
    <3>2. CASE j # i /\ k = i
      BY <1>9, <1>11, <2>1, <3>2
    <3>3. CASE j # i /\ k # i
      BY <1>7, <1>9, <2>1, <3>3 DEF Listing
    <3> QED BY <3>1, <3>2, <3>3
  <2>2. ASSUME NEW j \in 1 .. n, NEW k \in 1 .. n, U[j].name # Missing, U[j].name = U[k].name PROVE j = k
    <3>1. CASE j = i
      BY <1>9, <1>11, <2>2, <3>1
    <3>2. CASE j # i /\ k = i
      BY <1>9, <1>11, <2>2, <3>2
    <3>3. CASE j # i /\ k # i
      BY <1>7, <1>9, <2>2, <3>3 DEF Listing
    <3> QED BY <3>1, <3>2, <3>3
  <2>3. \E j \in 1 .. n : U[j].name = Dir
    <3>1. PICK j \in 1 .. n : T[j].name = Dir
      BY <1>7 DEF Listing
    <3>2. j # i
      BY <1>10, <1>11, <3>1, FatAssumption
    <3> QED BY <1>9, <3>1, <3>2
  <2> QED BY <1>9, <2>1, <2>2, <2>3 DEF Listing
<1>13. Chained(f, U, n)
  <2>1. ASSUME NEW j \in 1 .. n, j # i, U[j].name # Missing
        PROVE  U[j] = T[j] /\ EntrySound(f, T[j]) /\ On(f, T[j].clus) \subseteq Reach(f, d)
    <3>1. U[j] = T[j] /\ EntrySound(f, T[j])
      BY <1>7, <1>9, <2>1 DEF Chained
    <3>2. On(f, T[j].clus) \subseteq Clusters
      BY <3>1, OnClusters DEF EntrySound
    <3> QED BY <1>3, <1>4, <2>1, <3>1, <3>2 DEF Reach, Held
  <2>2. EntrySound(f, x)
    <3>1. On(f, x.clus) \cap On(f, Root) = {}
      BY DEF Reach
    <3> QED BY <1>10, <3>1 DEF EntrySound
  <2>3. ASSUME NEW j \in 1 .. n, U[j].name # Missing PROVE EntrySound(f, U[j])
    BY <1>9, <2>1, <2>2, <2>3
  <2>4. ASSUME NEW j \in 1 .. n, NEW k \in 1 .. n, j # k, U[j].name # Missing, U[k].name # Missing
        PROVE  On(f, U[j].clus) \cap On(f, U[k].clus) = {}
    <3>1. CASE j = i
      BY <1>9, <2>1, <2>4, <3>1
    <3>2. CASE k = i
      BY <1>9, <2>1, <2>4, <3>2
    <3>3. CASE j # i /\ k # i
      BY <1>7, <1>9, <2>4, <3>3 DEF Chained
    <3> QED BY <3>1, <3>2, <3>3
  <2> QED BY <2>3, <2>4 DEF Chained
<1>14. Vol(f, e)
  BY <1>1, <1>2, <1>3, <1>4, <1>6, <1>12, <1>13 DEF Vol
<1>15. Reach(f, d) = On(f, Root) \cup Held(f, T, n) /\ Reach(f, e) = On(f, Root) \cup Held(f, U, n)
  BY <1>3, <1>4 DEF Reach
<1>16. On(f, x.clus) \subseteq Clusters
  BY OnClusters
<1>17. ASSUME NEW c
       PROVE  c \in Held(f, U, n) <=>
                c \in On(f, x.clus) \/ (c \in Held(f, T, n) /\ c \notin OldChain(f, T[i]))
  <2>1. ASSUME c \in Held(f, U, n)
        PROVE  c \in On(f, x.clus) \/ (c \in Held(f, T, n) /\ c \notin OldChain(f, T[i]))
    <3>1. PICK j \in 1 .. n : U[j].name # Missing /\ c \in On(f, U[j].clus) /\ c \in Clusters
      BY <2>1 DEF Held
    <3>2. CASE j = i
      BY <1>9, <3>1, <3>2
    <3>3. CASE j # i
      <4>1. U[j] = T[j]
        BY <1>9, <3>3
      <4>2. c \in Held(f, T, n)
        BY <3>1, <4>1 DEF Held
      <4>3. c \notin OldChain(f, T[i])
        BY <1>5, <1>7, <3>1, <3>3, <4>1 DEF Chained, OldChain
      <4> QED BY <4>2, <4>3
    <3> QED BY <3>2, <3>3
  <2>2. ASSUME c \in On(f, x.clus) PROVE c \in Held(f, U, n)
    BY <1>5, <1>9, <1>10, <1>16, <2>2 DEF Held
  <2>3. ASSUME c \in Held(f, T, n), c \notin OldChain(f, T[i]) PROVE c \in Held(f, U, n)
    <3>1. PICK j \in 1 .. n : T[j].name # Missing /\ c \in On(f, T[j].clus) /\ c \in Clusters
      BY <2>3 DEF Held
    <3>2. j # i
      BY <2>3, <3>1 DEF OldChain
    <3> QED BY <1>9, <3>1, <3>2 DEF Held
  <2> QED BY <2>1, <2>2, <2>3
<1>18. OldChain(f, T[i]) \cap On(f, Root) = {}
  BY <1>5, <1>7 DEF OldChain, Chained, EntrySound
<1>19. Reach(f, e) = (Reach(f, d) \ OldChain(f, T[i])) \cup On(f, x.clus)
  BY <1>15, <1>17, <1>18
<1>20. \A c \in Clusters : c < DataEnd /\ c \notin On(f, Root) => e[c] = d[c]
  BY <1>6, Sizes DEF Clusters
<1>21. Reads(f, e, x.name) = Bytes(d, ChainIn(f, x.clus), x.size)
  <2>1. Reads(f, e, x.name) = ReadTable(f, e, U, n, x.name)
    BY <1>3, <1>4 DEF Reads
  <2>2. \A j \in 1 .. n : U[j].name = x.name =>
          ReadTable(f, e, U, n, x.name) = Bytes(e, ChainIn(f, U[j].clus), U[j].size)
    <3>1. PICK nm : nm = x.name
      OBVIOUS
    <3>2. \A j \in 1 .. n : U[j].name = nm =>
            ReadTable(f, e, U, n, nm) = Bytes(e, ChainIn(f, U[j].clus), U[j].size)
      BY <1>10, <1>12, <3>1, ReadsAt
    <3> QED BY <3>1, <3>2
  <2>3. ReadTable(f, e, U, n, x.name) = Bytes(e, ChainIn(f, x.clus), x.size)
    BY <1>5, <1>9, <2>2
  <2>4. \A c \in On(f, x.clus) : e[c] = d[c]
    BY <1>16, <1>20 DEF Reach
  <2>5. x.size \in Nat
    BY DEF EntryRec
  <2>6. Bytes(e, ChainIn(f, x.clus), x.size) = Bytes(d, ChainIn(f, x.clus), x.size)
    BY <2>4, <2>5, BytesFrame
  <2> QED BY <2>1, <2>3, <2>6
<1>22. ASSUME NEW name \in Names, name # x.name PROVE Reads(f, e, name) = Reads(f, d, name)
  <2>1. Reads(f, e, name) = ReadTable(f, e, U, n, name) /\ Reads(f, d, name) = ReadTable(f, d, T, n, name)
    BY <1>3, <1>4 DEF Reads
  <2>2. name # Missing
    BY FatAssumption
  <2>3. ASSUME NEW j \in 1 .. n, T[j].name = name PROVE Reads(f, e, name) = Reads(f, d, name)
    <3>1. j # i /\ U[j] = T[j]
      BY <1>9, <1>11, <1>22, <2>2, <2>3
    <3>2. \A k \in 1 .. n : U[k].name = name =>
            ReadTable(f, e, U, n, name) = Bytes(e, ChainIn(f, U[k].clus), U[k].size)
      BY <1>12, <2>2, ReadsAt
    <3>3. \A k \in 1 .. n : T[k].name = name =>
            ReadTable(f, d, T, n, name) = Bytes(d, ChainIn(f, T[k].clus), T[k].size)
      BY <1>7, <2>2, ReadsAt
    <3>4. EntrySound(f, T[j]) /\ T[j] \in EntryRec
      BY <1>7, <1>8, <2>2, <2>3 DEF Chained
    <3>5. Sound(f, T[j].clus) /\ T[j].size \in Nat /\ \A c \in On(f, T[j].clus) : e[c] = d[c]
      BY <1>20, <3>4, OnClusters DEF EntrySound, EntryRec
    <3>6. Bytes(e, ChainIn(f, T[j].clus), T[j].size) = Bytes(d, ChainIn(f, T[j].clus), T[j].size)
      BY <3>5, BytesFrame
    <3> QED BY <2>1, <2>3, <3>1, <3>2, <3>3, <3>6
  <2>4. ASSUME \A j \in 1 .. n : T[j].name # name PROVE Reads(f, e, name) = Reads(f, d, name)
    <3>1. \A j \in 1 .. n : U[j].name # name
      BY <1>9, <1>22, <2>4
    <3> QED BY <2>1, <2>4, <3>1 DEF ReadTable
  <2> QED BY <2>3, <2>4
<1> QED BY <1>4, <1>14, <1>19, <1>21, <1>22

-----------------------------------------------------------------------------
(* What the program finds on a sound volume.                               *)

LEMMA FirstFound ==
  ASSUME NEW R \in Seq(Clusters), NEW d, Full(R, d), NEW n, FirstIn(d, Places[R], n) # <<>>
  PROVE  \E i \in 1 .. Len(R) * Slots :
           /\ FirstIn(d, Places[R], n) = Places[R][i] /\ Table(R, d)[i].name = n
           /\ \A j \in 1 .. i - 1 : Table(R, d)[j].name \notin {n, Missing}
<1>1. PICK m \in Nat : m = Len(R) * Slots
  BY PlacesFacts
<1>2. Len(Places[R]) = m
  BY <1>1, PlacesFacts
<1>3. \A j \in 1 .. m : EntryOf(d, Places[R][j]) = Table(R, d)[j]
  BY <1>1, TableFacts
<1>4. PICK i : i = CHOOSE k \in Hits(d, Places[R], n) : TRUE
  OBVIOUS
<1>5. i \in Hits(d, Places[R], n) /\ FirstIn(d, Places[R], n) = Places[R][i]
  BY <1>4 DEF FirstIn
<1>6. /\ i \in 1 .. m /\ EntryOf(d, Places[R][i]).name = n
      /\ \A j \in 1 .. i - 1 : EntryOf(d, Places[R][j]).name \notin {n, Missing}
  BY <1>2, <1>5 DEF Hits
<1>7. 1 .. i - 1 \subseteq 1 .. m
  BY <1>6
<1>8. Table(R, d)[i].name = n /\ \A j \in 1 .. i - 1 : Table(R, d)[j].name \notin {n, Missing}
  BY <1>3, <1>6, <1>7
<1> QED BY <1>1, <1>5, <1>6, <1>8

LEMMA FirstFull ==
  ASSUME NEW R \in Seq(Clusters), NEW d, Full(R, d), FirstIn(d, Places[R], Missing) = <<>>
  PROVE  \A i \in 1 .. Len(R) * Slots : Table(R, d)[i].name # Missing
<1>1. PICK m \in Nat : m = Len(R) * Slots
  BY PlacesFacts
<1>2. PICK T : T = Table(R, d)
  OBVIOUS
<1> DEFINE S == {k \in Nat : \A i \in 1 .. m : i <= k => T[i].name # Missing}
<1>3. 0 \in S
  OBVIOUS
<1>4. ASSUME NEW k \in Nat, k \in S PROVE k + 1 \in S
  <2> SUFFICES ASSUME NEW i \in 1 .. m, i <= k + 1, T[i].name = Missing PROVE FALSE
    OBVIOUS
  <2>1. i = k + 1
    BY <1>4
  <2>2. \A j \in 1 .. i - 1 : j \in 1 .. m /\ j <= k
    BY <2>1
  <2>3. \A j \in 1 .. i - 1 : T[j].name \notin {Missing, Missing}
    BY <1>4, <2>2
  <2>4. i \in 1 .. Len(R) * Slots
    BY <1>1
  <2>5. FirstIn(d, Places[R], Missing) = Places[R][i]
    BY <1>2, <2>3, <2>4, FirstPresent
  <2>6. Places[R][i] # <<>>
    BY <2>4, PlacesFacts
  <2> QED BY <2>5, <2>6
<1>5. Nat \subseteq S
  <2> HIDE DEF S
  <2> QED BY <1>3, <1>4, SetInduction
<1>6. m \in S
  BY <1>5
<1>7. \A i \in 1 .. m : T[i].name # Missing
  BY <1>6
<1> QED BY <1>1, <1>2, <1>7

\* The lookup of a name finds the entry of that name, or there is none.
LEMMA Lookup ==
  ASSUME NEW f, NEW d, Vol(f, d), NEW n, n # Missing
  PROVE  /\ FirstIn(d, Places[RootChain(f)], n) # <<>> =>
              \E i \in 1 .. Size(f) : /\ FirstIn(d, Places[RootChain(f)], n) = Places[RootChain(f)][i]
                                      /\ Tab(f, d)[i].name = n
         /\ FirstIn(d, Places[RootChain(f)], n) = <<>> =>
              \A i \in 1 .. Size(f) : Tab(f, d)[i].name # n
<1>1. PICK R, T : R = RootChain(f) /\ T = Tab(f, d)
  OBVIOUS
<1>2. R \in Seq(Clusters) /\ Full(R, d) /\ Table(R, d) = T /\ Listing(T, Size(f))
  BY <1>1, VolFacts DEF Vol, Tab
<1>3. PICK m \in Nat : m = Len(R) * Slots /\ m = Size(f)
  BY <1>1, <1>2, PlacesFacts DEF Size
<1>4. ASSUME FirstIn(d, Places[R], n) # <<>>
      PROVE  \E i \in 1 .. m : FirstIn(d, Places[R], n) = Places[R][i] /\ T[i].name = n
  <2>1. \E i \in 1 .. Len(R) * Slots :
          /\ FirstIn(d, Places[R], n) = Places[R][i] /\ Table(R, d)[i].name = n
          /\ \A j \in 1 .. i - 1 : Table(R, d)[j].name \notin {n, Missing}
    BY <1>2, <1>4, FirstFound
  <2> QED BY <1>2, <1>3, <2>1
<1>5. ASSUME FirstIn(d, Places[R], n) = <<>>, NEW i \in 1 .. m, T[i].name = n PROVE FALSE
  <2>1. \A j \in 1 .. i - 1 : j \in 1 .. m /\ j < i
    BY <1>5
  <2>2. \A j \in 1 .. i - 1 : T[j].name \notin {n, Missing}
    <3> SUFFICES ASSUME NEW j \in 1 .. i - 1 PROVE T[j].name \notin {n, Missing}
      OBVIOUS
    <3>1. j \in 1 .. m /\ j < i /\ j # i
      BY <1>5, <2>1
    <3> QED BY <1>2, <1>3, <1>5, <3>1 DEF Listing
  <2>3. i \in 1 .. Len(R) * Slots
    BY <1>3
  <2>4. FirstIn(d, Places[R], n) = Places[R][i]
    BY <1>2, <1>5, <2>2, <2>3, FirstPresent
  <2>5. Places[R][i] # <<>>
    BY <1>2, <2>3, PlacesFacts
  <2> QED BY <1>5, <2>4, <2>5
<1> QED BY <1>1, <1>3, <1>4, <1>5

\* The search for a free entry finds the first one, or the directory is full.
LEMMA FreeEntry ==
  ASSUME NEW f, NEW d, Vol(f, d)
  PROVE  /\ FirstIn(d, Places[RootChain(f)], Missing) # <<>> =>
              \E i \in 1 .. Size(f) : /\ FirstIn(d, Places[RootChain(f)], Missing) = Places[RootChain(f)][i]
                                      /\ Tab(f, d)[i].name = Missing
                                      /\ \A j \in 1 .. i - 1 : Tab(f, d)[j].name # Missing
         /\ FirstIn(d, Places[RootChain(f)], Missing) = <<>> =>
              \A i \in 1 .. Size(f) : Tab(f, d)[i].name # Missing
<1>1. PICK R, T : R = RootChain(f) /\ T = Tab(f, d)
  OBVIOUS
<1>2. R \in Seq(Clusters) /\ Full(R, d) /\ Table(R, d) = T
  BY <1>1, VolFacts DEF Vol, Tab
<1>3. PICK m \in Nat : m = Len(R) * Slots /\ m = Size(f)
  BY <1>1, <1>2, PlacesFacts DEF Size
<1>4. ASSUME FirstIn(d, Places[R], Missing) # <<>>
      PROVE  \E i \in 1 .. m : /\ FirstIn(d, Places[R], Missing) = Places[R][i] /\ T[i].name = Missing
                               /\ \A j \in 1 .. i - 1 : T[j].name # Missing
  <2>1. \E i \in 1 .. Len(R) * Slots :
          /\ FirstIn(d, Places[R], Missing) = Places[R][i] /\ Table(R, d)[i].name = Missing
          /\ \A j \in 1 .. i - 1 : Table(R, d)[j].name \notin {Missing, Missing}
    BY <1>2, <1>4, FirstFound
  <2> QED BY <1>2, <1>3, <2>1
<1>5. ASSUME FirstIn(d, Places[R], Missing) = <<>> PROVE \A i \in 1 .. m : T[i].name # Missing
  BY <1>2, <1>3, <1>5, FirstFull
<1> QED BY <1>1, <1>3, <1>4, <1>5

LEMMA FirstPlaceIs ==
  ASSUME NEW ps \in Seq(Seq(Nat)), NEW n \in Names \cup {Dir, Missing}
  PROVE  FirstPlace[ps][n] = FirstIn(data, ps, n)
<1>1. \A p : Entry(p) = EntryOf(data, p)
  BY DEF Entry, EntryOf
<1>2. Hits(data, ps, n) = {i \in 1 .. Len(ps) :
        /\ Entry(ps[i]).name = n
        /\ \A j \in 1 .. i - 1 : Entry(ps[j]).name \notin {n, Missing}}
  BY <1>1 DEF Hits
<1> DEFINE H(m) == {i \in 1 .. Len(ps) :
                      /\ Entry(ps[i]).name = m
                      /\ \A j \in 1 .. i - 1 : Entry(ps[j]).name \notin {m, Missing}}
<1>3. FirstPlace[ps] = [m \in Names \cup {Dir, Missing} |->
                          IF H(m) = {} THEN <<>> ELSE ps[CHOOSE i \in H(m) : TRUE]]
  BY DEF FirstPlace
<1>4. H(n) = Hits(data, ps, n)
  BY <1>2
<1> HIDE DEF H
<1>5. FirstPlace[ps][n] = IF H(n) = {} THEN <<>> ELSE ps[CHOOSE i \in H(n) : TRUE]
  BY <1>3
<1> QED BY <1>4, <1>5 DEF FirstIn

\* The program's view of the disk in the current state.
LEMMA Views ==
  Vol(fat[1], data) =>
    /\ Chain(Root) = RootChain(fat[1])
    /\ \A n \in Names \cup {Dir} : Find(n) = FirstIn(data, Places[RootChain(fat[1])], n)
    /\ FirstFree(Chain(Root)) = FirstIn(data, Places[RootChain(fat[1])], Missing)
    /\ \A p : Entry(p) = EntryOf(data, p)
<1> SUFFICES ASSUME Vol(fat[1], data)
             PROVE  /\ Chain(Root) = RootChain(fat[1])
                    /\ \A n \in Names \cup {Dir} : Find(n) = FirstIn(data, Places[RootChain(fat[1])], n)
                    /\ FirstFree(Chain(Root)) = FirstIn(data, Places[RootChain(fat[1])], Missing)
                    /\ \A p : Entry(p) = EntryOf(data, p)
  OBVIOUS
<1>1. Chain(Root) = RootChain(fat[1])
  BY DEF Chain, RootChain
<1>2. PICK ps : ps = Places[RootChain(fat[1])]
  OBVIOUS
<1>3. ps \in Seq(Seq(Nat))
  BY <1>2, VolFacts, PlacesFacts
<1>4. \A n \in Names \cup {Dir, Missing} : FirstPlace[ps][n] = FirstIn(data, ps, n)
  BY <1>3, FirstPlaceIs
<1>5. \A p : Entry(p) = EntryOf(data, p)
  BY DEF Entry, EntryOf
<1> QED BY <1>1, <1>2, <1>4, <1>5 DEF Find, FirstFree

LEMMA ReadIs == Vol(fat[1], data) => \A n \in Names : fat_read(n) = Reads(fat[1], data, n)
<1> SUFFICES ASSUME Vol(fat[1], data), NEW n \in Names PROVE fat_read(n) = Reads(fat[1], data, n)
  OBVIOUS
<1>1. PICK f, d, R, T, ps : /\ f = fat[1] /\ d = data /\ R = RootChain(f) /\ T = Tab(f, d)
                            /\ ps = Places[R]
  OBVIOUS
<1>2. /\ Vol(f, d) /\ R \in Seq(Clusters) /\ Full(R, d) /\ Table(R, d) = T /\ Listing(T, Size(f))
      /\ Chained(f, T, Size(f)) /\ f \in Copy
  BY <1>1, VolFacts DEF Vol, Tab
<1>3. PICK m \in Nat : m = Len(R) * Slots /\ m = Size(f)
  BY <1>1, <1>2, PlacesFacts DEF Size
<1>4. n # Missing
  BY FatAssumption
<1>5. PICK p : p = Find(n) /\ p = FirstIn(d, ps, n)
  BY <1>1, Views
<1>6. fat_read(n) = ReadPlace[p]
  BY <1>5 DEF fat_read
<1>a. /\ FirstIn(d, Places[RootChain(f)], n) # <<>> =>
           \E i \in 1 .. Size(f) : /\ FirstIn(d, Places[RootChain(f)], n) = Places[RootChain(f)][i]
                                   /\ Tab(f, d)[i].name = n
      /\ FirstIn(d, Places[RootChain(f)], n) = <<>> => \A i \in 1 .. Size(f) : Tab(f, d)[i].name # n
  <2>1. Vol(f, d) /\ n # Missing
    BY <1>2, <1>4
  <2> QED BY <2>1, Lookup
<1>7. CASE p = <<>>
  <2>1. \A i \in 1 .. m : T[i].name # n
    BY <1>1, <1>3, <1>5, <1>7, <1>a
  <2>2. Reads(f, d, n) = Missing
    BY <1>1, <1>3, <2>1 DEF Reads, ReadTable
  <2>3. ReadPlace[<<>>] = Missing
    <3>1. <<>> \in Seq(Nat)
      OBVIOUS
    <3> QED BY <3>1 DEF ReadPlace
  <2> QED BY <1>1, <1>6, <1>7, <2>2, <2>3
<1>8. CASE p # <<>>
  <2>1. PICK i \in 1 .. m : p = ps[i] /\ T[i].name = n
    BY <1>1, <1>3, <1>5, <1>8, <1>a
  <2>2. i \in 1 .. Len(R) * Slots
    BY <1>3
  <2>3. EntryOf(d, p) = T[i]
    <3>1. T[i] = EntryOf(d, Places[R][i])
      BY <1>2, <2>2, TableFacts
    <3> QED BY <1>1, <2>1, <3>1
  <2>4. Entry(p) = T[i]
    BY <1>1, <2>3 DEF Entry, EntryOf
  <2>5. EntrySound(f, T[i]) /\ T[i] \in EntryRec
    BY <1>2, <1>3, <1>4, <2>1 DEF Chained, Listing
  <2>6. PICK ch, size : ch = ChainIn(f, T[i].clus) /\ size = T[i].size
    OBVIOUS
  <2>a. ch \in Seq(Clusters) /\ size \in Nat
    BY <2>5, <2>6 DEF EntrySound, EntryRec, Sound, Path
  <2>7. p \in Seq(Nat)
    <3>1. ps \in Seq(Seq(Nat)) /\ Len(ps) = m
      BY <1>1, <1>2, <1>3, PlacesFacts
    <3> DEFINE S == Seq(Nat)
    <3>2. ps \in Seq(S)
      BY <3>1
    <3> HIDE DEF S
    <3>3. ps[i] \in S
      BY <3>1, <3>2
    <3> QED BY <2>1, <3>3 DEF S
  <2>8. ReadPlace[p] = ReadChain[ch][size]
    BY <1>1, <1>8, <2>4, <2>6, <2>7 DEF ReadPlace, Chain
  <2>9. ReadChain[ch][size] = Bytes(d, ch, size)
    BY <1>1, <2>a DEF ReadChain, Bytes
  <2>10. Reads(f, d, n) = Bytes(d, ch, size)
    <3>1. \A j \in 1 .. m : T[j].name = n =>
            ReadTable(f, d, T, m, n) = Bytes(d, ChainIn(f, T[j].clus), T[j].size)
      BY <1>2, <1>3, <1>4, ReadsAt
    <3> QED BY <1>1, <1>3, <2>1, <2>6, <3>1 DEF Reads
  <2> QED BY <1>1, <1>6, <2>8, <2>9, <2>10
<1> QED BY <1>7, <1>8

LEMMA ReadIsNext == Vol(fat'[1], data') => \A n \in Names : fat_read(n)' = Reads(fat'[1], data', n)
<1>1. (Vol(fat[1], data) => \A n \in Names : fat_read(n) = Reads(fat[1], data, n))'
  BY ReadIs, PTL
<1> QED BY <1>1

-----------------------------------------------------------------------------
(* The inductive invariant: the volume is sound, and what holds at each    *)
(* point of a call.                                                        *)

OpRec ==
  [name : Names \cup {Dir}, content : UNION {Contents[n] : n \in Names \cup {Dir}},
   written : Nat, newclus : {0} \cup Clusters, tail : {0} \cup Clusters,
   c : {0} \cup Clusters \cup {EOC}, found : BOOLEAN, oldclus : {0} \cup Clusters,
   place : Seq(Nat), prev : {0} \cup Clusters, result : {-1, 0}]
SetRec ==
  [c : Clusters, v : {0} \cup Clusters \cup {EOC}, k : 1 .. NumFats,
   ok : {"took", "data", "dir_took", "dir_linked", "free_chain"}, fail : {"abort", "free_chain"}]
Types ==
  /\ TypeOK /\ Area(data)
  /\ pc # "idle" => op \in OpRec /\ op.content \in Contents[op.name]
  /\ pc = "fat_set" => set \in SetRec /\ set.fail = IF set.ok = "free_chain" THEN "free_chain" ELSE "abort"

\* The entry that was found is still there; or none was.
Target(f, d, o) ==
  IF o.found
  THEN \E i \in 1 .. Size(f) : /\ Tab(f, d)[i].name = o.name /\ o.oldclus = Tab(f, d)[i].clus
                               /\ o.place = Places[RootChain(f)][i]
  ELSE \A i \in 1 .. Size(f) : Tab(f, d)[i].name # o.name

\* The new chain has n clusters, the first of which hold what has been written,
\* and nothing refers to it.
NewChain(f, d, o, n) ==
  /\ Sound(f, o.newclus) /\ On(f, o.newclus) \cap Reach(f, d) = {}
  /\ Len(ChainIn(f, o.newclus)) = n
  /\ o.written <= n /\ o.written <= Len(o.content)
  /\ \A i \in 1 .. o.written : /\ ChainIn(f, o.newclus)[i] < DataEnd
                               /\ d[ChainIn(f, o.newclus)[i]] = FileCluster(o.content[i])
  /\ o.written > 0 => o.tail = ChainIn(f, o.newclus)[o.written]
Build(f, d, o, n) ==
  /\ o.result = -1 /\ o.name \in Names
  /\ Target(f, d, o) /\ NewChain(f, d, o, n)

\* The cluster alloc_clus has found, to which nothing is linked yet.
Spare(f, d, o, v) ==
  o.c \in Clusters /\ o.c \notin Reach(f, d) /\ o.c \notin On(f, o.newclus) /\ f[o.c] = v

Writing(f, d, o) == Build(f, d, o, o.written) /\ o.written < Len(o.content)
Written(f, d, o) == Build(f, d, o, o.written) /\ o.written = Len(o.content)
Growing(f, d, o) ==
  /\ Written(f, d, o) /\ ~o.found /\ o.prev = Last(RootChain(f))
  /\ \A i \in 1 .. Size(f) : Tab(f, d)[i].name # Missing
FreePlace(f, d, p) ==
  \E i \in 1 .. Size(f) : /\ p = Places[RootChain(f)][i] /\ Tab(f, d)[i].name = Missing
                          /\ \A j \in 1 .. i - 1 : Tab(f, d)[j].name # Missing

\* What holds at the label q.
Point(q, f, d, o) ==
  /\ q = "lookup" => o.result = -1 /\ o.written = 0 /\ o.newclus = 0 /\ ~o.found
  /\ q = "alloc" => Writing(f, d, o)
  /\ q = "took" => Writing(f, d, o) /\ Spare(f, d, o, EOC)
  /\ q = "data" => /\ Build(f, d, o, o.written + 1) /\ o.written < Len(o.content)
                   /\ o.c = ChainIn(f, o.newclus)[o.written + 1]
  /\ q = "slot" => Written(f, d, o)
  /\ q = "dir_alloc" => Growing(f, d, o)
  /\ q \in {"dir_took", "dir_zero"} => Growing(f, d, o) /\ Spare(f, d, o, EOC)
  /\ q = "dir_linked" => Written(f, d, o) /\ ~o.found /\ FreePlace(f, d, <<o.c, 1>>)
  /\ q = "entry" => Written(f, d, o) /\ (~o.found => FreePlace(f, d, o.place))
  /\ q = "abort" => /\ o.result = -1 /\ Sound(f, o.newclus)
                    /\ On(f, o.newclus) \cap Reach(f, d) = {}
  /\ q = "free_chain" => Sound(f, o.c) /\ On(f, o.c) \cap Reach(f, d) = {}

\* What holds before fat_set has changed the first copy, if it goes on at q.
Before(q, f, d, o, s) ==
  /\ q = "took" => Writing(f, d, o) /\ Spare(f, d, o, 0) /\ s.c = o.c /\ s.v = EOC
  /\ q = "data" => /\ Writing(f, d, o) /\ Spare(f, d, o, EOC) /\ o.newclus # 0
                   /\ s.c = o.tail /\ s.v = o.c
  /\ q = "dir_took" => Growing(f, d, o) /\ Spare(f, d, o, 0) /\ s.c = o.c /\ s.v = EOC
  /\ q = "dir_linked" => /\ Growing(f, d, o) /\ Spare(f, d, o, EOC)
                         /\ o.c < DataEnd /\ d[o.c] = ZeroCluster
                         /\ s.c = o.prev /\ s.v = o.c
  /\ q = "free_chain" => /\ Sound(f, o.c) /\ On(f, o.c) \cap Reach(f, d) = {} /\ s.v = 0
                         /\ s.c \notin Reach(f, d) /\ s.c \notin On(f, o.c)

\* The clusters a call has taken and not yet put into the directory.
Pending(q, f, o) ==
  IF q \in {"idle", "lookup"} THEN {}
  ELSE IF q = "free_chain" THEN On(f, o.c)
  ELSE IF q \in {"took", "dir_took", "dir_zero"} THEN On(f, o.newclus) \cup {o.c}
  ELSE On(f, o.newclus)
PendingBefore(q, f, o, s) ==
  IF q = "free_chain" THEN On(f, o.c) \cup {s.c}
  ELSE IF q \in {"took", "dir_took"} THEN On(f, o.newclus)
  ELSE On(f, o.newclus) \cup {o.c}
Leakless(f, d, P) == \A c \in 2 .. DataEnd - 1 : f[c] # 0 => c \in Reach(f, d) \cup P

Here ==
  IF pc # "fat_set" THEN Point(pc, fat[1], data, op)
  ELSE IF set.k = 1 THEN Before(set.ok, fat[1], data, op, set)
  ELSE Point(set.ok, fat[1], data, op)
Accounted ==
  faults = 0 /\ losses = 0 =>
    Leakless(fat[1], data,
             IF pc # "fat_set" THEN Pending(pc, fat[1], op)
             ELSE IF set.k = 1 THEN PendingBefore(set.ok, fat[1], op, set)
             ELSE Pending(set.ok, fat[1], op))
Result == pc # "idle" /\ op.result = 0 =>
            pc = "free_chain" \/ (pc = "fat_set" /\ set.ok = "free_chain")

FInv == Types /\ Vol(fat[1], data) /\ Here /\ Accounted /\ Result

-----------------------------------------------------------------------------
(* How the parts of the invariant are kept.                                *)

LEMMA OnNonzero ==
  ASSUME NEW f \in Copy, NEW c, Sound(f, c), NEW x \in On(f, c)
  PROVE  f[x] # 0
<1>1. PICK s : s = ChainIn(f, c)
  OBVIOUS
<1>2. Path(f, c, s)
  BY <1>1 DEF Sound
<1>3. PICK i \in 1 .. Len(s) : x = s[i]
  BY <1>1, <1>2, PathFacts DEF On
<1>4. /\ Len(s) \in Nat /\ (\A j \in 1 .. Len(s) : s[j] \in Clusters) /\ s # <<>>
      /\ (\A j \in 1 .. Len(s) - 1 : f[s[j]] = s[j + 1]) /\ f[s[Len(s)]] = EOC
  BY <1>2, <1>3, PathFacts DEF Path
<1>5. CASE i = Len(s)
  BY <1>3, <1>4, <1>5, Sizes
<1>6. CASE i # Len(s)
  <2>1. i \in 1 .. Len(s) - 1 /\ i + 1 \in 1 .. Len(s)
    BY <1>4, <1>6
  <2>2. f[x] \in Clusters
    BY <1>3, <1>4, <2>1
  <2> QED BY <2>2, Sizes
<1> QED BY <1>5, <1>6

\* The reachable clusters are not free.
LEMMA ReachNonzero ==
  ASSUME NEW f, NEW d, Vol(f, d), NEW c \in Reach(f, d)
  PROVE  f[c] # 0
<1>1. f \in Copy /\ Sound(f, Root)
  BY DEF Vol
<1>2. CASE c \in On(f, Root)
  BY <1>1, <1>2, OnNonzero
<1>3. CASE c \notin On(f, Root)
  <2>1. PICK i \in 1 .. Size(f) : Tab(f, d)[i].name # Missing /\ c \in On(f, Tab(f, d)[i].clus)
    BY <1>3 DEF Reach, Held
  <2>2. Sound(f, Tab(f, d)[i].clus)
    BY <2>1 DEF Vol, Chained, EntrySound
  <2> QED BY <1>1, <2>1, <2>2, OnNonzero
<1> QED BY <1>2, <1>3

\* The part of the locals that Build is about.
SameOp(q, o) ==
  /\ q.name = o.name /\ q.content = o.content /\ q.written = o.written /\ q.newclus = o.newclus
  /\ q.tail = o.tail /\ q.found = o.found /\ q.oldclus = o.oldclus /\ q.place = o.place
  /\ q.result = o.result

LEMMA BuildSame ==
  ASSUME NEW f, NEW d, NEW o, NEW n, Build(f, d, o, n), NEW q, SameOp(q, o)
  PROVE  Build(f, d, q, n)
  BY DEF SameOp, Build, Target, NewChain

\* What happens outside the directory, its files and the new chain does not
\* touch them.
LEMMA BuildFrame ==
  ASSUME NEW f, NEW d, Vol(f, d), NEW o, NEW n, Build(f, d, o, n), o.written \in Nat,
         NEW g \in Copy, NEW e, Area(e),
         \A c \in Reach(f, d) : g[c] = f[c] /\ e[c] = d[c],
         \A c \in On(f, o.newclus) : g[c] = f[c],
         \A i \in 1 .. o.written : e[ChainIn(f, o.newclus)[i]] = d[ChainIn(f, o.newclus)[i]]
  PROVE  /\ Build(g, e, o, n)
         /\ ChainIn(g, o.newclus) = ChainIn(f, o.newclus) /\ On(g, o.newclus) = On(f, o.newclus)
<1>1. Target(f, d, o) /\ NewChain(f, d, o, n)
  BY DEF Build
<1>2. f \in Copy /\ Sound(f, o.newclus)
  BY <1>1 DEF Vol, NewChain
<1>3. ChainIn(g, o.newclus) = ChainIn(f, o.newclus) /\ Sound(g, o.newclus)
  BY <1>2, SoundFrame
<1>4. On(g, o.newclus) = On(f, o.newclus)
  BY <1>3 DEF On
<1>5. /\ RootChain(g) = RootChain(f) /\ Size(g) = Size(f) /\ Tab(g, e) = Tab(f, d)
      /\ Reach(g, e) = Reach(f, d)
  BY VolFrame
<1>6. Target(g, e, o)
  BY <1>1, <1>5 DEF Target
<1>7. NewChain(g, e, o, n)
  BY <1>1, <1>3, <1>4, <1>5 DEF NewChain
<1> QED BY <1>3, <1>4, <1>6, <1>7 DEF Build

LEMMA LinkedFacts ==
  ASSUME NEW f \in Copy, NEW c \in Clusters, NEW v \in {0} \cup Clusters \cup {EOC},
         NEW g, g = Linked(f, c, v)
  PROVE  g \in Copy /\ g[c] = v /\ \A x \in Clusters : x # c => g[x] = f[x]
  BY DEF Linked, Copy

\* An entry of the FAT outside the directory, its files and the new chain is
\* changed.
LEMMA SetOutside ==
  ASSUME NEW f, NEW d, Vol(f, d), NEW c \in Clusters, NEW v \in {0} \cup Clusters \cup {EOC},
         c \notin Reach(f, d), NEW g, g = Linked(f, c, v)
  PROVE  /\ Vol(g, d) /\ RootChain(g) = RootChain(f) /\ Size(g) = Size(f) /\ Tab(g, d) = Tab(f, d)
         /\ Reach(g, d) = Reach(f, d)
         /\ \A name \in Names : Reads(g, d, name) = Reads(f, d, name)
         /\ \A x : Sound(f, x) /\ c \notin On(f, x) =>
              Sound(g, x) /\ ChainIn(g, x) = ChainIn(f, x) /\ On(g, x) = On(f, x)
         /\ \A o, n : Build(f, d, o, n) /\ o.written \in Nat /\ c \notin On(f, o.newclus) => Build(g, d, o, n)
<1>1. f \in Copy /\ Area(d)
  BY DEF Vol
<1>2. g \in Copy /\ \A x \in Clusters : x # c => g[x] = f[x]
  BY <1>1, LinkedFacts
<1>3. \A x \in Reach(f, d) : g[x] = f[x] /\ d[x] = d[x]
  BY <1>2, VolFacts
<1>4. ASSUME NEW x, Sound(f, x), c \notin On(f, x)
      PROVE  /\ \A y \in On(f, x) : g[y] = f[y]
             /\ Sound(g, x) /\ ChainIn(g, x) = ChainIn(f, x) /\ On(g, x) = On(f, x)
  <2>1. \A y \in On(f, x) : g[y] = f[y]
    BY <1>2, <1>4, OnClusters
  <2>2. ChainIn(g, x) = ChainIn(f, x) /\ Sound(g, x)
    BY <1>1, <1>2, <1>4, <2>1, SoundFrame
  <2> QED BY <2>1, <2>2 DEF On
<1>5. ASSUME NEW o, NEW n, Build(f, d, o, n), o.written \in Nat, c \notin On(f, o.newclus)
      PROVE  Build(g, d, o, n)
  <2>1. Sound(f, o.newclus)
    BY <1>5 DEF Build, NewChain
  <2>2. \A y \in On(f, o.newclus) : g[y] = f[y]
    BY <1>4, <1>5, <2>1
  <2> QED BY <1>1, <1>2, <1>3, <1>5, <2>2, BuildFrame
<1>6. /\ Vol(g, d) /\ RootChain(g) = RootChain(f) /\ Size(g) = Size(f) /\ Tab(g, d) = Tab(f, d)
      /\ Reach(g, d) = Reach(f, d)
      /\ \A name \in Names : Reads(g, d, name) = Reads(f, d, name)
  BY <1>1, <1>2, <1>3, VolFrame
<1> QED BY <1>4, <1>5, <1>6

\* fat_set has changed the first copy: what held before it leads to what holds
\* where it goes on, nothing that can be read has changed, and what is taken
\* is accounted for.
Done(q, f, g, d, o, s) ==
  /\ Vol(g, d) /\ Point(q, g, d, o)
  /\ \A name \in Names : Reads(g, d, name) = Reads(f, d, name)
  /\ Leakless(f, d, PendingBefore(q, f, o, s)) => Leakless(g, d, Pending(q, g, o))

LEMMA LeaklessStep ==
  ASSUME NEW f \in Copy, NEW d, NEW P, Leakless(f, d, P), NEW c \in Clusters,
         NEW v \in {0} \cup Clusters \cup {EOC}, NEW g, g = Linked(f, c, v),
         NEW Q, Reach(f, d) \cup P \subseteq Reach(g, d) \cup Q \cup {c}, v # 0 => c \in Reach(g, d) \cup Q
  PROVE  Leakless(g, d, Q)
<1>1. g[c] = v /\ \A x \in Clusters : x # c => g[x] = f[x]
  BY LinkedFacts
<1> SUFFICES ASSUME NEW x \in 2 .. DataEnd - 1, g[x] # 0 PROVE x \in Reach(g, d) \cup Q
  BY DEF Leakless
<1>2. x \in Clusters
  BY Sizes
<1>3. CASE x = c
  BY <1>1, <1>3
<1>4. CASE x # c
  <2>1. f[x] # 0
    BY <1>1, <1>2, <1>4
  <2>2. x \in Reach(f, d) \cup P
    BY <2>1 DEF Leakless
  <2> QED BY <1>4, <2>2
<1> QED BY <1>3, <1>4

LEMMA SetTook ==
  ASSUME NEW f, NEW d, Vol(f, d), NEW o \in OpRec, NEW s \in SetRec, NEW q \in {"took", "dir_took"},
         Before(q, f, d, o, s), NEW g, g = Linked(f, s.c, s.v)
  PROVE  Done(q, f, g, d, o, s)
<1>1. /\ Build(f, d, o, o.written) /\ o.written \in Nat /\ Spare(f, d, o, 0) /\ s.c = o.c /\ s.v = EOC
      /\ o.c \in Clusters /\ o.c \notin Reach(f, d) /\ o.c \notin On(f, o.newclus)
      /\ EOC \in {0} \cup Clusters \cup {EOC} /\ f \in Copy
  BY DEF Before, Writing, Growing, Written, Spare, OpRec, Vol
<1>2. PICK c, v : c = o.c /\ v = EOC /\ g = Linked(f, c, v) /\ c \in Clusters /\ c \notin Reach(f, d)
                  /\ v \in {0} \cup Clusters \cup {EOC} /\ v # 0
  BY <1>1, Sizes
<1>3. /\ Vol(g, d) /\ RootChain(g) = RootChain(f) /\ Size(g) = Size(f) /\ Tab(g, d) = Tab(f, d)
      /\ Reach(g, d) = Reach(f, d)
      /\ \A name \in Names : Reads(g, d, name) = Reads(f, d, name)
      /\ \A x : Sound(f, x) /\ c \notin On(f, x) =>
           Sound(g, x) /\ ChainIn(g, x) = ChainIn(f, x) /\ On(g, x) = On(f, x)
      /\ \A p, n : Build(f, d, p, n) /\ p.written \in Nat /\ c \notin On(f, p.newclus) => Build(g, d, p, n)
  BY <1>2, SetOutside
<1>4. Sound(f, o.newclus)
  BY <1>1 DEF Build, NewChain
<1>5. On(g, o.newclus) = On(f, o.newclus) /\ Build(g, d, o, o.written)
  BY <1>1, <1>2, <1>3, <1>4
<1>6. Spare(g, d, o, EOC)
  <2>1. g[c] = v
    BY <1>1, <1>2, LinkedFacts
  <2> QED BY <1>1, <1>2, <1>3, <1>5, <2>1 DEF Spare
<1>7. CASE q = "took"
  <2>1. Point(q, g, d, o)
    BY <1>5, <1>6, <1>7 DEF Point, Before, Writing
  <2> QED BY <1>1, <1>2, <1>3, <1>5, <1>7, <2>1, LeaklessStep DEF Done, Pending, PendingBefore
<1>8. CASE q = "dir_took"
  <2>1. Point(q, g, d, o)
    BY <1>3, <1>5, <1>6, <1>8 DEF Point, Before, Growing, Written
  <2> QED BY <1>1, <1>2, <1>3, <1>5, <1>8, <2>1, LeaklessStep DEF Done, Pending, PendingBefore
<1> QED BY <1>7, <1>8

LEMMA SetLink ==
  ASSUME NEW f, NEW d, Vol(f, d), NEW o \in OpRec, NEW s \in SetRec,
         Before("data", f, d, o, s), NEW g, g = Linked(f, s.c, s.v)
  PROVE  Done("data", f, g, d, o, s)
<1>1. /\ Build(f, d, o, o.written) /\ o.written < Len(o.content) /\ Spare(f, d, o, EOC) /\ o.newclus # 0
      /\ s.c = o.tail /\ s.v = o.c
  BY DEF Before, Writing
<1>2. /\ o.c \in Clusters /\ o.c \notin Reach(f, d) /\ o.c \notin On(f, o.newclus) /\ f[o.c] = EOC
      /\ o.newclus \in Clusters /\ o.written \in Nat /\ f \in Copy
  BY <1>1 DEF Spare, OpRec, Vol
<1>3. PICK N, n : N = ChainIn(f, o.newclus) /\ n = o.written
  OBVIOUS
<1>4. /\ Path(f, o.newclus, N) /\ Len(N) = n /\ ToSet(N) = On(f, o.newclus)
      /\ On(f, o.newclus) \cap Reach(f, d) = {} /\ NewChain(f, d, o, n) /\ n \in Nat
  BY <1>1, <1>2, <1>3 DEF Build, NewChain, Sound, On
<1>5. /\ N # <<>> /\ n > 0 /\ (\A i \in 1 .. n : N[i] \in Clusters)
      /\ ToSet(N) = {N[i] : i \in 1 .. n} /\ DOMAIN N = 1 .. n
  BY <1>2, <1>4, PathFacts
<1>6. o.tail = N[n] /\ o.tail \in On(f, o.newclus) /\ o.tail \in Clusters /\ o.tail \notin Reach(f, d)
  <2>1. o.tail = N[n]
    BY <1>3, <1>4, <1>5 DEF NewChain
  <2>2. n \in 1 .. n
    BY <1>4, <1>5
  <2> QED BY <1>4, <1>5, <2>1, <2>2
<1>7. PICK c, x : c = o.tail /\ x = o.c /\ g = Linked(f, c, x)
  BY <1>1
<1>8. /\ Vol(g, d) /\ RootChain(g) = RootChain(f) /\ Size(g) = Size(f) /\ Tab(g, d) = Tab(f, d)
      /\ Reach(g, d) = Reach(f, d)
      /\ \A name \in Names : Reads(g, d, name) = Reads(f, d, name)
  <2>1. c \in Clusters /\ c \notin Reach(f, d) /\ x \in {0} \cup Clusters \cup {EOC}
    BY <1>2, <1>6, <1>7
  <2>2. Vol(f, d) /\ g = Linked(f, c, x)
    BY <1>7
  <2> QED BY <2>1, <2>2, SetOutside
<1>9. /\ g \in Copy /\ Path(g, o.newclus, Append(N, x))
      /\ ToSet(Append(N, x)) = ToSet(N) \cup {x} /\ Len(Append(N, x)) = n + 1
  <2>1. c = N[Len(N)] /\ x \in Clusters /\ x \notin ToSet(N) /\ f[x] = EOC
    BY <1>2, <1>4, <1>6, <1>7
  <2> QED BY <1>2, <1>4, <1>5, <1>7, <2>1, PathLinked
<1>10. PICK M : M = Append(N, x)
  OBVIOUS
<1>11. /\ ChainIn(g, o.newclus) = M /\ Sound(g, o.newclus) /\ On(g, o.newclus) = On(f, o.newclus) \cup {x}
       /\ Len(M) = n + 1
  BY <1>4, <1>9, <1>10, PathSound
<1>12. M[n + 1] = x /\ \A i \in 1 .. n : M[i] = N[i]
  <2> DEFINE C == Clusters
  <2>1. N \in Seq(C)
    BY <1>4 DEF Path
  <2> HIDE DEF C
  <2> QED BY <1>4, <1>10, <2>1
<1>13. NewChain(g, d, o, n + 1)
  <2>1. On(g, o.newclus) \cap Reach(g, d) = {}
    BY <1>2, <1>4, <1>7, <1>8, <1>11
  <2>2. \A i \in 1 .. o.written : M[i] < DataEnd /\ d[M[i]] = FileCluster(o.content[i])
    BY <1>3, <1>4, <1>12 DEF NewChain
  <2>3. o.tail = M[o.written]
    <3>1. n \in 1 .. n
      BY <1>4, <1>5
    <3> QED BY <1>3, <1>6, <1>12, <3>1
  <2>4. o.written <= n + 1 /\ o.written <= Len(o.content)
    BY <1>3, <1>4 DEF NewChain
  <2> QED BY <1>11, <2>1, <2>2, <2>3, <2>4 DEF NewChain
<1>14. Build(g, d, o, o.written + 1)
  BY <1>1, <1>3, <1>8, <1>13 DEF Build, Target
<1>15. Point("data", g, d, o)
  <2>1. o.c = ChainIn(g, o.newclus)[o.written + 1]
    BY <1>3, <1>7, <1>11, <1>12
  <2> QED BY <1>1, <1>14, <2>1 DEF Point
<1>16. Leakless(f, d, PendingBefore("data", f, o, s)) => Leakless(g, d, Pending("data", g, o))
  <2>1. PendingBefore("data", f, o, s) = On(f, o.newclus) \cup {o.c} /\ Pending("data", g, o) = On(g, o.newclus)
    BY DEF Pending, PendingBefore
  <2>2. PICK P, Q : P = On(f, o.newclus) \cup {o.c} /\ Q = On(g, o.newclus)
    OBVIOUS
  <2>3. /\ c \in Clusters /\ x \in {0} \cup Clusters \cup {EOC} /\ c \in Reach(g, d) \cup Q
        /\ Reach(f, d) \cup P \subseteq Reach(g, d) \cup Q \cup {c}
    BY <1>2, <1>6, <1>7, <1>8, <1>11, <2>2
  <2>4. Leakless(f, d, P) => Leakless(g, d, Q)
    <3> SUFFICES ASSUME Leakless(f, d, P) PROVE Leakless(g, d, Q)
      OBVIOUS
    <3>1. f \in Copy /\ g = Linked(f, c, x)
      BY <1>2, <1>7
    <3> QED BY <2>3, <3>1, LeaklessStep
  <2> QED BY <2>1, <2>2, <2>4
<1> QED BY <1>8, <1>15, <1>16 DEF Done

LEMMA SetGrow ==
  ASSUME NEW f, NEW d, Vol(f, d), NEW o \in OpRec, NEW s \in SetRec,
         Before("dir_linked", f, d, o, s), NEW g, g = Linked(f, s.c, s.v)
  PROVE  Done("dir_linked", f, g, d, o, s)
<1>1. /\ Build(f, d, o, o.written) /\ o.written = Len(o.content) /\ ~o.found /\ Spare(f, d, o, EOC)
      /\ \A i \in 1 .. Size(f) : Tab(f, d)[i].name # Missing
      /\ o.c < DataEnd /\ d[o.c] = ZeroCluster /\ s.c = Last(RootChain(f)) /\ s.v = o.c
  BY DEF Before, Growing, Written
<1>2. PICK c, l : c = o.c /\ l = Last(RootChain(f)) /\ g = Linked(f, l, c)
  BY <1>1
<1>3. /\ c \in Clusters /\ c \notin Reach(f, d) /\ c \notin On(f, o.newclus) /\ f[c] = EOC
      /\ o.written \in Nat /\ f \in Copy /\ c < DataEnd /\ d[c] = ZeroCluster
  BY <1>1, <1>2 DEF Spare, OpRec, Vol
<1>4. /\ Vol(g, d) /\ RootChain(g) = Append(RootChain(f), c)
      /\ Size(f) \in Nat /\ Size(g) = Size(f) + Slots
      /\ Reach(g, d) = Reach(f, d) \cup {c}
      /\ \A i \in 1 .. Size(f) : Tab(g, d)[i] = Tab(f, d)[i]
      /\ \A i \in Size(f) + 1 .. Size(f) + Slots : Tab(g, d)[i] = FreeSlot
      /\ Places[RootChain(g)][Size(f) + 1] = <<c, 1>>
      /\ \A name \in Names : Reads(g, d, name) = Reads(f, d, name)
  BY <1>1, <1>2, <1>3, VolLinked
<1>5. l \in On(f, Root) /\ l \in Reach(f, d) /\ l \in Clusters
  <2>1. /\ On(f, Root) = {RootChain(f)[a] : a \in 1 .. Len(RootChain(f))} /\ On(f, Root) \subseteq Clusters
        /\ Len(RootChain(f)) \in 1 .. Len(RootChain(f))
    BY VolFacts
  <2> QED BY <1>2, <2>1 DEF Last, Reach
<1>6. NewChain(f, d, o, o.written) /\ Sound(f, o.newclus) /\ On(f, o.newclus) \cap Reach(f, d) = {}
  BY <1>1 DEF Build, NewChain
<1>7. ChainIn(g, o.newclus) = ChainIn(f, o.newclus) /\ Sound(g, o.newclus)
      /\ On(g, o.newclus) = On(f, o.newclus)
  <2>1. g \in Copy /\ \A x \in Clusters : x # l => g[x] = f[x]
    <3>1. /\ f \in Copy /\ l \in Clusters /\ c \in {0} \cup Clusters \cup {EOC}
          /\ g = Linked(f, l, c)
      BY <1>2, <1>3, <1>5
    <3> QED BY <3>1, LinkedFacts
  <2>2. \A x \in On(f, o.newclus) : g[x] = f[x]
    BY <1>5, <1>6, <2>1, OnClusters
  <2>3. ChainIn(g, o.newclus) = ChainIn(f, o.newclus) /\ Sound(g, o.newclus)
    BY <1>3, <1>6, <2>1, <2>2, SoundFrame
  <2> QED BY <2>3 DEF On
<1>8. NewChain(g, d, o, o.written)
  <2>1. On(g, o.newclus) \cap Reach(g, d) = {}
    BY <1>3, <1>4, <1>6, <1>7
  <2> QED BY <1>6, <1>7, <2>1 DEF NewChain
<1>9. Slots \in Nat /\ Slots >= 2 /\ FreeSlot.name = Missing
  BY Sizes DEF FreeSlot
<1>10. Target(g, d, o)
  <2>1. o.name # Missing /\ \A i \in 1 .. Size(f) : Tab(f, d)[i].name # o.name
    BY <1>1, FatAssumption DEF Build, Target
  <2>2. ASSUME NEW i \in 1 .. Size(f) + Slots PROVE Tab(g, d)[i].name # o.name
    <3>1. CASE i <= Size(f)
      BY <1>4, <2>1, <3>1
    <3>2. CASE ~(i <= Size(f))
      BY <1>4, <1>9, <2>1, <3>2
    <3> QED BY <3>1, <3>2
  <2> QED BY <1>1, <1>4, <2>2 DEF Target
<1>11. FreePlace(g, d, <<c, 1>>)
  <2>1. PICK i : i = Size(f) + 1
    OBVIOUS
  <2>2. i \in 1 .. Size(g) /\ i \in Size(f) + 1 .. Size(f) + Slots /\ i - 1 = Size(f)
    BY <1>4, <1>9, <2>1
  <2>3. Tab(g, d)[i].name = Missing /\ <<c, 1>> = Places[RootChain(g)][i]
    BY <1>4, <1>9, <2>1, <2>2
  <2>4. \A j \in 1 .. i - 1 : Tab(g, d)[j].name # Missing
    BY <1>1, <1>4, <2>2
  <2> QED BY <2>2, <2>3, <2>4 DEF FreePlace
<1>12. Build(g, d, o, o.written)
  BY <1>1, <1>8, <1>10 DEF Build
<1>13. Point("dir_linked", g, d, o)
  BY <1>1, <1>2, <1>11, <1>12 DEF Point, Written
<1>14. Leakless(f, d, PendingBefore("dir_linked", f, o, s)) => Leakless(g, d, Pending("dir_linked", g, o))
  <2>1. /\ PendingBefore("dir_linked", f, o, s) = On(f, o.newclus) \cup {o.c}
        /\ Pending("dir_linked", g, o) = On(g, o.newclus)
    BY DEF Pending, PendingBefore
  <2>2. PICK P, Q : P = On(f, o.newclus) \cup {o.c} /\ Q = On(g, o.newclus)
    OBVIOUS
  <2>3. /\ l \in Clusters /\ c \in {0} \cup Clusters \cup {EOC} /\ l \in Reach(g, d) \cup Q
        /\ Reach(f, d) \cup P \subseteq Reach(g, d) \cup Q \cup {l}
    BY <1>2, <1>3, <1>4, <1>5, <1>7, <2>2
  <2>4. Leakless(f, d, P) => Leakless(g, d, Q)
    <3> SUFFICES ASSUME Leakless(f, d, P) PROVE Leakless(g, d, Q)
      OBVIOUS
    <3>1. f \in Copy /\ g = Linked(f, l, c)
      BY <1>2, <1>3
    <3> QED BY <2>3, <3>1, LeaklessStep
  <2> QED BY <2>1, <2>2, <2>4
<1> QED BY <1>4, <1>13, <1>14 DEF Done

LEMMA SetFree ==
  ASSUME NEW f, NEW d, Vol(f, d), NEW o \in OpRec, NEW s \in SetRec,
         Before("free_chain", f, d, o, s), NEW g, g = Linked(f, s.c, s.v)
  PROVE  Done("free_chain", f, g, d, o, s)
<1>1. /\ Sound(f, o.c) /\ On(f, o.c) \cap Reach(f, d) = {} /\ s.v = 0
      /\ s.c \notin Reach(f, d) /\ s.c \notin On(f, o.c)
  BY DEF Before
<1>2. PICK c, v : c = s.c /\ v = 0 /\ g = Linked(f, c, v) /\ c \in Clusters
                  /\ v \in {0} \cup Clusters \cup {EOC} /\ f \in Copy
  BY <1>1 DEF SetRec, Vol
<1>3. /\ Vol(g, d) /\ RootChain(g) = RootChain(f) /\ Size(g) = Size(f) /\ Tab(g, d) = Tab(f, d)
      /\ Reach(g, d) = Reach(f, d)
      /\ \A name \in Names : Reads(g, d, name) = Reads(f, d, name)
      /\ \A x : Sound(f, x) /\ c \notin On(f, x) =>
           Sound(g, x) /\ ChainIn(g, x) = ChainIn(f, x) /\ On(g, x) = On(f, x)
  BY <1>1, <1>2, SetOutside
<1>4. Sound(g, o.c) /\ On(g, o.c) = On(f, o.c)
  BY <1>1, <1>2, <1>3
<1>5. Point("free_chain", g, d, o)
  BY <1>1, <1>3, <1>4 DEF Point
<1>6. Leakless(f, d, PendingBefore("free_chain", f, o, s)) => Leakless(g, d, Pending("free_chain", g, o))
  <2>1. /\ PendingBefore("free_chain", f, o, s) = On(f, o.c) \cup {s.c}
        /\ Pending("free_chain", g, o) = On(g, o.c)
    BY DEF Pending, PendingBefore
  <2>2. PICK P, Q : P = On(f, o.c) \cup {s.c} /\ Q = On(g, o.c)
    OBVIOUS
  <2>3. Reach(f, d) \cup P \subseteq Reach(g, d) \cup Q \cup {c} /\ (v # 0 => c \in Reach(g, d) \cup Q)
    BY <1>2, <1>3, <1>4, <2>2
  <2>4. Leakless(f, d, P) => Leakless(g, d, Q)
    <3> SUFFICES ASSUME Leakless(f, d, P) PROVE Leakless(g, d, Q)
      OBVIOUS
    <3> QED BY <1>2, <2>3, LeaklessStep
  <2> QED BY <2>1, <2>2, <2>4
<1> QED BY <1>3, <1>5, <1>6 DEF Done

LEMMA SetDone ==
  ASSUME NEW f, NEW d, Vol(f, d), NEW o \in OpRec, NEW s \in SetRec,
         Before(s.ok, f, d, o, s), NEW g, g = Linked(f, s.c, s.v)
  PROVE  Done(s.ok, f, g, d, o, s)
<1>1. s.ok \in {"took", "data", "dir_took", "dir_linked", "free_chain"}
  BY DEF SetRec
<1>2. CASE s.ok \in {"took", "dir_took"}
  BY <1>2, SetTook
<1>3. CASE s.ok = "data"
  BY <1>3, SetLink
<1>4. CASE s.ok = "dir_linked"
  BY <1>4, SetGrow
<1>5. CASE s.ok = "free_chain"
  BY <1>5, SetFree
<1> QED BY <1>1, <1>2, <1>3, <1>4, <1>5

\* Every point at which a fat_set may fail leads to the error path.
LEMMA FailPoint ==
  ASSUME NEW f, NEW d, NEW o \in OpRec, NEW s,
         NEW q \in {"alloc", "took", "data", "slot", "dir_alloc", "dir_took", "dir_zero", "dir_linked", "entry"},
         Point(q, f, d, o) \/ (q \in {"took", "data", "dir_took", "dir_linked"} /\ Before(q, f, d, o, s))
  PROVE  Point("abort", f, d, o)
<1>1. \E n : Build(f, d, o, n)
  BY DEF Point, Before, Writing, Written, Growing
<1>2. o.result = -1 /\ Sound(f, o.newclus) /\ On(f, o.newclus) \cap Reach(f, d) = {}
  BY <1>1 DEF Build, NewChain
<1> QED BY <1>2 DEF Point

-----------------------------------------------------------------------------
(* Every step keeps the invariant, and all but one of them what can be     *)
(* read.                                                                   *)

Keeps == \A n \in Names : Reads(fat'[1], data', n) = Reads(fat[1], data, n)

Labels == {"idle", "lookup", "alloc", "took", "data", "slot", "dir_alloc", "dir_took",
           "dir_zero", "dir_linked", "entry", "abort", "free_chain", "fat_set"}

LEMMA Unpacked ==
  ASSUME FInv
  PROVE  /\ fat \in [1 .. NumFats -> Copy] /\ fat[1] \in Copy /\ Area(data)
         /\ alloc_hint \in Clusters /\ pc \in Labels /\ ret \in {-1, 0, NoResult}
         /\ faults \in 0 .. MaxFailures /\ losses \in 0 .. MaxFailures
         /\ pc # "idle" => op \in OpRec /\ op.content \in Contents[op.name]
         /\ Vol(fat[1], data)
         /\ pc # "fat_set" => Point(pc, fat[1], data, op)
         /\ pc # "fat_set" /\ faults = 0 /\ losses = 0 => Leakless(fat[1], data, Pending(pc, fat[1], op))
<1>1. fat \in [1 .. NumFats -> Copy] /\ fat[1] \in Copy
  BY Sizes DEF FInv, Types, TypeOK, Copy
<1> QED BY <1>1 DEF FInv, Types, TypeOK, Labels, Here, Accounted

LEMMA FaultFacts ==
  ASSUME FInv, Fault
  PROVE  faults' \in 0 .. MaxFailures /\ faults' # 0
  BY Unpacked, FatAssumption DEF Fault, MayFail

\* A step that ends at a label: what has to be shown.
LEMMA GoesOn ==
  ASSUME FInv, fat' = fat, Area(data'), alloc_hint' \in Clusters,
         pc' \in Labels, pc' # "fat_set", ret' \in {-1, 0, NoResult},
         faults' \in 0 .. MaxFailures, losses' \in 0 .. MaxFailures,
         pc' # "idle" => op' \in OpRec /\ op'.content \in Contents[op'.name],
         Vol(fat[1], data'), Point(pc', fat[1], data', op'),
         faults' = 0 /\ losses' = 0 => Leakless(fat[1], data', Pending(pc', fat[1], op')),
         pc' \in {"idle", "free_chain"} \/ op'.result = -1
  PROVE  FInv'
<1>1. DOMAIN data' = 2 .. DataEnd - 1
  BY DEF Area
<1>2. TypeOK'
  BY <1>1, Unpacked DEF TypeOK, Labels, Copy
<1>3. Types'
  BY <1>2 DEF Types
<1>4. Here' /\ Accounted'
  BY DEF Here, Accounted
<1>5. Result'
  BY DEF Result
<1> QED BY <1>3, <1>4, <1>5 DEF FInv

\* A step that calls fat_set.
LEMMA Calls ==
  ASSUME FInv, fat' = fat, Area(data'), alloc_hint' \in Clusters, ret' = ret,
         faults' \in 0 .. MaxFailures, losses' = losses,
         op' \in OpRec, op'.content \in Contents[op'.name], Vol(fat[1], data'),
         NEW c \in Clusters, NEW v \in {0} \cup Clusters \cup {EOC},
         NEW ok \in {"took", "data", "dir_took", "dir_linked", "free_chain"}, NEW fail,
         fail = IF ok = "free_chain" THEN "free_chain" ELSE "abort",
         CallFatSet(c, v, ok, fail),
         Before(ok, fat[1], data', op', set'),
         faults' = 0 /\ losses = 0 => Leakless(fat[1], data', PendingBefore(ok, fat[1], op', set')),
         ok = "free_chain" \/ op'.result = -1
  PROVE  FInv'
<1>1. DOMAIN data' = 2 .. DataEnd - 1
  BY DEF Area
<1>2. pc' = "fat_set" /\ set' = [c |-> c, v |-> v, k |-> 1, ok |-> ok, fail |-> fail]
  BY DEF CallFatSet, Goto
<1>3. TypeOK'
  BY <1>1, <1>2, Unpacked DEF TypeOK, Copy
<1>4. set' \in SetRec /\ set'.ok = ok /\ set'.fail = fail /\ set'.k = 1
  <2>1. 1 \in 1 .. NumFats /\ fail \in {"abort", "free_chain"}
    BY Sizes
  <2> QED BY <1>2, <2>1 DEF SetRec
<1>5. Types'
  BY <1>2, <1>3, <1>4 DEF Types
<1>6. Here' /\ Accounted'
  BY <1>2, <1>4 DEF Here, Accounted
<1>7. Result'
  BY <1>2, <1>4 DEF Result
<1> QED BY <1>5, <1>6, <1>7 DEF FInv


\* SYS_FWRITE begins a call.
LEMMA StepWrite ==
  ASSUME FInv, NEW n \in Names \cup {Dir}, NEW v \in Contents[n], fat_write(n, v)
  PROVE  FInv' /\ Keeps
<1>1. /\ pc = "idle" /\ pc' = "lookup" /\ fat' = fat /\ data' = data /\ alloc_hint' = alloc_hint
      /\ ret' = ret /\ faults' = faults /\ losses' = losses
      /\ op' = [name |-> n, content |-> v, written |-> 0, newclus |-> 0, tail |-> 0, c |-> 0,
                found |-> FALSE, oldclus |-> 0, place |-> <<>>, prev |-> 0, result |-> -1]
  BY DEF fat_write, Goto, Disk
<1>2. Keeps
  BY <1>1 DEF Keeps
<1>3. op' \in OpRec /\ op'.content \in Contents[op'.name]
  <2>1. v \in UNION {Contents[m] : m \in Names \cup {Dir}} /\ <<>> \in Seq(Nat)
    OBVIOUS
  <2> QED BY <1>1, <2>1 DEF OpRec
<1>4. Point("lookup", fat[1], data, op')
  BY <1>1 DEF Point
<1>5. Pending("lookup", fat[1], op') = {} /\ Pending("idle", fat[1], op) = {}
  BY DEF Pending
<1>6. /\ Area(data) /\ alloc_hint \in Clusters /\ ret \in {-1, 0, NoResult}
      /\ faults \in 0 .. MaxFailures /\ losses \in 0 .. MaxFailures /\ Vol(fat[1], data)
      /\ faults = 0 /\ losses = 0 => Leakless(fat[1], data, {})
  BY <1>1, <1>5, Unpacked
<1>7. "lookup" \in Labels /\ op'.result = -1
  BY <1>1 DEF Labels
<1>8. FInv'
  BY <1>1, <1>3, <1>4, <1>5, <1>6, <1>7, GoesOn
<1> QED BY <1>2, <1>8

\* Every error path frees what was taken.
LEMMA StepAbort ==
  ASSUME FInv, abort
  PROVE  FInv' /\ Keeps
<1>1. /\ pc = "abort" /\ pc' = "free_chain" /\ fat' = fat /\ data' = data /\ alloc_hint' = alloc_hint
      /\ ret' = ret /\ faults' = faults /\ losses' = losses /\ op' = [op EXCEPT !.c = op.newclus]
  BY DEF abort, Goto, Disk, AbortChain
<1>2. Keeps
  BY <1>1 DEF Keeps
<1>3. /\ Area(data) /\ alloc_hint \in Clusters /\ ret \in {-1, 0, NoResult}
      /\ faults \in 0 .. MaxFailures /\ losses \in 0 .. MaxFailures /\ Vol(fat[1], data)
      /\ op \in OpRec /\ op.content \in Contents[op.name]
      /\ Point("abort", fat[1], data, op)
      /\ faults = 0 /\ losses = 0 => Leakless(fat[1], data, Pending("abort", fat[1], op))
  BY <1>1, Unpacked
<1>4. op' \in OpRec /\ op'.content = op.content /\ op'.name = op.name /\ op'.c = op.newclus
  BY <1>1, <1>3 DEF OpRec
<1>5. Point("free_chain", fat[1], data, op')
  BY <1>3, <1>4 DEF Point
<1>6. Pending("free_chain", fat[1], op') = Pending("abort", fat[1], op)
  BY <1>4 DEF Pending
<1>7. "free_chain" \in Labels
  BY DEF Labels
<1>8. FInv'
  BY <1>1, <1>3, <1>4, <1>5, <1>6, <1>7, GoesOn
<1> QED BY <1>2, <1>8

\* The power fails: the disk stays as it is.
LEMMA StepPower ==
  ASSUME FInv, power_loss
  PROVE  FInv' /\ Keeps
<1>1. /\ pc' = "idle" /\ fat' = fat /\ data' = data /\ alloc_hint' = 2
      /\ ret' = NoResult /\ faults' = faults /\ losses' = losses + 1 /\ MayFail
  BY DEF power_loss, Goto, Disk
<1>2. Keeps
  BY <1>1 DEF Keeps
<1>3. /\ Area(data) /\ 2 \in Clusters
      /\ faults \in 0 .. MaxFailures /\ losses \in 0 .. MaxFailures /\ Vol(fat[1], data)
  BY Unpacked, Sizes DEF Root
<1>4. losses' \in 0 .. MaxFailures /\ losses' # 0
  BY <1>1, <1>3, FatAssumption DEF MayFail
<1>5. Point("idle", fat[1], data, op')
  BY DEF Point
<1>6. "idle" \in Labels
  BY DEF Labels
<1>7. FInv'
  BY <1>1, <1>3, <1>4, <1>5, <1>6, GoesOn
<1> QED BY <1>2, <1>7

\* A call returns.
LEMMA StepReturn ==
  ASSUME FInv, NEW r \in {-1, 0}, Return(r), UNCHANGED <<Disk, alloc_hint, faults, losses>>,
         pc \in {"lookup", "free_chain"}, pc = "free_chain" => op.c \notin Clusters
  PROVE  FInv' /\ Keeps
<1>1. /\ pc' = "idle" /\ fat' = fat /\ data' = data /\ alloc_hint' = alloc_hint
      /\ ret' = r /\ faults' = faults /\ losses' = losses
  BY DEF Return, Goto, Disk
<1>2. Keeps
  BY <1>1 DEF Keeps
<1>3. /\ Area(data) /\ alloc_hint \in Clusters /\ r \in {-1, 0, NoResult} /\ fat[1] \in Copy
      /\ faults \in 0 .. MaxFailures /\ losses \in 0 .. MaxFailures /\ Vol(fat[1], data)
      /\ faults = 0 /\ losses = 0 => Leakless(fat[1], data, Pending(pc, fat[1], op))
  BY Unpacked
<1>4. Pending(pc, fat[1], op) = {} /\ Pending("idle", fat[1], op') = {}
  BY <1>3, NoPath DEF Pending
<1>5. Point("idle", fat[1], data, op')
  BY DEF Point
<1>6. "idle" \in Labels
  BY DEF Labels
<1>7. FInv'
  BY <1>1, <1>3, <1>4, <1>5, <1>6, GoesOn
<1> QED BY <1>2, <1>7


LEMMA TabAt ==
  ASSUME NEW f, NEW d, Vol(f, d)
  PROVE  /\ Size(f) \in Nat
         /\ \A i \in 1 .. Size(f) : /\ Tab(f, d)[i] = EntryOf(d, Places[RootChain(f)][i])
                                    /\ Tab(f, d)[i] \in EntryRec
                                    /\ Places[RootChain(f)][i] \in Seq(Nat)
<1>1. PICK R, T : R = RootChain(f) /\ T = Tab(f, d)
  OBVIOUS
<1>2. R \in Seq(Clusters) /\ Full(R, d) /\ Table(R, d) = T
  BY <1>1, VolFacts DEF Vol, Tab
<1>3. PICK m \in Nat : m = Len(R) * Slots /\ m = Size(f)
  BY <1>1, <1>2, PlacesFacts DEF Size
<1>4. \A i \in 1 .. Len(R) * Slots : Table(R, d)[i] = EntryOf(d, Places[R][i])
  BY <1>2, TableFacts
<1>5. Table(R, d) \in [1 .. Len(R) * Slots -> EntryRec]
  BY <1>2, TableFacts
<1>6. Places[R] \in Seq(Seq(Nat)) /\ Len(Places[R]) = Len(R) * Slots
  BY <1>2, PlacesFacts
<1>7. ASSUME NEW i \in 1 .. m
      PROVE  T[i] = EntryOf(d, Places[R][i]) /\ T[i] \in EntryRec /\ Places[R][i] \in Seq(Nat)
  <2>1. T[i] = EntryOf(d, Places[R][i])
    BY <1>2, <1>3, <1>4
  <2>2. T[i] \in EntryRec
    BY <1>2, <1>3, <1>5
  <2>3. Places[R][i] \in Seq(Nat)
    <3> DEFINE S == Seq(Nat)
    <3> HIDE DEF S
    <3>1. Places[R] \in Seq(S) /\ Len(Places[R]) = m
      BY <1>3, <1>6 DEF S
    <3>2. Places[R][i] \in S
      BY <3>1
    <3> QED BY <3>2 DEF S
  <2> QED BY <2>1, <2>2, <2>3
<1> QED BY <1>1, <1>3, <1>7

\* Where the call goes when it has written some blocks.
LEMMA NextPoint ==
  ASSUME NEW f, NEW d, NEW o \in OpRec, o.content \in Contents[o.name], Build(f, d, o, o.written)
  PROVE  /\ Point(NextBlock(o), f, d, o) /\ NextBlock(o) \in Labels
         /\ NextBlock(o) \notin {"fat_set", "idle"}
         /\ Pending(NextBlock(o), f, o) = On(f, o.newclus)
<1>1. o.written \in Nat /\ Len(o.content) \in Nat /\ o.written <= Len(o.content)
  <2>1. o.content \in Seq(ToSet(o.content))
    BY FatAssumption DEF OpRec
  <2> QED BY <2>1 DEF OpRec, Build, NewChain
<1>2. CASE o.written < Len(o.content)
  <2>1. NextBlock(o) = "alloc" /\ Writing(f, d, o)
    BY <1>2 DEF NextBlock, Writing
  <2> QED BY <2>1 DEF Point, Pending, Labels
<1>3. CASE ~(o.written < Len(o.content))
  <2>1. NextBlock(o) = "slot" /\ o.written = Len(o.content)
    BY <1>1, <1>3 DEF NextBlock
  <2>2. Written(f, d, o)
    BY <2>1 DEF Written
  <2> QED BY <2>1, <2>2 DEF Point, Pending, Labels
<1> QED BY <1>2, <1>3

\* lookup finds the entry of that name, or there is none.
LEMMA StepLookup ==
  ASSUME FInv, lookup
  PROVE  FInv' /\ Keeps
<1>1. PICK f, d, p : f = fat[1] /\ d = data /\ p = Find(op.name)
  OBVIOUS
<1>2. /\ pc = "lookup" /\ fat' = fat /\ data' = data /\ alloc_hint' = alloc_hint
      /\ faults' = faults /\ losses' = losses
  BY DEF lookup, Disk
<1>3. /\ Area(d) /\ alloc_hint \in Clusters /\ ret \in {-1, 0, NoResult} /\ f \in Copy
      /\ faults \in 0 .. MaxFailures /\ losses \in 0 .. MaxFailures /\ Vol(f, d)
      /\ op \in OpRec /\ op.content \in Contents[op.name]
      /\ Point("lookup", f, d, op)
      /\ faults = 0 /\ losses = 0 => Leakless(f, d, Pending("lookup", f, op))
  BY <1>1, <1>2, Unpacked
<1>4. CASE p # <<>> /\ Entry(p).dir
  <2>1. Return(-1) /\ -1 \in {-1, 0} /\ UNCHANGED <<Disk, alloc_hint, faults, losses>>
    BY <1>1, <1>4 DEF lookup
  <2> QED BY <1>2, <2>1, StepReturn
<1>5. CASE ~(p # <<>> /\ Entry(p).dir)
  <2>1. /\ op' = IF p = <<>> THEN op
                 ELSE [op EXCEPT !.found = TRUE, !.place = p, !.oldclus = Entry(p).clus]
        /\ pc' = NextBlock(op) /\ ret' = ret
    BY <1>1, <1>5 DEF lookup, Goto
  <2>2. /\ op.name \in Names \cup {Dir} /\ op.name # Missing /\ op.result = -1
        /\ op.written = 0 /\ op.newclus = 0 /\ ~op.found
    BY <1>3, FatAssumption DEF OpRec, Point
  <2>3. p = FirstIn(d, Places[RootChain(f)], op.name) /\ \A q : Entry(q) = EntryOf(d, q)
    BY <1>1, <1>3, <2>2, Views
  <2>a. PICK n : n = op.name
    OBVIOUS
  <2>c. Vol(f, d) /\ n # Missing
    BY <1>3, <2>2, <2>a
  <2>b. /\ FirstIn(d, Places[RootChain(f)], n) # <<>> =>
              \E i \in 1 .. Size(f) : /\ FirstIn(d, Places[RootChain(f)], n) = Places[RootChain(f)][i]
                                      /\ Tab(f, d)[i].name = n
        /\ FirstIn(d, Places[RootChain(f)], n) = <<>> => \A i \in 1 .. Size(f) : Tab(f, d)[i].name # n
    BY <2>c, Lookup
  <2>4. /\ p # <<>> => \E i \in 1 .. Size(f) : /\ p = Places[RootChain(f)][i]
                                                /\ Tab(f, d)[i].name = op.name
        /\ p = <<>> => \A i \in 1 .. Size(f) : Tab(f, d)[i].name # op.name
    BY <2>3, <2>a, <2>b
  <2>5. /\ op' \in OpRec /\ Target(f, d, op') /\ op.name \in Names
        /\ op'.name = op.name /\ op'.content = op.content /\ op'.written = 0 /\ op'.newclus = 0
        /\ op'.result = -1
    <3>1. CASE p = <<>>
      <4>1. op' = op
        BY <2>1, <3>1
      <4>2. \A i \in 1 .. Size(f) : Tab(f, d)[i].name # op.name
        BY <2>3, <2>4, <3>1
      <4>3. op.name # Dir
        BY <1>3, <4>2 DEF Vol, Listing
      <4> QED BY <1>3, <2>2, <4>1, <4>2, <4>3 DEF Target
    <3>2. CASE p # <<>>
      <4>1. op' = [op EXCEPT !.found = TRUE, !.place = p, !.oldclus = Entry(p).clus]
        BY <2>1, <3>2
      <4>2. PICK i \in 1 .. Size(f) : p = Places[RootChain(f)][i] /\ Tab(f, d)[i].name = op.name
        BY <2>3, <2>4, <3>2
      <4>3. Tab(f, d)[i] = EntryOf(d, p) /\ Tab(f, d)[i] \in EntryRec /\ p \in Seq(Nat)
        BY <1>3, <4>2, TabAt
      <4>4. Entry(p) = Tab(f, d)[i] /\ Tab(f, d)[i].clus \in {0} \cup Clusters
        BY <2>3, <4>3 DEF EntryRec
      <4>5. op.name # Dir
        <5>1. EntrySound(f, Tab(f, d)[i])
          BY <1>3, <2>2, <4>2 DEF Vol, Chained
        <5> QED BY <1>5, <3>2, <4>2, <4>4, <5>1 DEF EntrySound
      <4>6. /\ op'.found = TRUE /\ op'.place = p /\ op'.oldclus = Tab(f, d)[i].clus
            /\ op'.name = op.name /\ op'.content = op.content /\ op'.written = 0 /\ op'.newclus = 0
            /\ op'.result = -1
        BY <1>3, <2>2, <4>1, <4>4 DEF OpRec
      <4>7. op' \in OpRec
        BY <1>3, <4>1, <4>3, <4>4 DEF OpRec
      <4>8. Target(f, d, op')
        BY <4>2, <4>6 DEF Target
      <4> QED BY <2>2, <4>5, <4>6, <4>7, <4>8
    <3> QED BY <3>1, <3>2
  <2>6. ChainIn(f, 0) = <<>> /\ Sound(f, 0) /\ On(f, 0) = {} /\ Len(op.content) \in Nat
    <3>1. op.content \in Seq(ToSet(op.content))
      BY <1>3, <2>2, FatAssumption
    <3> QED BY <1>3, <3>1, NoPath, Sizes
  <2>7. Build(f, d, op', op'.written)
    <3>1. NewChain(f, d, op', 0)
      BY <2>5, <2>6 DEF NewChain
    <3> QED BY <2>5, <3>1 DEF Build
  <2>8. NextBlock(op') = NextBlock(op)
    BY <2>2, <2>5 DEF NextBlock
  <2>9. /\ Point(pc', f, d, op') /\ pc' \in Labels /\ pc' \notin {"fat_set", "idle"}
        /\ Pending(pc', f, op') = {}
    BY <1>3, <2>1, <2>5, <2>6, <2>7, <2>8, NextPoint
  <2>10. Pending("lookup", f, op) = {} /\ op'.content \in Contents[op'.name]
    BY <1>3, <2>5 DEF Pending
  <2>11. FInv'
    BY <1>1, <1>2, <1>3, <2>1, <2>5, <2>9, <2>10, GoesOn
  <2> QED BY <1>2, <2>11 DEF Keeps
<1> QED BY <1>4, <1>5


\* A set of numbers has a smallest one.
LEMMA Least ==
  ASSUME NEW S, S \subseteq Nat, S # {}
  PROVE  (CHOOSE i \in S : \A j \in S : i <= j) \in S
<1> DEFINE R == {p \in Nat \X Nat : p[1] < p[2]}
<1>1. IsWellFoundedOn(R, Nat)
  <2>1. R = OpToRel(<, Nat)
    BY DEF OpToRel
  <2> QED BY <2>1, NatLessThanWellFounded
<1>2. PICK x \in S : \A y \in S : ~(<<y, x>> \in R)
  <2> HIDE DEF R
  <2> QED BY <1>1, WFMin
<1>3. \A y \in S : ~(y < x)
  <2> SUFFICES ASSUME NEW y \in S PROVE ~(y < x)
    OBVIOUS
  <2>1. ~(<<y, x>> \in R) /\ y \in Nat /\ x \in Nat
    BY <1>2
  <2> QED BY <2>1, Zenon
<1>4. \A y \in S : x <= y
  BY <1>3
<1> QED BY <1>4

LEMMA CandidateFacts ==
  ASSUME FInv, NEW i \in FreeCandidates
  PROVE  Candidate(i) \in Clusters /\ fat[1][Candidate(i)] = 0
<1>1. PICK h, m, x : h = alloc_hint + i /\ m = FatMax - 2 /\ x = h % m
  OBVIOUS
<1>2. h \in Nat /\ m \in Nat /\ m > 0
  BY <1>1, Unpacked, Sizes DEF FreeCandidates, Clusters
<1>3. x \in 0 .. m - 1
  BY <1>1, <1>2, DivMod
<1>4. Candidate(i) = 2 + x
  BY <1>1 DEF Candidate
<1>5. Candidate(i) \in Clusters
  BY <1>1, <1>3, <1>4, Sizes DEF Clusters
<1> QED BY <1>5 DEF FreeCandidates

\* alloc_clus finds a cluster that nothing refers to, or gives up.
LEMMA StepAlloc ==
  ASSUME FInv, NEW from, NEW ok, alloc_clus(from, ok),
         (from = "alloc" /\ ok = "took") \/ (from = "dir_alloc" /\ ok = "dir_took")
  PROVE  FInv' /\ Keeps
<1>1. PICK f, d : f = fat[1] /\ d = data
  OBVIOUS
<1>2. /\ pc = from /\ fat' = fat /\ data' = data /\ alloc_hint' = alloc_hint
      /\ ret' = ret /\ losses' = losses
  BY DEF alloc_clus, Disk
<1>3. /\ Area(d) /\ alloc_hint \in Clusters /\ ret \in {-1, 0, NoResult} /\ f \in Copy
      /\ faults \in 0 .. MaxFailures /\ losses \in 0 .. MaxFailures /\ Vol(f, d)
      /\ op \in OpRec /\ op.content \in Contents[op.name]
      /\ Point(from, f, d, op)
      /\ faults = 0 /\ losses = 0 => Leakless(f, d, Pending(from, f, op))
  BY <1>1, <1>2, Unpacked
<1>4. /\ Build(f, d, op, op.written) /\ Sound(f, op.newclus) /\ op.result = -1
      /\ Pending(from, f, op) = On(f, op.newclus)
  BY <1>3 DEF Point, Growing, Written, Writing, Build, NewChain, Pending
<1>5. Keeps
  BY <1>2 DEF Keeps
<1>6. CASE NoFault /\ FreeCandidates # {}
            /\ \E c \in Clusters : /\ f[c] = 0 /\ op' = [op EXCEPT !.c = c]
                                   /\ CallFatSet(c, EOC, ok, "abort")
  <2>1. PICK c \in Clusters : /\ f[c] = 0 /\ op' = [op EXCEPT !.c = c]
                              /\ CallFatSet(c, EOC, ok, "abort")
    BY <1>6
  <2>2. /\ op' \in OpRec /\ SameOp(op', op) /\ op'.c = c /\ op'.prev = op.prev
        /\ op'.content \in Contents[op'.name] /\ op'.newclus = op.newclus /\ op'.result = -1
    BY <1>3, <1>4, <2>1 DEF OpRec, SameOp
  <2>3. Build(f, d, op', op'.written)
    BY <1>4, <2>2, BuildSame DEF SameOp
  <2>4. Spare(f, d, op', 0)
    BY <1>3, <1>4, <2>1, <2>2, OnNonzero, ReachNonzero DEF Spare
  <2>5. set'.c = c /\ set'.v = EOC
    BY <2>1 DEF CallFatSet
  <2>6. Before(ok, f, d, op', set')
    <3>1. CASE ok = "took"
      <4>1. Writing(f, d, op')
        BY <1>3, <2>2, <2>3, <3>1 DEF Writing, Point, SameOp
      <4> QED BY <2>2, <2>4, <2>5, <3>1, <4>1 DEF Before
    <3>2. CASE ok = "dir_took"
      <4>1. Growing(f, d, op')
        BY <1>3, <2>2, <2>3, <3>2 DEF Growing, Written, Point, SameOp
      <4> QED BY <2>2, <2>4, <2>5, <3>2, <4>1 DEF Before
    <3> QED BY <3>1, <3>2
  <2>7. PendingBefore(ok, f, op', set') = On(f, op.newclus) /\ faults' = faults
    BY <1>6, <2>2 DEF PendingBefore, NoFault
  <2>8. EOC \in {0} \cup Clusters \cup {EOC} /\ ok \in {"took", "data", "dir_took", "dir_linked", "free_chain"}
        /\ "abort" = IF ok = "free_chain" THEN "free_chain" ELSE "abort"
    OBVIOUS
  <2>9. FInv'
    BY <1>1, <1>2, <1>3, <1>4, <2>1, <2>2, <2>6, <2>7, <2>8, Calls
  <2> QED BY <1>5, <2>9
<1>7. CASE (NoFault \/ Fault) /\ pc' = "abort" /\ op' = op
  <2>1. Point("abort", f, d, op)
    BY <1>3, FailPoint
  <2>2. Pending("abort", f, op) = On(f, op.newclus) /\ "abort" \in Labels
    BY DEF Pending, Labels
  <2>3. faults' \in 0 .. MaxFailures /\ (faults' = 0 => faults = 0)
    BY <1>3, <1>7, FaultFacts DEF NoFault
  <2>4. FInv'
    BY <1>1, <1>2, <1>3, <1>4, <1>7, <2>1, <2>2, <2>3, GoesOn
  <2> QED BY <1>5, <2>4
<1>8. CASE NoFault /\ FreeCandidates # {}
            /\ LET i == CHOOSE i \in FreeCandidates : \A j \in FreeCandidates : i <= j
               IN  /\ op' = [op EXCEPT !.c = Candidate(i)]
                   /\ CallFatSet(Candidate(i), EOC, ok, "abort")
  <2>1. FreeCandidates \subseteq Nat
    BY Sizes DEF FreeCandidates
  <2>2. (CHOOSE i \in FreeCandidates : \A j \in FreeCandidates : i <= j) \in FreeCandidates
    BY <1>8, <2>1, Least
  <2>3. \E i \in FreeCandidates : /\ op' = [op EXCEPT !.c = Candidate(i)]
                                  /\ CallFatSet(Candidate(i), EOC, ok, "abort")
    BY <1>8, <2>2
  <2>4. \E c \in Clusters : /\ f[c] = 0 /\ op' = [op EXCEPT !.c = c]
                            /\ CallFatSet(c, EOC, ok, "abort")
    BY <1>1, <2>3, CandidateFacts
  <2> QED BY <1>6, <1>8, <2>4
<1> QED BY <1>7, <1>8 DEF alloc_clus, Goto


\* The new cluster starts the chain or is to be linked to its tail.
LEMMA StepTook ==
  ASSUME FInv, took
  PROVE  FInv' /\ Keeps
<1>1. PICK f, d : f = fat[1] /\ d = data
  OBVIOUS
<1>2. /\ pc = "took" /\ fat' = fat /\ data' = data /\ alloc_hint' = op.c
      /\ ret' = ret /\ losses' = losses /\ faults' = faults
  BY DEF took, Disk, NewHint
<1>3. /\ Area(d) /\ ret \in {-1, 0, NoResult} /\ f \in Copy
      /\ faults \in 0 .. MaxFailures /\ losses \in 0 .. MaxFailures /\ Vol(f, d)
      /\ op \in OpRec /\ op.content \in Contents[op.name]
      /\ Writing(f, d, op) /\ Spare(f, d, op, EOC)
      /\ faults = 0 /\ losses = 0 => Leakless(f, d, Pending("took", f, op))
  BY <1>1, <1>2, Unpacked DEF Point
<1>4. /\ Target(f, d, op) /\ NewChain(f, d, op, op.written) /\ op.result = -1 /\ op.name \in Names
      /\ op.written < Len(op.content) /\ op.written \in Nat
      /\ op.c \in Clusters /\ op.c \notin Reach(f, d) /\ op.c \notin On(f, op.newclus) /\ f[op.c] = EOC
      /\ Pending("took", f, op) = On(f, op.newclus) \cup {op.c}
  BY <1>3 DEF Writing, Spare, Build, OpRec, Pending
<1>5. Keeps
  BY <1>2 DEF Keeps
<1>6. CASE op.newclus = 0
  <2>1. op' = [op EXCEPT !.newclus = op.c] /\ pc' = "data"
    BY <1>6 DEF took, Goto
  <2>2. /\ op' \in OpRec /\ op'.content = op.content /\ op'.name = op.name /\ op'.c = op.c
        /\ op'.newclus = op.c /\ op'.result = op.result /\ op'.written = op.written
        /\ op'.found = op.found /\ op'.oldclus = op.oldclus /\ op'.place = op.place
    BY <1>3, <1>4, <2>1 DEF OpRec
  <2>3. ChainIn(f, 0) = <<>> /\ On(f, 0) = {}
    BY <1>3, NoPath, Sizes
  <2>4. op.written = 0
    BY <1>4, <1>6, <2>3 DEF NewChain
  <2>5. ChainIn(f, op.c) = <<op.c>> /\ Sound(f, op.c) /\ On(f, op.c) = {op.c}
    BY <1>3, <1>4, PathOne
  <2>6. Target(f, d, op')
    BY <1>4, <2>2 DEF Target
  <2>7. Len(<<op.c>>) = 1 /\ <<op.c>>[1] = op.c /\ 0 <= Len(op.content)
    BY <1>4, <2>4
  <2>8. NewChain(f, d, op', 1)
    BY <1>4, <2>2, <2>4, <2>5, <2>7 DEF NewChain
  <2>9. Point("data", f, d, op')
    BY <1>4, <2>2, <2>4, <2>5, <2>6, <2>7, <2>8 DEF Point, Build
  <2>10. Pending("data", f, op') = Pending("took", f, op)
    BY <1>4, <1>6, <2>2, <2>3, <2>5 DEF Pending
  <2>11. "data" \in Labels
    BY DEF Labels
  <2>12. FInv'
    BY <1>1, <1>2, <1>3, <1>4, <2>1, <2>2, <2>9, <2>10, <2>11, GoesOn
  <2> QED BY <1>5, <2>12
<1>7. CASE op.newclus # 0
  <2>1. CallFatSet(op.tail, op.c, "data", "abort") /\ op' = op
    BY <1>7 DEF took
  <2>2. op.newclus \in Clusters /\ Sound(f, op.newclus)
    BY <1>3, <1>4, <1>7 DEF OpRec, NewChain
  <2>3. PICK s : s = ChainIn(f, op.newclus)
    OBVIOUS
  <2>4. Path(f, op.newclus, s)
    BY <2>2, <2>3 DEF Sound
  <2>5. Len(s) > 0 /\ \A i \in 1 .. Len(s) : s[i] \in Clusters
    BY <2>2, <2>4, PathFacts
  <2>6. Len(s) = op.written
    BY <1>4, <2>3 DEF NewChain
  <2>7. op.tail = s[op.written]
    BY <1>4, <2>3, <2>5, <2>6 DEF NewChain
  <2>8. op.tail \in Clusters
    BY <1>4, <2>5, <2>6, <2>7
  <2>9. set'.c = op.tail /\ set'.v = op.c
    BY <2>1 DEF CallFatSet
  <2>10. Before("data", f, d, op', set')
    BY <1>3, <1>7, <2>1, <2>9 DEF Before
  <2>11. PendingBefore("data", f, op', set') = Pending("took", f, op)
    BY <1>4, <2>1 DEF PendingBefore
  <2>12. op.c \in {0} \cup Clusters \cup {EOC} /\ "data" \in {"took", "data", "dir_took", "dir_linked", "free_chain"}
        /\ "abort" = IF "data" = "free_chain" THEN "free_chain" ELSE "abort"
    BY <1>4
  <2>13. FInv'
    BY <1>1, <1>2, <1>3, <1>4, <2>1, <2>8, <2>10, <2>11, <2>12, Calls
  <2> QED BY <1>5, <2>13
<1> QED BY <1>6, <1>7

LEMMA StepDirTook ==
  ASSUME FInv, dir_took
  PROVE  FInv' /\ Keeps
<1>1. PICK f, d : f = fat[1] /\ d = data
  OBVIOUS
<1>2. /\ pc = "dir_took" /\ pc' = "dir_zero" /\ fat' = fat /\ data' = data /\ alloc_hint' = op.c
      /\ ret' = ret /\ losses' = losses /\ faults' = faults /\ op' = op
  BY DEF dir_took, Disk, NewHint, Goto
<1>3. /\ Area(d) /\ ret \in {-1, 0, NoResult}
      /\ faults \in 0 .. MaxFailures /\ losses \in 0 .. MaxFailures /\ Vol(f, d)
      /\ op \in OpRec /\ op.content \in Contents[op.name]
      /\ Point("dir_took", f, d, op)
      /\ faults = 0 /\ losses = 0 => Leakless(f, d, Pending("dir_took", f, op))
  BY <1>1, <1>2, Unpacked
<1>4. Point("dir_zero", f, d, op) /\ op.c \in Clusters /\ op.result = -1
  BY <1>3 DEF Point, Spare, Growing, Written, Build
<1>5. Pending("dir_zero", f, op) = Pending("dir_took", f, op) /\ "dir_zero" \in Labels
  BY DEF Pending, Labels
<1>6. FInv'
  BY <1>1, <1>2, <1>3, <1>4, <1>5, GoesOn
<1> QED BY <1>2, <1>6 DEF Keeps

\* dir_slot has found the first entry of the new cluster.
LEMMA StepDirLinked ==
  ASSUME FInv, dir_linked
  PROVE  FInv' /\ Keeps
<1>1. PICK f, d : f = fat[1] /\ d = data
  OBVIOUS
<1>2. /\ pc = "dir_linked" /\ fat' = fat /\ data' = data /\ alloc_hint' = alloc_hint
      /\ ret' = ret /\ losses' = losses
  BY DEF dir_linked, Disk
<1>3. /\ Area(d) /\ alloc_hint \in Clusters /\ ret \in {-1, 0, NoResult}
      /\ faults \in 0 .. MaxFailures /\ losses \in 0 .. MaxFailures /\ Vol(f, d)
      /\ op \in OpRec /\ op.content \in Contents[op.name]
      /\ Point("dir_linked", f, d, op)
      /\ faults = 0 /\ losses = 0 => Leakless(f, d, Pending("dir_linked", f, op))
  BY <1>1, <1>2, Unpacked
<1>4. /\ Written(f, d, op) /\ ~op.found /\ FreePlace(f, d, <<op.c, 1>>) /\ op.result = -1
      /\ Pending("dir_linked", f, op) = On(f, op.newclus)
  BY <1>3 DEF Point, Written, Build, Pending
<1>5. CASE NoFault /\ pc' = "entry" /\ op' = [op EXCEPT !.place = <<op.c, 1>>]
  <2>1. <<op.c, 1>> \in Seq(Nat)
    BY <1>3, <1>4, TabAt DEF FreePlace
  <2>2. op' \in OpRec
    BY <1>3, <1>5, <2>1 DEF OpRec
  <2>3. /\ op'.content = op.content /\ op'.name = op.name /\ op'.tail = op.tail
        /\ op'.newclus = op.newclus /\ op'.result = op.result /\ op'.written = op.written
        /\ op'.found = op.found /\ op'.place = <<op.c, 1>>
    BY <1>3, <1>5 DEF OpRec
  <2>4. Written(f, d, op')
    BY <1>4, <2>3 DEF Written, Build, Target, NewChain
  <2>5. Point("entry", f, d, op')
    BY <1>4, <2>3, <2>4 DEF Point
  <2>6. Pending("entry", f, op') = On(f, op.newclus) /\ "entry" \in Labels /\ faults' = faults
    BY <1>5, <2>3 DEF Pending, Labels, NoFault
  <2>7. FInv'
    BY <1>1, <1>2, <1>3, <1>4, <1>5, <2>2, <2>3, <2>5, <2>6, GoesOn
  <2> QED BY <1>2, <2>7 DEF Keeps
<1>6. CASE Fault /\ pc' = "abort" /\ op' = op
  <2>1. Point("abort", f, d, op) /\ "abort" \in Labels
    BY <1>3, FailPoint DEF Labels
  <2>2. faults' \in 0 .. MaxFailures /\ faults' # 0
    BY <1>6, FaultFacts
  <2>3. FInv'
    BY <1>1, <1>2, <1>3, <1>4, <1>6, <2>1, <2>2, GoesOn
  <2> QED BY <1>2, <2>3 DEF Keeps
<1> QED BY <1>5, <1>6 DEF dir_linked, Goto

\* free_chain moves on along the chain, which nothing refers to any more.
LEMMA StepFree ==
  ASSUME FInv, free_chain
  PROVE  FInv' /\ Keeps
<1>1. PICK f, d : f = fat[1] /\ d = data
  OBVIOUS
<1>2. /\ pc = "free_chain" /\ fat' = fat /\ data' = data /\ alloc_hint' = alloc_hint /\ losses' = losses
  BY DEF free_chain, Disk
<1>3. /\ Area(d) /\ alloc_hint \in Clusters /\ f \in Copy
      /\ faults \in 0 .. MaxFailures /\ losses \in 0 .. MaxFailures /\ Vol(f, d)
      /\ op \in OpRec /\ op.content \in Contents[op.name]
      /\ Sound(f, op.c) /\ On(f, op.c) \cap Reach(f, d) = {}
      /\ faults = 0 /\ losses = 0 => Leakless(f, d, Pending("free_chain", f, op))
  BY <1>1, <1>2, Unpacked DEF Point
<1>4. CASE op.c \in Clusters
  <2>1. /\ CallFatSet(op.c, 0, "free_chain", "free_chain") /\ ret' = ret
        /\ \/ NoFault /\ op' = [op EXCEPT !.c = f[op.c]]
           \/ Fault /\ op' = [op EXCEPT !.c = EOC]
    BY <1>1, <1>4 DEF free_chain, NextOf
  <2>2. PICK x : /\ op' = [op EXCEPT !.c = x] /\ x \in Clusters \cup {EOC}
                 /\ Sound(f, x) /\ op.c \notin On(f, x) /\ On(f, x) \subseteq On(f, op.c)
                 /\ NoFault => On(f, op.c) = On(f, x) \cup {op.c}
                 /\ NoFault \/ Fault
    <3>1. CASE NoFault /\ op' = [op EXCEPT !.c = f[op.c]]
      <4>1. /\ Sound(f, f[op.c]) /\ op.c \notin On(f, f[op.c]) /\ On(f, op.c) = On(f, f[op.c]) \cup {op.c}
            /\ f[op.c] \in Clusters \cup {EOC}
        BY <1>3, <1>4, PathRest
      <4> QED BY <3>1, <4>1
    <3>2. CASE Fault /\ op' = [op EXCEPT !.c = EOC]
      <4>1. Sound(f, EOC) /\ On(f, EOC) = {}
        BY <1>3, NoPath, Sizes
      <4>2. ~NoFault
        BY <1>3, <3>2 DEF NoFault, Fault
      <4> QED BY <3>2, <4>1, <4>2
    <3> QED BY <2>1, <3>1, <3>2
  <2>3. op' \in OpRec /\ op'.content = op.content /\ op'.name = op.name /\ op'.c = x
    BY <1>3, <2>2 DEF OpRec
  <2>4. set'.c = op.c /\ set'.v = 0
    BY <2>1 DEF CallFatSet
  <2>5. op.c \in On(f, op.c)
    BY <1>3, <1>4, PathFacts DEF Sound, On
  <2>6. Before("free_chain", f, d, op', set')
    BY <1>3, <2>2, <2>3, <2>4, <2>5 DEF Before
  <2>7. faults' \in 0 .. MaxFailures /\ (faults' = 0 => NoFault /\ faults = 0)
    BY <1>3, <2>2, FaultFacts DEF NoFault
  <2>8. NoFault => PendingBefore("free_chain", f, op', set') = Pending("free_chain", f, op)
    BY <2>2, <2>3, <2>4 DEF PendingBefore, Pending
  <2>9. 0 \in {0} \cup Clusters \cup {EOC} /\ "free_chain" \in {"took", "data", "dir_took", "dir_linked", "free_chain"}
        /\ "free_chain" = IF "free_chain" = "free_chain" THEN "free_chain" ELSE "abort"
    OBVIOUS
  <2>10. FInv'
    BY <1>1, <1>2, <1>3, <1>4, <2>1, <2>3, <2>6, <2>7, <2>8, <2>9, Calls
  <2> QED BY <1>2, <2>10 DEF Keeps
<1>5. CASE op.c \notin Clusters
  <2>1. /\ Return(op.result) /\ op.result \in {-1, 0}
        /\ UNCHANGED <<Disk, alloc_hint, faults, losses>>
    BY <1>3, <1>5 DEF free_chain, NoFault, OpRec
  <2> QED BY <1>2, <1>5, <2>1, StepReturn
<1> QED BY <1>4, <1>5


\* A cluster that nothing refers to is written.
LEMMA DataOutside ==
  ASSUME NEW f, NEW d, Vol(f, d), NEW c \in Clusters, c < DataEnd, c \notin Reach(f, d),
         NEW b, NEW e, e = Linked(d, c, b)
  PROVE  /\ Area(e) /\ Vol(f, e) /\ Tab(f, e) = Tab(f, d) /\ Reach(f, e) = Reach(f, d)
         /\ \A name \in Names : Reads(f, e, name) = Reads(f, d, name)
         /\ e[c] = b /\ \A x \in 2 .. DataEnd - 1 : x # c => e[x] = d[x]
         /\ \A o, n : /\ Build(f, d, o, n) /\ o.written \in Nat
                      /\ \A i \in 1 .. o.written : ChainIn(f, o.newclus)[i] # c
                      => Build(f, e, o, n)
<1>1. f \in Copy /\ Area(d) /\ c \in 2 .. DataEnd - 1
  BY Sizes DEF Vol, Clusters
<1>2. Area(e) /\ e[c] = b /\ \A x \in 2 .. DataEnd - 1 : x # c => e[x] = d[x]
  <2>1. d = [x \in 2 .. DataEnd - 1 |-> d[x]]
    BY <1>1 DEF Area
  <2>2. e = [x \in 2 .. DataEnd - 1 |-> IF x = c THEN b ELSE d[x]]
    BY <1>1, <2>1 DEF Linked
  <2> QED BY <1>1, <2>2 DEF Area
<1>3. \A x \in Reach(f, d) : f[x] = f[x] /\ e[x] = d[x]
  BY <1>2, VolFacts
<1>4. /\ Vol(f, e) /\ Tab(f, e) = Tab(f, d) /\ Reach(f, e) = Reach(f, d)
      /\ \A name \in Names : Reads(f, e, name) = Reads(f, d, name)
  BY <1>1, <1>2, <1>3, VolFrame
<1>5. ASSUME NEW o, NEW n, Build(f, d, o, n), o.written \in Nat,
             \A i \in 1 .. o.written : ChainIn(f, o.newclus)[i] # c
      PROVE  Build(f, e, o, n)
  <2>1. NewChain(f, d, o, n)
    BY <1>5 DEF Build
  <2>2. PICK s : s = ChainIn(f, o.newclus)
    OBVIOUS
  <2>3. /\ Path(f, o.newclus, s) /\ o.written <= Len(s)
        /\ \A i \in 1 .. o.written : s[i] < DataEnd /\ s[i] # c
    BY <1>5, <2>1, <2>2 DEF NewChain, Sound
  <2>4. Len(s) \in Nat /\ \A i \in 1 .. Len(s) : s[i] \in Clusters
    BY <2>3, PathFacts
  <2>5. \A i \in 1 .. o.written : s[i] \in 2 .. DataEnd - 1 /\ s[i] # c
    BY <1>5, <2>3, <2>4, Sizes DEF Clusters
  <2>6. \A i \in 1 .. o.written : e[ChainIn(f, o.newclus)[i]] = d[ChainIn(f, o.newclus)[i]]
    BY <1>2, <2>2, <2>5
  <2>7. \A x \in On(f, o.newclus) : f[x] = f[x]
    OBVIOUS
  <2> QED BY <1>1, <1>2, <1>3, <1>5, <2>6, <2>7, BuildFrame
<1> QED BY <1>2, <1>4, <1>5

\* The locals after a block.
Advanced(o) == [o EXCEPT !.tail = o.c, !.written = @ + 1]

\* The block goes to a cluster that no file and no directory has.
LEMMA BlockWritten ==
  ASSUME NEW f, NEW d, Vol(f, d), NEW o \in OpRec, Point("data", f, d, o), o.c < DataEnd,
         NEW e, e = Linked(d, o.c, FileCluster(o.content[o.written + 1])),
         NEW q, q = Advanced(o)
  PROVE  /\ Area(e) /\ Vol(f, e) /\ Reach(f, e) = Reach(f, d)
         /\ \A name \in Names : Reads(f, e, name) = Reads(f, d, name)
         /\ Point("data", f, e, o)
         /\ q \in OpRec /\ Build(f, e, q, q.written) /\ q.newclus = o.newclus
         /\ q.content = o.content /\ q.name = o.name
<1>1. /\ Build(f, d, o, o.written + 1) /\ o.written < Len(o.content)
      /\ o.c = ChainIn(f, o.newclus)[o.written + 1] /\ o.written \in Nat
  BY DEF Point, OpRec
<1>a. PICK s : s = ChainIn(f, o.newclus)
  OBVIOUS
<1>b. PICK w \in Nat : w = o.written
  BY <1>1
<1>2. s = ChainIn(f, o.newclus) /\ w = o.written
  BY <1>a, <1>b
<1>3. /\ Path(f, o.newclus, s) /\ Len(s) = w + 1 /\ ToSet(s) \cap Reach(f, d) = {} /\ o.c = s[w + 1]
  BY <1>1, <1>2 DEF Build, NewChain, Sound, On
<1>4. /\ \A i \in 1 .. w + 1 : s[i] \in Clusters /\ s[i] \in ToSet(s)
      /\ \A i, j \in 1 .. w + 1 : s[i] = s[j] => i = j
  <2>1. (\A i \in 1 .. Len(s) : s[i] \in Clusters) /\ ToSet(s) = {s[i] : i \in 1 .. Len(s)}
    BY <1>3, PathFacts
  <2>2. \A i, j \in 1 .. Len(s) : s[i] = s[j] => i = j
    BY <1>3 DEF Path
  <2> QED BY <1>3, <2>1, <2>2
<1>5. w + 1 \in 1 .. w + 1 /\ \A i \in 1 .. w : i \in 1 .. w + 1 /\ i # w + 1
  OBVIOUS
<1>6. o.c \in Clusters /\ o.c \notin Reach(f, d) /\ \A i \in 1 .. w : s[i] # o.c
  BY <1>3, <1>4, <1>5
<1>7. PICK c, b : c = o.c /\ b = FileCluster(o.content[o.written + 1]) /\ e = Linked(d, c, b)
  OBVIOUS
<1>8. c \in Clusters /\ c < DataEnd /\ c \notin Reach(f, d)
  BY <1>6, <1>7
<1>9. /\ Area(e) /\ Vol(f, e) /\ Tab(f, e) = Tab(f, d) /\ Reach(f, e) = Reach(f, d)
      /\ \A name \in Names : Reads(f, e, name) = Reads(f, d, name)
      /\ e[c] = b
      /\ \A u, n : /\ Build(f, d, u, n) /\ u.written \in Nat
                   /\ \A i \in 1 .. u.written : ChainIn(f, u.newclus)[i] # c
                   => Build(f, e, u, n)
  BY <1>7, <1>8, DataOutside
<1>10. Build(f, e, o, w + 1)
  BY <1>1, <1>2, <1>6, <1>7, <1>9
<1>11. Point("data", f, e, o)
  BY <1>1, <1>2, <1>10 DEF Point
<1>12. /\ q \in OpRec /\ q.newclus = o.newclus /\ q.content = o.content /\ q.name = o.name
       /\ q.written = w + 1 /\ q.tail = o.c /\ q.found = o.found /\ q.oldclus = o.oldclus
       /\ q.place = o.place /\ q.result = o.result
  <2>1. /\ q.newclus = o.newclus /\ q.content = o.content /\ q.name = o.name /\ q.found = o.found
        /\ q.oldclus = o.oldclus /\ q.place = o.place /\ q.result = o.result
    BY DEF OpRec, Advanced
  <2>2. q.written = o.written + 1 /\ q.tail = o.c
    BY DEF OpRec, Advanced
  <2>3. o.written + 1 \in Nat /\ o.c \in {0} \cup Clusters
    BY <1>2, <1>6
  <2>4. q \in OpRec
    BY <2>3 DEF OpRec, Advanced
  <2> QED BY <1>2, <2>1, <2>2, <2>4
<1>13. Target(f, e, q)
  BY <1>10, <1>12 DEF Build, Target
<1>14. w + 1 <= Len(o.content)
  <2>1. Len(o.content) \in Nat
    <3>1. \E n \in Names \cup {Dir} : o.content \in Contents[n]
      BY DEF OpRec
    <3>2. o.content \in Seq(ToSet(o.content))
      BY <3>1, FatAssumption
    <3> QED BY <3>2
  <2> QED BY <1>1, <1>2, <2>1
<1>15. /\ Sound(f, o.newclus) /\ On(f, o.newclus) \cap Reach(f, e) = {}
       /\ \A i \in 1 .. w : s[i] < DataEnd /\ e[s[i]] = FileCluster(o.content[i])
  BY <1>2, <1>10 DEF Build, NewChain
<1>16. \A i \in 1 .. w + 1 : s[i] < DataEnd /\ e[s[i]] = FileCluster(o.content[i])
  <2> SUFFICES ASSUME NEW i \in 1 .. w + 1 PROVE s[i] < DataEnd /\ e[s[i]] = FileCluster(o.content[i])
    OBVIOUS
  <2>1. CASE i = w + 1
    BY <1>2, <1>3, <1>7, <1>9, <2>1
  <2>2. CASE i # w + 1
    <3>1. i \in 1 .. w
      BY <2>2
    <3> QED BY <1>15, <3>1
  <2> QED BY <2>1, <2>2
<1>17. NewChain(f, e, q, w + 1)
  BY <1>2, <1>3, <1>12, <1>14, <1>15, <1>16 DEF NewChain
<1>18. Build(f, e, q, q.written)
  BY <1>10, <1>12, <1>13, <1>17 DEF Build
<1> QED BY <1>9, <1>11, <1>12, <1>18

\* The block is written, or the write fails.
LEMMA StepData ==
  ASSUME FInv, write_data
  PROVE  FInv' /\ Keeps
<1>1. PICK f, d, q, e : /\ f = fat[1] /\ d = data /\ q = Advanced(op)
                        /\ e = Linked(d, op.c, FileCluster(op.content[op.written + 1]))
  OBVIOUS
<1>2. /\ pc = "data" /\ fat' = fat /\ alloc_hint' = alloc_hint /\ ret' = ret /\ losses' = losses
  BY DEF write_data
<1>3. /\ Area(d) /\ alloc_hint \in Clusters /\ ret \in {-1, 0, NoResult} /\ f \in Copy
      /\ faults \in 0 .. MaxFailures /\ losses \in 0 .. MaxFailures /\ Vol(f, d)
      /\ op \in OpRec /\ op.content \in Contents[op.name]
      /\ Point("data", f, d, op)
      /\ faults = 0 /\ losses = 0 => Leakless(f, d, Pending("data", f, op))
  BY <1>1, <1>2, Unpacked
<1>4. q.written = op.written + 1 /\ op.c \in {0} \cup Clusters \cup {EOC} /\ op.c \in Nat
  BY <1>1, <1>3, Sizes DEF OpRec, Advanced
<1>5. \/ op.c < DataEnd /\ NoFault /\ data' = e /\ op' = q /\ pc' = NextBlock(q)
      \/ /\ op.c >= DataEnd /\ NoFault /\ pc' = "abort" /\ data' = data /\ op' = op
      \/ /\ op.c < DataEnd /\ Fault /\ data' \in {data, e} /\ pc' = "abort" /\ op' = op
  BY <1>1, <1>4 DEF write_data, DataTarget, Goto, Linked, Advanced
<1>6. Pending("data", f, op) = On(f, op.newclus) /\ Pending("abort", f, op) = On(f, op.newclus)
      /\ "abort" \in Labels /\ op.result = -1
  BY <1>3 DEF Pending, Labels, Point, Build
<1>7. CASE op.c < DataEnd
  <2>1. /\ Area(e) /\ Vol(f, e) /\ Reach(f, e) = Reach(f, d)
        /\ \A name \in Names : Reads(f, e, name) = Reads(f, d, name)
        /\ Point("data", f, e, op)
        /\ q \in OpRec /\ Build(f, e, q, q.written) /\ q.newclus = op.newclus
        /\ q.content = op.content /\ q.name = op.name
    BY <1>1, <1>3, <1>7, BlockWritten
  <2>2. CASE NoFault /\ data' = e /\ op' = q /\ pc' = NextBlock(q)
    <3>1. /\ Point(NextBlock(q), f, e, q) /\ NextBlock(q) \in Labels
          /\ NextBlock(q) \notin {"fat_set", "idle"}
          /\ Pending(NextBlock(q), f, q) = On(f, q.newclus)
      BY <1>3, <2>1, NextPoint
    <3>2. q.result = -1 /\ faults' = faults
      BY <2>1, <2>2 DEF Build, NoFault
    <3>3. Leakless(f, d, On(f, q.newclus)) => Leakless(f, e, On(f, q.newclus))
      BY <2>1 DEF Leakless
    <3>4. FInv'
      BY <1>1, <1>2, <1>3, <1>6, <2>1, <2>2, <3>1, <3>2, <3>3, GoesOn
    <3> QED BY <1>1, <1>2, <2>1, <2>2, <3>4 DEF Keeps
  <2>3. CASE Fault /\ data' \in {data, e} /\ pc' = "abort" /\ op' = op
    <3>1. /\ Area(data') /\ Vol(f, data') /\ Point("data", f, data', op)
          /\ \A name \in Names : Reads(f, data', name) = Reads(f, d, name)
      BY <1>1, <1>3, <2>1, <2>3
    <3>2. Point("abort", f, data', op)
      BY <1>3, <3>1, FailPoint
    <3>3. faults' \in 0 .. MaxFailures /\ faults' # 0
      BY <2>3, FaultFacts
    <3>4. FInv'
      BY <1>1, <1>2, <1>3, <1>6, <2>3, <3>1, <3>2, <3>3, GoesOn
    <3> QED BY <1>1, <1>2, <3>1, <3>4 DEF Keeps
  <2> QED BY <1>4, <1>5, <1>7, <2>2, <2>3, Sizes
<1>8. CASE ~(op.c < DataEnd)
  <2>1. NoFault /\ pc' = "abort" /\ data' = data /\ op' = op
    BY <1>5, <1>8
  <2>2. Point("abort", f, d, op) /\ faults' = faults
    BY <1>3, <2>1, FailPoint DEF NoFault
  <2>3. FInv'
    BY <1>1, <1>2, <1>3, <1>6, <2>1, <2>2, GoesOn
  <2> QED BY <1>2, <2>1, <2>3 DEF Keeps
<1> QED BY <1>7, <1>8


\* The place for a new entry: the first free one.
LEMMA Placed ==
  ASSUME NEW f, NEW d, Vol(f, d), NEW o \in OpRec, Written(f, d, o), ~o.found,
         NEW p, FreePlace(f, d, p), NEW q, q = [o EXCEPT !.place = p]
  PROVE  /\ q \in OpRec /\ q.content = o.content /\ q.name = o.name /\ q.newclus = o.newclus
         /\ q.result = -1 /\ Point("entry", f, d, q)
<1>1. p \in Seq(Nat)
  BY TabAt DEF FreePlace
<1>2. q \in OpRec
  BY <1>1 DEF OpRec
<1>3. /\ q.content = o.content /\ q.name = o.name /\ q.tail = o.tail
      /\ q.newclus = o.newclus /\ q.result = o.result /\ q.written = o.written
      /\ q.found = o.found /\ q.place = p
  BY DEF OpRec
<1>4. Written(f, d, q) /\ q.result = -1
  BY <1>3 DEF Written, Build, Target, NewChain
<1> QED BY <1>2, <1>3, <1>4 DEF Point

LEMMA LastRoot ==
  ASSUME NEW f, NEW d, Vol(f, d)
  PROVE  Last(RootChain(f)) \in Clusters
<1>1. Path(f, Root, RootChain(f)) /\ Root \in Clusters
  BY Sizes DEF Vol, Sound, RootChain
<1>2. /\ Len(RootChain(f)) \in Nat /\ Len(RootChain(f)) > 0
      /\ \A i \in 1 .. Len(RootChain(f)) : RootChain(f)[i] \in Clusters
  BY <1>1, PathFacts
<1> QED BY <1>2 DEF Last

\* dir_slot finds the first free entry, or the directory is full.
LEMMA StepSlot ==
  ASSUME FInv, entry_slot
  PROVE  FInv' /\ Keeps
<1>1. PICK f, d, p, R : f = fat[1] /\ d = data /\ p = FirstFree(Chain(Root)) /\ R = Chain(Root)
  OBVIOUS
<1>2. /\ pc = "slot" /\ fat' = fat /\ data' = data /\ alloc_hint' = alloc_hint
      /\ ret' = ret /\ losses' = losses
  BY DEF entry_slot, Disk
<1>3. /\ Area(d) /\ alloc_hint \in Clusters /\ ret \in {-1, 0, NoResult} /\ f \in Copy
      /\ faults \in 0 .. MaxFailures /\ losses \in 0 .. MaxFailures /\ Vol(f, d)
      /\ op \in OpRec /\ op.content \in Contents[op.name]
      /\ Point("slot", f, d, op)
      /\ faults = 0 /\ losses = 0 => Leakless(f, d, Pending("slot", f, op))
  BY <1>1, <1>2, Unpacked
<1>4. /\ Written(f, d, op) /\ op.result = -1 /\ Pending("slot", f, op) = On(f, op.newclus)
      /\ {"entry", "abort", "dir_alloc"} \subseteq Labels
  BY <1>3 DEF Point, Written, Build, Pending, Labels
<1>5. Keeps
  BY <1>2 DEF Keeps
<1>6. CASE NoFault /\ op.found /\ pc' = "entry" /\ op' = op
  <2>1. Point("entry", f, d, op) /\ Pending("entry", f, op) = On(f, op.newclus) /\ faults' = faults
    BY <1>4, <1>6 DEF Point, Pending, NoFault
  <2>2. FInv'
    BY <1>1, <1>2, <1>3, <1>4, <1>6, <2>1, GoesOn
  <2> QED BY <1>5, <2>2
<1>7. R = RootChain(f) /\ p = FirstIn(d, Places[RootChain(f)], Missing)
  BY <1>1, <1>3, Views
<1>8. /\ FirstIn(d, Places[RootChain(f)], Missing) # <<>> =>
              \E i \in 1 .. Size(f) : /\ FirstIn(d, Places[RootChain(f)], Missing) = Places[RootChain(f)][i]
                                      /\ Tab(f, d)[i].name = Missing
                                      /\ \A j \in 1 .. i - 1 : Tab(f, d)[j].name # Missing
      /\ FirstIn(d, Places[RootChain(f)], Missing) = <<>> =>
              \A i \in 1 .. Size(f) : Tab(f, d)[i].name # Missing
  <2>1. Vol(f, d)
    BY <1>3
  <2> QED BY <2>1, FreeEntry
<1>9. CASE NoFault /\ ~op.found /\ p # <<>> /\ pc' = "entry" /\ op' = [op EXCEPT !.place = p]
  <2>1. FreePlace(f, d, p)
    BY <1>7, <1>8, <1>9 DEF FreePlace
  <2>2. PICK q : q = [op EXCEPT !.place = p] /\ op' = q
    BY <1>9
  <2>3. /\ q \in OpRec /\ q.content = op.content /\ q.name = op.name /\ q.newclus = op.newclus
        /\ q.result = -1 /\ Point("entry", f, d, q)
    BY <1>3, <1>4, <1>9, <2>1, <2>2, Placed
  <2>4. Pending("entry", f, q) = On(f, op.newclus) /\ faults' = faults
    BY <1>9, <2>3 DEF Pending, NoFault
  <2>5. FInv'
    BY <1>1, <1>2, <1>3, <1>4, <1>9, <2>2, <2>3, <2>4, GoesOn
  <2> QED BY <1>5, <2>5
<1>10. CASE NoFault /\ ~op.found /\ p = <<>> /\ pc' = "dir_alloc" /\ op' = [op EXCEPT !.prev = Last(R)]
  <2>1. Last(R) \in Clusters
    BY <1>3, <1>7, LastRoot
  <2>2. /\ op' \in OpRec /\ SameOp(op', op) /\ op'.prev = Last(R)
    BY <1>3, <1>10, <2>1 DEF OpRec, SameOp
  <2>3. /\ op'.content = op.content /\ op'.name = op.name /\ op'.newclus = op.newclus
        /\ op'.result = -1 /\ ~op'.found /\ op'.written = op.written
    BY <1>4, <1>10, <2>2 DEF SameOp
  <2>4. Build(f, d, op', op'.written)
    BY <1>4, <2>2, <2>3, BuildSame DEF Written
  <2>5. Growing(f, d, op')
    BY <1>4, <1>7, <1>8, <1>10, <2>2, <2>3, <2>4 DEF Growing, Written
  <2>6. Point("dir_alloc", f, d, op')
    BY <2>5 DEF Point
  <2>7. Pending("dir_alloc", f, op') = On(f, op.newclus) /\ faults' = faults
    BY <1>10, <2>3 DEF Pending, NoFault
  <2>8. FInv'
    BY <1>1, <1>2, <1>3, <1>4, <1>10, <2>2, <2>3, <2>6, <2>7, GoesOn
  <2> QED BY <1>5, <2>8
<1>11. CASE Fault /\ pc' = "abort" /\ op' = op
  <2>1. Point("abort", f, d, op)
    BY <1>3, FailPoint
  <2>2. faults' \in 0 .. MaxFailures /\ faults' # 0
    BY <1>11, FaultFacts
  <2>3. FInv'
    BY <1>1, <1>2, <1>3, <1>4, <1>11, <2>1, <2>2, GoesOn
  <2> QED BY <1>5, <2>3
<1> QED BY <1>1, <1>6, <1>9, <1>10, <1>11 DEF entry_slot, Goto, Extend

\* The new cluster of the directory is zeroed before it is linked.
LEMMA StepZero ==
  ASSUME FInv, dir_zero
  PROVE  FInv' /\ Keeps
<1>1. PICK f, d, c, e : f = fat[1] /\ d = data /\ c = op.c /\ e = Linked(d, c, ZeroCluster)
  OBVIOUS
<1>2. /\ pc = "dir_zero" /\ fat' = fat /\ alloc_hint' = alloc_hint
      /\ ret' = ret /\ losses' = losses /\ op' = op
  BY DEF dir_zero
<1>3. /\ Area(d) /\ alloc_hint \in Clusters /\ ret \in {-1, 0, NoResult} /\ f \in Copy
      /\ faults \in 0 .. MaxFailures /\ losses \in 0 .. MaxFailures /\ Vol(f, d)
      /\ op \in OpRec /\ op.content \in Contents[op.name]
      /\ Point("dir_zero", f, d, op)
      /\ faults = 0 /\ losses = 0 => Leakless(f, d, Pending("dir_zero", f, op))
  BY <1>1, <1>2, Unpacked
<1>4. /\ Growing(f, d, op) /\ Spare(f, d, op, EOC) /\ Build(f, d, op, op.written) /\ op.result = -1
      /\ Pending("dir_zero", f, op) = On(f, op.newclus) \cup {op.c}
      /\ Pending("abort", f, op) = On(f, op.newclus) /\ "abort" \in Labels /\ op.written \in Nat
  BY <1>3 DEF Point, Growing, Written, Build, Pending, Labels, OpRec
<1>5. /\ c \in Clusters /\ c \notin Reach(f, d) /\ c \notin On(f, op.newclus) /\ c \in Nat
  BY <1>1, <1>4, Sizes DEF Spare
<1>6. \/ c < DataEnd /\ NoFault /\ data' = e /\ CallFatSet(op.prev, c, "dir_linked", "abort")
      \/ c >= DataEnd /\ NoFault /\ pc' = "abort" /\ data' = data
      \/ c < DataEnd /\ Fault /\ data' \in {data, e} /\ pc' = "abort"
  BY <1>1 DEF dir_zero, Goto, Linked
<1>7. CASE c < DataEnd
  <2>1. /\ Area(e) /\ Vol(f, e) /\ Tab(f, e) = Tab(f, d) /\ Reach(f, e) = Reach(f, d)
        /\ \A name \in Names : Reads(f, e, name) = Reads(f, d, name)
        /\ e[c] = ZeroCluster
        /\ \A o, n : /\ Build(f, d, o, n) /\ o.written \in Nat
                     /\ \A i \in 1 .. o.written : ChainIn(f, o.newclus)[i] # c
                     => Build(f, e, o, n)
    BY <1>1, <1>3, <1>5, <1>7, DataOutside
  <2>2. \A i \in 1 .. op.written : ChainIn(f, op.newclus)[i] # c
    <3>1. /\ Path(f, op.newclus, ChainIn(f, op.newclus))
          /\ Len(ChainIn(f, op.newclus)) = op.written
      BY <1>4 DEF Build, NewChain, Sound
    <3>2. On(f, op.newclus) = {ChainIn(f, op.newclus)[i] : i \in 1 .. op.written}
      BY <3>1, PathFacts DEF On
    <3> QED BY <1>5, <3>2
  <2>3. Build(f, e, op, op.written)
    BY <1>4, <2>1, <2>2
  <2>4. Growing(f, e, op)
    BY <1>4, <2>1, <2>3 DEF Growing, Written
  <2>5. Spare(f, e, op, EOC)
    BY <1>4, <2>1 DEF Spare
  <2>6. Point("dir_zero", f, e, op)
    BY <2>4, <2>5 DEF Point
  <2>7. CASE NoFault /\ data' = e /\ CallFatSet(op.prev, c, "dir_linked", "abort")
    <3>1. op.prev \in Clusters
      BY <1>3, <1>4, LastRoot DEF Growing
    <3>2. set'.c = op.prev /\ set'.v = c
      BY <2>7 DEF CallFatSet
    <3>3. Before("dir_linked", f, e, op, set')
      BY <1>1, <1>7, <2>1, <2>4, <2>5, <3>2 DEF Before
    <3>4. PendingBefore("dir_linked", f, op, set') = On(f, op.newclus) \cup {op.c} /\ faults' = faults
      BY <2>7 DEF PendingBefore, NoFault
    <3>5. Leakless(f, d, On(f, op.newclus) \cup {op.c}) => Leakless(f, e, On(f, op.newclus) \cup {op.c})
      BY <2>1 DEF Leakless
    <3>6. c \in {0} \cup Clusters \cup {EOC} /\ "dir_linked" \in {"took", "data", "dir_took", "dir_linked", "free_chain"}
          /\ "abort" = IF "dir_linked" = "free_chain" THEN "free_chain" ELSE "abort"
      BY <1>5
    <3>7. FInv'
      BY <1>1, <1>2, <1>3, <1>4, <2>1, <2>7, <3>1, <3>3, <3>4, <3>5, <3>6, Calls
    <3> QED BY <1>1, <1>2, <2>1, <2>7, <3>7 DEF Keeps
  <2>8. CASE Fault /\ data' \in {data, e} /\ pc' = "abort"
    <3>1. /\ Area(data') /\ Vol(f, data') /\ Point("dir_zero", f, data', op)
          /\ \A name \in Names : Reads(f, data', name) = Reads(f, d, name)
      BY <1>1, <1>3, <2>1, <2>6, <2>8
    <3>2. Point("abort", f, data', op)
      BY <1>3, <3>1, FailPoint
    <3>3. faults' \in 0 .. MaxFailures /\ faults' # 0
      BY <2>8, FaultFacts
    <3>4. FInv'
      BY <1>1, <1>2, <1>3, <1>4, <2>8, <3>1, <3>2, <3>3, GoesOn
    <3> QED BY <1>1, <1>2, <3>1, <3>4 DEF Keeps
  <2> QED BY <1>5, <1>6, <1>7, <2>7, <2>8, Sizes
<1>8. CASE ~(c < DataEnd)
  <2>1. NoFault /\ pc' = "abort" /\ data' = data
    BY <1>6, <1>8
  <2>2. Point("abort", f, d, op) /\ faults' = faults
    BY <1>3, <2>1, FailPoint DEF NoFault
  <2>3. c \notin 2 .. DataEnd - 1
    BY <1>5, <1>8, Sizes
  <2>4. Leakless(f, d, On(f, op.newclus) \cup {op.c}) => Leakless(f, d, On(f, op.newclus))
    BY <1>1, <2>3 DEF Leakless
  <2>5. FInv'
    BY <1>1, <1>2, <1>3, <1>4, <2>1, <2>2, <2>4, GoesOn
  <2> QED BY <1>2, <2>1, <2>5 DEF Keeps
<1> QED BY <1>7, <1>8


\* The entry of the new chain, and what the write of it does to the volume.
Filled(o) == [name |-> o.name, dir |-> FALSE, clus |-> o.newclus, size |-> Len(o.content)]
Freed(o) == [o EXCEPT !.result = 0, !.c = IF o.found THEN o.oldclus ELSE 0]

LEMMA EntryReplaced ==
  ASSUME NEW f, NEW d, Vol(f, d), NEW o \in OpRec, o.content \in Contents[o.name],
         Point("entry", f, d, o), NEW e, e = EntryPut(d, o.place, Filled(o)), NEW q, q = Freed(o)
  PROVE  /\ Vol(f, e) /\ q \in OpRec /\ q.content = o.content /\ q.name = o.name /\ q.result = 0
         /\ Point("free_chain", f, e, q)
         /\ Leakless(f, d, On(f, o.newclus)) => Leakless(f, e, On(f, q.c))
         /\ o.name \in Names /\ Reads(f, e, o.name) = o.content
         /\ \A n \in Names \ {o.name} : Reads(f, e, n) = Reads(f, d, n)
<1>1. PICK x, T, R, n, w : /\ x = Filled(o) /\ T = Tab(f, d) /\ R = RootChain(f) /\ n = Size(f)
                           /\ w = o.written
  OBVIOUS
<1>2. /\ o.name \in Names /\ Target(f, d, o) /\ NewChain(f, d, o, w)
      /\ w = Len(o.content) /\ w \in Nat
      /\ ~o.found => FreePlace(f, d, o.place)
  BY <1>1 DEF Point, Written, Build, OpRec
<1>3. PICK s : s = ChainIn(f, o.newclus)
  OBVIOUS
<1>4. /\ Path(f, o.newclus, s) /\ Len(s) = w /\ On(f, o.newclus) = ToSet(s)
      /\ On(f, o.newclus) \cap Reach(f, d) = {} /\ Sound(f, o.newclus)
      /\ \A i \in 1 .. w : s[i] < DataEnd /\ d[s[i]] = FileCluster(o.content[i])
  BY <1>1, <1>2, <1>3 DEF NewChain, Sound, On
<1>5. ToSet(s) = {s[i] : i \in 1 .. w}
  BY <1>4, PathFacts
<1>6. /\ x \in EntryRec /\ x.name = o.name /\ x.dir = FALSE /\ x.clus = o.newclus /\ x.size = w
  BY <1>1, <1>2 DEF Filled, EntryRec, OpRec
<1>7. PICK i : /\ i \in 1 .. n /\ o.place = Places[R][i] /\ Fits(T, n, i, o.name)
               /\ o.found => T[i].name = o.name /\ o.oldclus = T[i].clus
               /\ ~o.found => T[i].name = Missing
  <2>1. CASE o.found
    <3>1. PICK i \in 1 .. n : T[i].name = o.name /\ o.oldclus = T[i].clus /\ o.place = Places[R][i]
      BY <1>1, <1>2, <2>1 DEF Target
    <3>2. Fits(T, n, i, o.name)
      BY <3>1 DEF Fits
    <3> QED BY <2>1, <3>1, <3>2
  <2>2. CASE ~o.found
    <3>1. \A k \in 1 .. n : T[k].name # o.name
      BY <1>1, <1>2, <2>2 DEF Target
    <3>2. PICK i \in 1 .. n : /\ o.place = Places[R][i] /\ T[i].name = Missing
                              /\ \A j \in 1 .. i - 1 : T[j].name # Missing
      BY <1>1, <1>2, <2>2 DEF FreePlace
    <3>3. Fits(T, n, i, o.name)
      BY <3>1, <3>2 DEF Fits
    <3> QED BY <2>2, <3>2, <3>3
  <2> QED BY <2>1, <2>2
<1>8. PICK p : p = Places[RootChain(f)][i] /\ e = EntryPut(d, p, x)
  BY <1>1, <1>7
<1>9. /\ x.name \in Names /\ ~x.dir /\ Fits(Tab(f, d), Size(f), i, x.name)
      /\ Sound(f, x.clus) /\ On(f, x.clus) \cap Reach(f, d) = {}
      /\ (\A c \in On(f, x.clus) : c < DataEnd) /\ Len(ChainIn(f, x.clus)) = x.size
  BY <1>1, <1>2, <1>3, <1>4, <1>5, <1>6, <1>7
<1>10. /\ Vol(f, e)
       /\ Reach(f, e) = (Reach(f, d) \ OldChain(f, Tab(f, d)[i])) \cup On(f, x.clus)
       /\ Reads(f, e, x.name) = Bytes(d, ChainIn(f, x.clus), x.size)
       /\ \A name \in Names \ {x.name} : Reads(f, e, name) = Reads(f, d, name)
  <2>1. Replaces(f, d, i, x)
    BY <1>6, <1>9 DEF Replaces
  <2> QED BY <1>8, <2>1, VolWritten
<1>11. Bytes(d, s, w) = o.content
  <2>1. Bytes(d, s, w) = [k \in 1 .. w |-> o.content[k]]
    <3>1. \A k \in 1 .. w : (IF s[k] < DataEnd /\ d[s[k]].kind = "file" THEN d[s[k]].block ELSE Missing)
                            = o.content[k]
      <4> SUFFICES ASSUME NEW k \in 1 .. w
                   PROVE  (IF s[k] < DataEnd /\ d[s[k]].kind = "file" THEN d[s[k]].block ELSE Missing)
                          = o.content[k]
        OBVIOUS
      <4>1. s[k] < DataEnd /\ d[s[k]] = FileCluster(o.content[k])
        BY <1>4
      <4>2. d[s[k]].kind = "file" /\ d[s[k]].block = o.content[k]
        BY <4>1 DEF FileCluster
      <4> QED BY <4>1, <4>2
    <3>2. (IF w < Len(s) THEN w ELSE Len(s)) = w
      BY <1>4
    <3> QED BY <3>1, <3>2 DEF Bytes
  <2>2. o.content \in Seq(ToSet(o.content))
    BY <1>2, FatAssumption
  <2>3. o.content = [k \in 1 .. w |-> o.content[k]]
    BY <1>2, <2>2
  <2> QED BY <2>1, <2>3
<1>12. /\ q.content = o.content /\ q.name = o.name /\ q.result = 0
       /\ q.c = (IF o.found THEN o.oldclus ELSE 0)
  BY DEF Freed, OpRec
<1>13. q \in OpRec
  BY DEF Freed, OpRec
<1>14. /\ Sound(f, q.c) /\ On(f, q.c) = OldChain(f, T[i])
       /\ OldChain(f, T[i]) \subseteq Reach(f, d)
  <2>1. CASE o.found
    <3>1. T[i].name = o.name /\ q.c = T[i].clus /\ T[i].name # Missing
      BY <1>2, <1>7, <1>12, <2>1, FatAssumption
    <3>2. Sound(f, q.c)
      BY <1>1, <1>7, <3>1 DEF Vol, Chained, EntrySound
    <3>3. On(f, q.c) = OldChain(f, T[i])
      BY <3>1 DEF OldChain
    <3>4. On(f, q.c) \subseteq Reach(f, d)
      BY <1>1, <1>7, <3>1, <3>2, OnClusters DEF Reach, Held
    <3> QED BY <3>2, <3>3, <3>4
  <2>2. CASE ~o.found
    <3>1. q.c = 0 /\ T[i].name = Missing
      BY <1>7, <1>12, <2>2
    <3>2. Sound(f, q.c) /\ On(f, q.c) = {}
      BY <3>1, NoPath, Sizes DEF Vol
    <3> QED BY <3>1, <3>2 DEF OldChain
  <2> QED BY <2>1, <2>2
<1>15. On(f, q.c) \cap Reach(f, e) = {}
  BY <1>1, <1>9, <1>10, <1>14
<1>16. Point("free_chain", f, e, q)
  BY <1>14, <1>15 DEF Point
<1>17. Leakless(f, d, On(f, o.newclus)) => Leakless(f, e, On(f, q.c))
  BY <1>1, <1>6, <1>10, <1>14 DEF Leakless
<1>18. Reads(f, e, o.name) = o.content
  BY <1>3, <1>6, <1>10, <1>11
<1> QED BY <1>2, <1>6, <1>10, <1>12, <1>13, <1>16, <1>17, <1>18

\* The write of the entry puts the new content in the place of the old one, at
\* one moment.
Commits ==
  /\ op.name \in Names /\ Reads(fat'[1], data', op.name) = op.content
  /\ \A n \in Names \ {op.name} : Reads(fat'[1], data', n) = Reads(fat[1], data, n)
  /\ op.result = -1 /\ op'.result = 0 /\ op'.name = op.name /\ op'.content = op.content
  /\ pc' = "free_chain"

LEMMA StepEntry ==
  ASSUME FInv, write_entry
  PROVE  FInv' /\ ((Keeps /\ pc' = "abort" /\ op' = op) \/ Commits)
<1>1. PICK f, d, q, e : /\ f = fat[1] /\ d = data /\ q = Freed(op)
                        /\ e = EntryPut(d, op.place, Filled(op))
  OBVIOUS
<1>2. /\ pc = "entry" /\ fat' = fat /\ alloc_hint' = alloc_hint /\ ret' = ret /\ losses' = losses
  BY DEF write_entry
<1>3. /\ Area(d) /\ alloc_hint \in Clusters /\ ret \in {-1, 0, NoResult}
      /\ faults \in 0 .. MaxFailures /\ losses \in 0 .. MaxFailures /\ Vol(f, d)
      /\ op \in OpRec /\ op.content \in Contents[op.name]
      /\ Point("entry", f, d, op)
      /\ faults = 0 /\ losses = 0 => Leakless(f, d, Pending("entry", f, op))
  BY <1>1, <1>2, Unpacked
<1>4. op.result = -1 /\ {"abort", "free_chain"} \subseteq Labels
      /\ Pending("entry", f, op) = On(f, op.newclus)
  BY <1>3 DEF Point, Written, Build, Labels, Pending
<1>5. \/ NoFault /\ data' = e /\ op' = q /\ pc' = "free_chain"
      \/ Fault /\ pc' = "abort" /\ data' = data /\ op' = op
  BY <1>1 DEF write_entry, EntryWritten, fill_entry, EntryPut, Filled, Freed, Goto
<1>6. CASE NoFault /\ data' = e /\ op' = q /\ pc' = "free_chain"
  <2>1. /\ Vol(f, e) /\ q \in OpRec /\ q.content = op.content /\ q.name = op.name /\ q.result = 0
        /\ Point("free_chain", f, e, q)
        /\ Leakless(f, d, On(f, op.newclus)) => Leakless(f, e, On(f, q.c))
        /\ op.name \in Names /\ Reads(f, e, op.name) = op.content
        /\ \A n \in Names \ {op.name} : Reads(f, e, n) = Reads(f, d, n)
    BY <1>1, <1>3, EntryReplaced
  <2>2. Area(e) /\ Pending("free_chain", f, q) = On(f, q.c) /\ faults' = faults
    BY <1>6, <2>1 DEF Vol, Pending, NoFault
  <2>3. FInv'
    BY <1>1, <1>2, <1>3, <1>4, <1>6, <2>1, <2>2, GoesOn
  <2>4. Commits
    BY <1>1, <1>2, <1>4, <1>6, <2>1 DEF Commits
  <2> QED BY <2>3, <2>4
<1>7. CASE Fault /\ pc' = "abort" /\ data' = data /\ op' = op
  <2>1. Point("abort", f, d, op)
    BY <1>3, FailPoint
  <2>2. faults' \in 0 .. MaxFailures /\ faults' # 0
    BY <1>7, FaultFacts
  <2>3. FInv'
    BY <1>1, <1>2, <1>3, <1>4, <1>7, <2>1, <2>2, GoesOn
  <2>4. Keeps
    BY <1>2, <1>7 DEF Keeps
  <2> QED BY <1>7, <2>3, <2>4
<1> QED BY <1>5, <1>6, <1>7


\* fat_set has written the first copy, or another one: what holds where it
\* goes on.
LEMMA CopySet ==
  ASSUME FInv, pc = "fat_set", fat' = [fat EXCEPT ![set.k][set.c] = set.v]
  PROVE  /\ fat' \in [1 .. NumFats -> Copy] /\ Vol(fat'[1], data) /\ Point(set.ok, fat'[1], data, op)
         /\ \A n \in Names : Reads(fat'[1], data, n) = Reads(fat[1], data, n)
         /\ faults = 0 /\ losses = 0 => Leakless(fat'[1], data, Pending(set.ok, fat'[1], op))
<1>1. /\ set \in SetRec /\ fat \in [1 .. NumFats -> Copy] /\ op \in OpRec /\ Vol(fat[1], data)
      /\ (IF set.k = 1 THEN Before(set.ok, fat[1], data, op, set) ELSE Point(set.ok, fat[1], data, op))
      /\ faults = 0 /\ losses = 0 =>
           Leakless(fat[1], data, IF set.k = 1 THEN PendingBefore(set.ok, fat[1], op, set)
                                  ELSE Pending(set.ok, fat[1], op))
  BY Unpacked DEF FInv, Types, Here, Accounted
<1>2. set.k \in 1 .. NumFats /\ set.c \in Clusters /\ set.v \in {0} \cup Clusters \cup {EOC}
  BY <1>1 DEF SetRec
<1>3. PICK f, g, d : f = fat[1] /\ g = fat'[1] /\ d = data
  OBVIOUS
<1>4. /\ fat' \in [1 .. NumFats -> Copy]
      /\ set.k = 1 => g = Linked(f, set.c, set.v)
      /\ set.k # 1 => g = f
  <2>1. fat[set.k] \in Copy /\ Linked(fat[set.k], set.c, set.v) \in Copy
    BY <1>1, <1>2 DEF Copy, Linked
  <2>2. fat' = [fat EXCEPT ![set.k] = Linked(fat[set.k], set.c, set.v)]
    BY <1>1, <1>2 DEF Linked
  <2> QED BY <1>1, <1>2, <1>3, <2>1, <2>2, Sizes
<1>5. CASE set.k = 1
  <2>1. Before(set.ok, f, d, op, set) /\ g = Linked(f, set.c, set.v) /\ Vol(f, d)
    BY <1>1, <1>3, <1>4, <1>5
  <2>2. Done(set.ok, f, g, d, op, set)
    BY <1>1, <2>1, SetDone
  <2> QED BY <1>1, <1>3, <1>4, <1>5, <2>2 DEF Done
<1>6. CASE set.k # 1
  <2>1. g = f
    BY <1>4, <1>6
  <2> QED BY <1>1, <1>3, <1>4, <1>6, <2>1
<1> QED BY <1>5, <1>6

LEMMA StepSet ==
  ASSUME FInv, fat_set
  PROVE  FInv' /\ Keeps
<1>1. /\ pc = "fat_set" /\ data' = data /\ alloc_hint' = alloc_hint /\ op' = op /\ ret' = ret
      /\ losses' = losses
  BY DEF fat_set
<1>2. /\ fat \in [1 .. NumFats -> Copy] /\ Area(data) /\ DOMAIN data = 2 .. DataEnd - 1
      /\ alloc_hint \in Clusters /\ ret \in {-1, 0, NoResult}
      /\ faults \in 0 .. MaxFailures /\ losses \in 0 .. MaxFailures
      /\ op \in OpRec /\ op.content \in Contents[op.name] /\ Vol(fat[1], data)
  BY <1>1, Unpacked DEF FInv, Types, TypeOK
<1>3. /\ set \in SetRec /\ set.fail = IF set.ok = "free_chain" THEN "free_chain" ELSE "abort"
      /\ (IF set.k = 1 THEN Before(set.ok, fat[1], data, op, set) ELSE Point(set.ok, fat[1], data, op))
      /\ op.result = 0 => set.ok = "free_chain"
  BY <1>1 DEF FInv, Types, Here, Result
<1>4. /\ set.k \in 1 .. NumFats /\ set.ok \in {"took", "data", "dir_took", "dir_linked", "free_chain"}
      /\ set.ok \in Labels /\ set.fail \in Labels /\ set.ok \notin {"fat_set", "idle"}
      /\ set.fail \notin {"fat_set", "idle"}
  BY <1>3 DEF SetRec, Labels
<1>5. ASSUME fat' \in [1 .. NumFats -> Copy], pc' \in Labels, faults' \in 0 .. MaxFailures
      PROVE  TypeOK'
  BY <1>1, <1>2, <1>5 DEF TypeOK, Labels, Copy
<1>6. CASE NoFault /\ fat' = [fat EXCEPT ![set.k][set.c] = set.v] /\ set_next
  <2>1. /\ fat' \in [1 .. NumFats -> Copy] /\ Vol(fat'[1], data) /\ Point(set.ok, fat'[1], data, op)
        /\ \A n \in Names : Reads(fat'[1], data, n) = Reads(fat[1], data, n)
        /\ faults = 0 /\ losses = 0 => Leakless(fat'[1], data, Pending(set.ok, fat'[1], op))
        /\ faults' = faults
    BY <1>1, <1>6, CopySet DEF NoFault
  <2>2. CASE set.k < NumFats
    <3>1. pc' = "fat_set" /\ set' = [set EXCEPT !.k = @ + 1]
      BY <1>6, <2>2 DEF set_next, Goto
    <3>2. set.k + 1 \in 1 .. NumFats /\ set.k + 1 # 1
      BY <1>4, <2>2, Sizes
    <3>3. set' \in SetRec /\ set'.k # 1 /\ set'.ok = set.ok /\ set'.fail = set.fail
      BY <1>3, <3>1, <3>2 DEF SetRec
    <3>4. TypeOK'
      BY <1>2, <1>5, <2>1, <3>1 DEF Labels
    <3>5. Types' /\ Here' /\ Accounted' /\ Result'
      BY <1>1, <1>2, <1>3, <2>1, <3>1, <3>3, <3>4 DEF Types, Here, Accounted, Result
    <3> QED BY <1>1, <2>1, <3>5 DEF FInv, Keeps
  <2>3. CASE ~(set.k < NumFats)
    <3>1. pc' = set.ok /\ set' = set
      BY <1>6, <2>3 DEF set_next, Goto
    <3>2. TypeOK'
      BY <1>2, <1>4, <1>5, <2>1, <3>1
    <3>3. Types' /\ Here' /\ Accounted' /\ Result'
      BY <1>1, <1>2, <1>3, <1>4, <2>1, <3>1, <3>2 DEF Types, Here, Accounted, Result
    <3> QED BY <1>1, <2>1, <3>3 DEF FInv, Keeps
  <2> QED BY <2>2, <2>3
<1>7. CASE /\ Fault /\ (fat' = fat \/ fat' = [fat EXCEPT ![set.k][set.c] = set.v])
           /\ pc' = set.fail /\ set' = set
  <2>1. /\ fat' \in [1 .. NumFats -> Copy] /\ Vol(fat'[1], data)
        /\ Point(set.ok, fat'[1], data, op) \/ Before(set.ok, fat'[1], data, op, set)
        /\ \A n \in Names : Reads(fat'[1], data, n) = Reads(fat[1], data, n)
    <3>1. CASE fat' = fat
      BY <1>2, <1>3, <3>1
    <3>2. CASE fat' = [fat EXCEPT ![set.k][set.c] = set.v]
      BY <1>1, <3>2, CopySet
    <3> QED BY <1>7, <3>1, <3>2
  <2>2. Point(set.fail, fat'[1], data, op)
    <3>1. CASE set.ok = "free_chain"
      BY <1>3, <2>1, <3>1 DEF Point, Before
    <3>2. CASE set.ok # "free_chain"
      <4>1. PICK g, d, q : g = fat'[1] /\ d = data /\ q = set.ok
        OBVIOUS
      <4>2. /\ q \in {"alloc", "took", "data", "slot", "dir_alloc", "dir_took", "dir_zero", "dir_linked", "entry"}
            /\ Point(q, g, d, op) \/ (q \in {"took", "data", "dir_took", "dir_linked"} /\ Before(q, g, d, op, set))
        BY <1>4, <2>1, <3>2, <4>1
      <4>3. Point("abort", g, d, op)
        BY <1>2, <4>2, FailPoint
      <4> QED BY <1>3, <3>2, <4>1, <4>3
    <3> QED BY <3>1, <3>2
  <2>3. faults' \in 0 .. MaxFailures /\ faults' # 0
    BY <1>7, FaultFacts
  <2>4. TypeOK'
    BY <1>4, <1>5, <1>7, <2>1, <2>3
  <2>5. Types' /\ Here' /\ Accounted' /\ Result'
    BY <1>1, <1>2, <1>3, <1>4, <1>7, <2>1, <2>2, <2>3, <2>4 DEF Types, Here, Accounted, Result
  <2> QED BY <1>1, <2>1, <2>5 DEF FInv, Keeps
<1> QED BY <1>6, <1>7 DEF fat_set, Goto


\* The volume as the formatter makes it.
LEMMA Formatted ==
  ASSUME Init
  PROVE  /\ Vol(fat[1], data) /\ Leakless(fat[1], data, {})
         /\ \A n \in Names : Reads(fat[1], data, n) = Missing
<1>1. PICK f, d : f = fat[1] /\ d = data
  OBVIOUS
<1>2. /\ f = [c \in Clusters |-> IF c \in {Root, 3} THEN EOC ELSE 0]
      /\ d = [c \in 2 .. DataEnd - 1 |->
               IF c = Root
               THEN DirCluster([i \in 1 .. Slots |->
                      IF i = 1 THEN [name |-> Dir, dir |-> TRUE, clus |-> 3, size |-> 0]
                      ELSE FreeSlot])
               ELSE ZeroCluster]
  BY <1>1, Sizes DEF Init
<1>3. Root = 2 /\ Root \in Clusters /\ 3 \in Clusters /\ 3 < DataEnd /\ Root < DataEnd
      /\ Root \in 2 .. DataEnd - 1
  BY Sizes DEF Root, Clusters
<1>4. f \in Copy /\ f[Root] = EOC /\ f[3] = EOC /\ Area(d)
  BY <1>2, <1>3 DEF Copy, Area
<1>5. /\ RootChain(f) = <<Root>> /\ Sound(f, Root) /\ On(f, Root) = {Root}
      /\ Sound(f, 3) /\ On(f, 3) = {3}
  BY <1>3, <1>4, PathOne DEF RootChain
<1>6. PICK E : E = [i \in 1 .. Slots |->
                      IF i = 1 THEN [name |-> Dir, dir |-> TRUE, clus |-> 3, size |-> 0] ELSE FreeSlot]
  OBVIOUS
<1>7. d[Root].slots = E /\ d[Root].kind = "dir" /\ d[Root] = [kind |-> "dir", slots |-> E]
  BY <1>2, <1>3, <1>6 DEF DirCluster
<1>8. /\ \A i \in 1 .. Slots : E[i] \in EntryRec /\ (i # 1 => E[i] = FreeSlot)
      /\ 1 \in 1 .. Slots /\ E[1] = [name |-> Dir, dir |-> TRUE, clus |-> 3, size |-> 0]
      /\ FreeSlot.name = Missing
  BY <1>3, <1>6, Sizes DEF EntryRec, FreeSlot
<1>9. d[Root] \in DirRec
  <2>1. E \in [1 .. Slots -> EntryRec]
    BY <1>6, <1>8
  <2> QED BY <1>7, <2>1 DEF DirRec
<1>10. PICK R : R = <<Root>>
  OBVIOUS
<1>11. R \in Seq(Clusters) /\ Len(R) = 1 /\ R[1] = Root
  <2>1. RootChain(f) \in Seq(Clusters)
    BY <1>5 DEF Sound, Path, RootChain
  <2> QED BY <1>5, <1>10, <2>1
<1>12. Full(R, d)
  BY <1>3, <1>9, <1>11 DEF Full
<1>13. Len(R) * Slots = Slots /\ Size(f) = Slots /\ Slots \in Nat
  <2>1. 1 * Slots = Slots /\ Slots \in Nat
    BY Sizes
  <2> QED BY <1>5, <1>10, <1>11, <2>1 DEF Size
<1>14. \A i \in 1 .. Slots : Tab(f, d)[i] = E[i]
  <2> SUFFICES ASSUME NEW i \in 1 .. Slots PROVE Tab(f, d)[i] = E[i]
    OBVIOUS
  <2>1. \A k \in 1 .. Len(R) * Slots : Table(R, d)[k] = d[R[Clu(k)]].slots[Slt(k)]
    BY <1>11, <1>12, TableFacts
  <2>2. Tab(f, d)[i] = d[R[Clu(i)]].slots[Slt(i)]
    BY <1>5, <1>10, <1>13, <2>1 DEF Tab
  <2>3. Clu(i) = 1 /\ Slt(i) = i
    <3>1. PICK x \in Nat : x = i - 1
      BY <1>13
    <3>2. x = 0 * Slots + x /\ x < Slots
      BY <1>13, <3>1
    <3>3. x \div Slots = 0 /\ x % Slots = x
      BY <1>13, <3>2, Divided
    <3> QED BY <3>1, <3>3 DEF Clu, Slt
  <2> QED BY <1>7, <1>11, <2>2, <2>3
<1>15. Tab(f, d) \in [1 .. Slots -> EntryRec]
  <2>1. Table(R, d) \in [1 .. Len(R) * Slots -> EntryRec]
    BY <1>11, <1>12, TableFacts
  <2> QED BY <1>5, <1>10, <1>13, <2>1 DEF Tab
<1>16. PICK T : T = Tab(f, d)
  OBVIOUS
<1>17. /\ \A i \in 1 .. Slots : i # 1 => T[i].name = Missing
       /\ T[1] = [name |-> Dir, dir |-> TRUE, clus |-> 3, size |-> 0]
       /\ T[1].name = Dir /\ T[1].dir = TRUE /\ T[1].clus = 3 /\ 1 \in 1 .. Slots
       /\ Dir # Missing /\ Dir \notin Names /\ Missing \notin Names
  BY <1>8, <1>14, <1>16, FatAssumption
<1>18. Listing(T, Slots)
  BY <1>13, <1>15, <1>16, <1>17 DEF Listing
<1>19. EntrySound(f, T[1])
  BY <1>3, <1>5, <1>17 DEF EntrySound
<1>20. Chained(f, T, Slots)
  BY <1>17, <1>19 DEF Chained
<1>21. Vol(f, d)
  BY <1>4, <1>5, <1>10, <1>12, <1>13, <1>16, <1>18, <1>20 DEF Vol
<1>22. Reach(f, d) = {Root, 3}
  <2>1. Held(f, T, Slots) = {3}
    BY <1>3, <1>5, <1>17 DEF Held
  <2> QED BY <1>5, <1>13, <1>16, <2>1 DEF Reach
<1>23. Leakless(f, d, {})
  BY <1>2, <1>22, Sizes DEF Leakless
<1>24. ASSUME NEW n \in Names PROVE Reads(f, d, n) = Missing
  <2>1. \A i \in 1 .. Slots : T[i].name # n
    BY <1>17
  <2> QED BY <1>13, <1>16, <2>1 DEF Reads, ReadTable
<1> QED BY <1>1, <1>21, <1>23, <1>24

LEMMA FatInit ==
  ASSUME Init
  PROVE  FInv
<1>1. /\ Vol(fat[1], data) /\ Leakless(fat[1], data, {})
  BY Formatted
<1>2. /\ pc = "idle" /\ alloc_hint = 2 /\ ret = NoResult /\ faults = 0 /\ losses = 0
  BY DEF Init
<1>3. TypeOK
  <2>1. fat \in [1 .. NumFats -> [Clusters -> {0} \cup Clusters \cup {EOC}]]
    BY DEF Init
  <2>2. DOMAIN data = 2 .. DataEnd - 1
    BY DEF Init
  <2>3. 2 \in Clusters /\ 0 \in 0 .. MaxFailures
    BY Sizes, FatAssumption DEF Root
  <2> QED BY <1>2, <2>1, <2>2, <2>3 DEF TypeOK
<1>4. Types
  BY <1>1, <1>2, <1>3 DEF Types, Vol
<1>5. Here /\ Accounted /\ Result
  BY <1>1, <1>2 DEF Here, Accounted, Result, Point, Pending
<1> QED BY <1>1, <1>4, <1>5 DEF FInv

\* Nothing happens.
LEMMA StepStutter ==
  ASSUME FInv, UNCHANGED vars
  PROVE  FInv' /\ Keeps
<1>1. FInv'
  BY DEF FInv, Types, TypeOK, Here, Accounted, Result, vars
<1> QED BY <1>1 DEF Keeps, vars

\* Every step keeps the invariant, and what can be read stays as it is except
\* when an entry is written.
LEMMA FatStep ==
  ASSUME FInv, [Next]_vars
  PROVE  FInv' /\ (Keeps \/ (write_entry /\ Commits))
<1>1. ASSUME NEW n \in Names \cup {Dir}, NEW v \in Contents[n], fat_write(n, v)
      PROVE  FInv' /\ Keeps
  BY <1>1, StepWrite
<1>2. CASE lookup
  BY <1>2, StepLookup
<1>3. CASE alloc_clus("alloc", "took")
  BY <1>3, StepAlloc
<1>4. CASE took
  BY <1>4, StepTook
<1>5. CASE write_data
  BY <1>5, StepData
<1>6. CASE entry_slot
  BY <1>6, StepSlot
<1>7. CASE alloc_clus("dir_alloc", "dir_took")
  BY <1>7, StepAlloc
<1>8. CASE dir_took
  BY <1>8, StepDirTook
<1>9. CASE dir_zero
  BY <1>9, StepZero
<1>10. CASE dir_linked
  BY <1>10, StepDirLinked
<1>11. CASE write_entry
  BY <1>11, StepEntry
<1>12. CASE abort
  BY <1>12, StepAbort
<1>13. CASE free_chain
  BY <1>13, StepFree
<1>14. CASE fat_set
  BY <1>14, StepSet
<1>15. CASE power_loss
  BY <1>15, StepPower
<1>16. CASE UNCHANGED vars
  BY <1>16, StepStutter
<1> QED
  BY <1>1, <1>2, <1>3, <1>4, <1>5, <1>6, <1>7, <1>8, <1>9, <1>10, <1>11, <1>12, <1>13, <1>14,
     <1>15, <1>16 DEF Next, Step

\* The inductive invariant: at every disk write the volume is sound, and the
\* call is where its locals and the disk say.
THEOREM FatInductive == Spec => []FInv
<1>1. Init => FInv
  BY FatInit
<1>2. FInv /\ [Next]_vars => FInv'
  BY FatStep
<1> QED BY <1>1, <1>2, PTL DEF Spec


-----------------------------------------------------------------------------
(* What the invariant says of the properties.                              *)

\* The used entries of the root directory, by place.
LEMMA UsedIs ==
  ASSUME Vol(fat[1], data)
  PROVE  /\ \A p \in Used : \E i \in 1 .. Size(fat[1]) :
                /\ p = Places[RootChain(fat[1])][i] /\ Entry(p) = Tab(fat[1], data)[i]
                /\ Tab(fat[1], data)[i].name # Missing
         /\ \A i \in 1 .. Size(fat[1]) : Tab(fat[1], data)[i].name # Missing =>
                /\ Places[RootChain(fat[1])][i] \in Used
                /\ Entry(Places[RootChain(fat[1])][i]) = Tab(fat[1], data)[i]
<1>1. PICK f, d, R, ps, n : f = fat[1] /\ d = data /\ R = RootChain(f) /\ ps = Places[R] /\ n = Size(f)
  OBVIOUS
<1>2. Chain(Root) = R /\ \A p : Entry(p) = EntryOf(d, p)
  BY <1>1, Views
<1>3. \A i \in 1 .. n : Tab(f, d)[i] = EntryOf(d, ps[i])
  BY <1>1, TabAt
<1>4. DOMAIN ps = 1 .. n
  <2>1. R \in Seq(Clusters)
    BY <1>1, VolFacts
  <2> QED BY <1>1, <2>1, PlacesFacts DEF Size
<1>5. ToSet(ps) = {ps[i] : i \in 1 .. n}
  BY <1>4 DEF ToSet
<1>6. Used = {p \in ToSet(ps) : Entry(p).name # Missing}
  BY <1>1, <1>2 DEF Used
<1>7. ASSUME NEW p \in Used
      PROVE  \E i \in 1 .. n : p = ps[i] /\ Entry(p) = Tab(f, d)[i] /\ Tab(f, d)[i].name # Missing
  <2>1. p \in ToSet(ps) /\ Entry(p).name # Missing
    BY <1>6
  <2>2. PICK i \in 1 .. n : p = ps[i]
    BY <1>5, <2>1
  <2>3. Entry(p) = Tab(f, d)[i]
    BY <1>2, <1>3, <2>2
  <2> QED BY <2>1, <2>2, <2>3
<1>8. ASSUME NEW i \in 1 .. n, Tab(f, d)[i].name # Missing
      PROVE  ps[i] \in Used /\ Entry(ps[i]) = Tab(f, d)[i]
  BY <1>2, <1>3, <1>5, <1>6, <1>8
<1> QED BY <1>1, <1>7, <1>8

LEMMA HeadsAre ==
  ASSUME Vol(fat[1], data), NEW h \in Heads
  PROVE  h \in Clusters /\ Sound(fat[1], h) /\ ToSet(Chain(h)) \subseteq Reach(fat[1], data)
<1>1. CASE h = Root
  BY <1>1, Sizes DEF Vol, Reach, On, Chain
<1>2. CASE h # Root
  <2>1. PICK p \in Used : h = Entry(p).clus /\ h # 0
    BY <1>2 DEF Heads
  <2>2. PICK i \in 1 .. Size(fat[1]) : Entry(p) = Tab(fat[1], data)[i] /\ Tab(fat[1], data)[i].name # Missing
    BY UsedIs
  <2>3. Tab(fat[1], data)[i] \in EntryRec /\ EntrySound(fat[1], Tab(fat[1], data)[i])
    BY <2>2, TabAt DEF Vol, Chained
  <2>4. h \in Clusters /\ Sound(fat[1], h)
    BY <2>1, <2>2, <2>3 DEF EntryRec, EntrySound
  <2>5. On(fat[1], h) \subseteq Reach(fat[1], data)
    BY <2>1, <2>2, <2>4, OnClusters DEF Reach, Held
  <2> QED BY <2>4, <2>5 DEF On, Chain
<1> QED BY <1>1, <1>2

LEMMA VolSound == FInv => ChainsSound
<1> SUFFICES ASSUME FInv PROVE ChainsSound
  OBVIOUS
<1>1. TypeOK /\ Vol(fat[1], data)
  BY DEF FInv, Types
<1>2. ASSUME NEW h \in Heads
      PROVE  h \in Clusters /\ fat[1][Last(Chain(h))] = EOC /\ IsInjective(Chain(h))
  <2>1. h \in Clusters /\ Path(fat[1], h, Chain(h))
    BY <1>1, HeadsAre DEF Sound, Chain
  <2>2. PICK s : s = Chain(h)
    OBVIOUS
  <2>3. s # <<>> /\ DOMAIN s = 1 .. Len(s)
    BY <2>1, <2>2, PathFacts
  <2>4. fat[1][s[Len(s)]] = EOC /\ \A i, j \in 1 .. Len(s) : s[i] = s[j] => i = j
    BY <2>1, <2>2, <2>3 DEF Path
  <2> QED BY <2>1, <2>2, <2>3, <2>4 DEF Last, IsInjective
<1>3. ASSUME NEW p \in Used, ~Entry(p).dir PROVE Len(Chain(Entry(p).clus)) = Entry(p).size
  <2>1. PICK i \in 1 .. Size(fat[1]) : Entry(p) = Tab(fat[1], data)[i] /\ Tab(fat[1], data)[i].name # Missing
    BY <1>1, UsedIs
  <2>2. EntrySound(fat[1], Tab(fat[1], data)[i])
    BY <1>1, <2>1 DEF Vol, Chained
  <2> QED BY <1>3, <2>1, <2>2 DEF EntrySound, Chain
<1>4. ASSUME NEW p \in Used, NEW q \in Used, p # q, Entry(p).clus # 0
      PROVE  /\ ToSet(Chain(Entry(p).clus)) \cap ToSet(Chain(Entry(q).clus)) = {}
             /\ ToSet(Chain(Entry(p).clus)) \cap ToSet(Chain(Root)) = {}
  <2>1. PICK i \in 1 .. Size(fat[1]) : /\ p = Places[RootChain(fat[1])][i]
                                       /\ Entry(p) = Tab(fat[1], data)[i] /\ Tab(fat[1], data)[i].name # Missing
    BY <1>1, UsedIs
  <2>2. PICK j \in 1 .. Size(fat[1]) : /\ q = Places[RootChain(fat[1])][j]
                                       /\ Entry(q) = Tab(fat[1], data)[j] /\ Tab(fat[1], data)[j].name # Missing
    BY <1>1, UsedIs
  <2>3. i # j
    BY <1>4, <2>1, <2>2
  <2>4. /\ On(fat[1], Tab(fat[1], data)[i].clus) \cap On(fat[1], Tab(fat[1], data)[j].clus) = {}
        /\ On(fat[1], Tab(fat[1], data)[i].clus) \cap On(fat[1], Root) = {}
    BY <1>1, <2>1, <2>2, <2>3 DEF Vol, Chained, EntrySound
  <2> QED BY <2>1, <2>2, <2>4 DEF On, Chain
<1> QED BY <1>1, <1>2, <1>3, <1>4 DEF ChainsSound

LEMMA ReachableIs ==
  ASSUME Vol(fat[1], data)
  PROVE  Reachable = Reach(fat[1], data)
<1>1. ASSUME NEW c \in Reachable PROVE c \in Reach(fat[1], data)
  <2>1. PICK h \in Heads : c \in ToSet(Chain(h))
    BY DEF Reachable
  <2> QED BY <2>1, HeadsAre
<1>2. ASSUME NEW c \in Reach(fat[1], data) PROVE c \in Reachable
  <2>1. CASE c \in On(fat[1], Root)
    BY <2>1 DEF On, Chain, Reachable, Heads
  <2>2. CASE c \notin On(fat[1], Root)
    <3>1. PICK i \in 1 .. Size(fat[1]) :
            Tab(fat[1], data)[i].name # Missing /\ c \in On(fat[1], Tab(fat[1], data)[i].clus)
      BY <2>2 DEF Reach, Held
    <3>2. PICK p : p \in Used /\ Entry(p) = Tab(fat[1], data)[i]
      BY <3>1, UsedIs
    <3>3. Entry(p).clus # 0
      BY <3>1, <3>2, NoPath, Sizes DEF Vol
    <3>4. Entry(p).clus \in Heads
      BY <3>2, <3>3 DEF Heads
    <3>5. c \in ToSet(Chain(Entry(p).clus))
      BY <3>1, <3>2 DEF On, Chain
    <3> QED BY <3>4, <3>5 DEF Reachable
  <2> QED BY <2>1, <2>2
<1> QED BY <1>1, <1>2

LEMMA NothingLeaks == FInv => NoLeak
<1> SUFFICES ASSUME FInv, pc = "idle", faults = 0, losses = 0
             PROVE  {c \in 2 .. DataEnd - 1 : fat[1][c] # 0} = Reachable
  BY DEF NoLeak
<1>1. Vol(fat[1], data) /\ Leakless(fat[1], data, Pending("idle", fat[1], op))
  BY Unpacked
<1>2. Pending("idle", fat[1], op) = {}
  BY DEF Pending
<1>3. \A c \in Reach(fat[1], data) : c \in 2 .. DataEnd - 1 /\ fat[1][c] # 0
  BY <1>1, VolFacts, ReachNonzero
<1>4. \A c \in 2 .. DataEnd - 1 : fat[1][c] # 0 => c \in Reach(fat[1], data)
  BY <1>1, <1>2 DEF Leakless
<1> QED BY <1>1, <1>3, <1>4, ReachableIs

\* The volume is sound at every disk write: no chain ends wrongly, contains a
\* free cluster or one of another chain, and every file's chain has the length
\* its entry says, whatever fails and wherever the power fails.
THEOREM ChainsAlwaysSound == Spec => []ChainsSound
  BY FatInductive, VolSound, PTL

\* Without disk errors and power losses, what is allocated between two calls
\* is what the directory leads to: every path of fat_write gives back what it
\* took and does not use.
THEOREM NoClusterLeaks == Spec => []NoLeak
  BY FatInductive, NothingLeaks, PTL


-----------------------------------------------------------------------------
(* fat_write implements the atomic replacement of a file.                  *)

\* The state of FileStore that a state of Fat stands for.
Files == [n \in Names |-> fat_read(n)]
Phase == IF pc = "idle" THEN "none" ELSE IF op.result = 0 THEN "committed" ELSE "pending"
Pend == IF pc = "idle" THEN [name |-> Missing, content |-> Missing]
        ELSE [name |-> op.name, content |-> op.content]

LEMMA FilesKept ==
  ASSUME FInv, FInv', Keeps
  PROVE  Files' = Files
<1>1. \A n \in Names : fat_read(n) = Reads(fat[1], data, n)
  BY ReadIs DEF FInv
<1>2. \A n \in Names : fat_read(n)' = Reads(fat'[1], data', n)
  BY ReadIsNext DEF FInv
<1>3. \A n \in Names : fat_read(n)' = fat_read(n)
  BY <1>1, <1>2 DEF Keeps
<1> QED BY <1>3 DEF Files

\* The steps within a call.
Within ==
  /\ pc # "idle" /\ pc' # "idle" /\ ret' = ret
  /\ op'.name = op.name /\ op'.content = op.content /\ op'.result = op.result

LEMMA InnerSteps ==
  ASSUME FInv, \/ alloc_clus("alloc", "took") \/ took \/ write_data \/ entry_slot
               \/ alloc_clus("dir_alloc", "dir_took") \/ dir_took \/ dir_zero \/ dir_linked
               \/ abort \/ fat_set
  PROVE  Within
<1>1. pc # "idle"
  BY DEF alloc_clus, took, write_data, entry_slot, dir_took, dir_zero, dir_linked, abort, fat_set
<1>2. op \in OpRec
  BY <1>1, Unpacked
<1>3. CASE alloc_clus("alloc", "took") \/ alloc_clus("dir_alloc", "dir_took")
  BY <1>1, <1>2, <1>3 DEF alloc_clus, CallFatSet, Goto, OpRec, Within
<1>4. CASE took
  BY <1>1, <1>2, <1>4 DEF took, CallFatSet, Goto, OpRec, Within
<1>5. CASE write_data
  BY <1>1, <1>2, <1>5 DEF write_data, NextBlock, Goto, OpRec, Within
<1>6. CASE entry_slot
  BY <1>1, <1>2, <1>6 DEF entry_slot, Extend, Goto, OpRec, Within
<1>7. CASE dir_took
  BY <1>1, <1>2, <1>7 DEF dir_took, Goto, Within
<1>8. CASE dir_zero
  BY <1>1, <1>2, <1>8 DEF dir_zero, CallFatSet, Goto, Within
<1>9. CASE dir_linked
  BY <1>1, <1>2, <1>9 DEF dir_linked, Goto, OpRec, Within
<1>10. CASE abort
  BY <1>1, <1>2, <1>10 DEF abort, Goto, OpRec, Within
<1>11. CASE fat_set
  <2>1. set \in SetRec
    BY <1>11 DEF fat_set, FInv, Types
  <2>2. set.ok # "idle" /\ set.fail # "idle"
    BY <2>1 DEF SetRec
  <2> QED BY <1>1, <1>11, <2>2 DEF fat_set, set_next, Goto, Within
<1> QED BY <1>3, <1>4, <1>5, <1>6, <1>7, <1>8, <1>9, <1>10, <1>11

LEMMA StoreInit ==
  ASSUME Init
  PROVE  Store!Init
<1>1. \A n \in Names : fat_read(n) = Missing
  BY Formatted, ReadIs
<1> QED BY <1>1 DEF Init, Store!Init, Store!NoCall

LEMMA StoreStep ==
  ASSUME FInv, FInv', [Next]_vars
  PROVE  [Store!Next]_<<Files, Phase, Pend, ret>>
<1>1. Keeps \/ (write_entry /\ Commits)
  BY FatStep
<1>2. Keeps => Files' = Files
  BY FilesKept
<1>3. Within => Phase' = Phase /\ Pend' = Pend /\ ret' = ret
  BY DEF Within, Phase, Pend
<1>4. CASE \E n \in Names \cup {Dir} : \E v \in Contents[n] : fat_write(n, v)
  <2>0. PICK n \in Names \cup {Dir} : \E v \in Contents[n] : fat_write(n, v)
    BY <1>4
  <2>1. PICK v \in Contents[n] : fat_write(n, v)
    BY <2>0
  <2>2. ~write_entry /\ pc = "idle" /\ pc' = "lookup" /\ ret' = ret
    BY <2>1 DEF fat_write, Goto, write_entry
  <2>3. op'.name = n /\ op'.content = v /\ op'.result = -1
    BY <2>1 DEF fat_write
  <2>4. Files' = Files
    BY <1>1, <1>2, <2>2
  <2>5. Phase = "none" /\ Phase' = "pending" /\ Pend' = [name |-> n, content |-> v]
    BY <2>2, <2>3 DEF Phase, Pend
  <2>6. Store!Begin(n, v)
    BY <2>2, <2>4, <2>5 DEF Store!Begin, Files, Phase, Pend
  <2> QED BY <2>6 DEF Store!Next
<1>5. ASSUME Within, Keeps PROVE UNCHANGED <<Files, Phase, Pend, ret>>
  BY <1>2, <1>3, <1>5
<1>6. CASE \/ alloc_clus("alloc", "took") \/ took \/ write_data \/ entry_slot
           \/ alloc_clus("dir_alloc", "dir_took") \/ dir_took \/ dir_zero \/ dir_linked
           \/ abort \/ fat_set
  <2>1. ~write_entry
    <3>1. pc # "entry"
      BY <1>6 DEF alloc_clus, took, write_data, entry_slot, dir_took, dir_zero, dir_linked, abort, fat_set
    <3> QED BY <3>1 DEF write_entry
  <2> QED BY <1>1, <1>5, <1>6, <2>1, InnerSteps
<1>7. ASSUME NEW r \in {-1, 0}, Return(r), pc # "idle", r = 0 <=> op.result = 0, Keeps
      PROVE  [Store!Next]_<<Files, Phase, Pend, ret>>
  <2>1. pc' = "idle" /\ ret' = r /\ Files' = Files
    BY <1>2, <1>7 DEF Return, Goto
  <2>2. /\ Phase # "none" /\ Phase' = "none" /\ Pend' = [name |-> Missing, content |-> Missing]
        /\ ret' = IF Phase = "committed" THEN 0 ELSE -1
    BY <1>7, <2>1 DEF Phase, Pend
  <2>3. Store!Return
    BY <2>1, <2>2 DEF Store!Return, Store!NoCall, Files, Phase, Pend
  <2> QED BY <2>3 DEF Store!Next
<1>8. CASE lookup
  <2>1. pc = "lookup" /\ ~write_entry
    BY <1>8 DEF lookup, write_entry
  <2>2. op \in OpRec /\ Point("lookup", fat[1], data, op) /\ Keeps
    BY <1>1, <2>1, Unpacked
  <2>3. op.result = -1
    BY <2>2 DEF Point
  <2>4. CASE Return(-1)
    BY <1>7, <2>1, <2>2, <2>3, <2>4
  <2>5. CASE ~Return(-1)
    <3>1. Within
      BY <1>8, <2>1, <2>2, <2>5 DEF lookup, Goto, NextBlock, OpRec, Within
    <3> QED BY <1>5, <2>2, <3>1
  <2> QED BY <2>4, <2>5
<1>9. CASE free_chain
  <2>1. pc = "free_chain" /\ ~write_entry
    BY <1>9 DEF free_chain, write_entry
  <2>2. op \in OpRec /\ Keeps
    BY <1>1, <2>1, Unpacked
  <2>3. CASE op.c \in Clusters
    <3>1. Within
      BY <1>9, <2>1, <2>2, <2>3 DEF free_chain, CallFatSet, Goto, OpRec, Within
    <3> QED BY <1>5, <2>2, <3>1
  <2>4. CASE op.c \notin Clusters
    <3>1. Return(op.result) /\ op.result \in {-1, 0}
      BY <1>9, <2>2, <2>4 DEF free_chain, OpRec
    <3> QED BY <1>7, <2>1, <2>2, <3>1
  <2> QED BY <2>3, <2>4
<1>10. CASE write_entry
  <2>1. pc = "entry" /\ ret' = ret /\ pc' # "idle"
    BY <1>10 DEF write_entry, Goto
  <2>2. (Keeps /\ pc' = "abort" /\ op' = op) \/ Commits
    BY <1>10, StepEntry
  <2>3. CASE Keeps /\ pc' = "abort" /\ op' = op
    <3>1. Within
      BY <2>1, <2>3 DEF Within
    <3> QED BY <1>5, <2>3, <3>1
  <2>4. CASE Commits
    <3>1. \A n \in Names : fat_read(n) = Reads(fat[1], data, n)
      BY ReadIs DEF FInv
    <3>2. \A n \in Names : fat_read(n)' = Reads(fat'[1], data', n)
      BY ReadIsNext DEF FInv
    <3>3. op.name \in Names /\ \A n \in Names : fat_read(n)' = IF n = op.name THEN op.content ELSE fat_read(n)
      BY <2>4, <3>1, <3>2 DEF Commits
    <3>4. Files' = [Files EXCEPT ![op.name] = op.content]
      BY <3>3 DEF Files
    <3>5. /\ Phase = "pending" /\ Phase' = "committed" /\ Pend' = Pend
          /\ Pend.name = op.name /\ Pend.content = op.content
      BY <2>1, <2>4 DEF Phase, Pend, Commits
    <3>6. Store!Commit
      BY <2>1, <3>3, <3>4, <3>5 DEF Store!Commit, Files, Phase, Pend
    <3> QED BY <3>6 DEF Store!Next
  <2> QED BY <2>2, <2>3, <2>4
<1>11. CASE power_loss
  <2>1. pc' = "idle" /\ ret' = NoResult
    BY <1>11 DEF power_loss, Goto
  <2>2. Keeps
    BY <1>11, StepPower
  <2>3. Phase' = "none" /\ Pend' = [name |-> Missing, content |-> Missing] /\ Files' = Files
    BY <1>2, <2>1, <2>2 DEF Phase, Pend
  <2>4. Store!PowerLoss
    BY <2>1, <2>3 DEF Store!PowerLoss, Store!NoCall, Files, Phase, Pend
  <2> QED BY <2>4 DEF Store!Next
<1>12. CASE UNCHANGED vars
  <2>1. Keeps
    BY <1>12, StepStutter
  <2>2. Phase' = Phase /\ Pend' = Pend /\ ret' = ret
    BY <1>12 DEF vars, Phase, Pend
  <2> QED BY <1>2, <2>1, <2>2
<1> QED BY <1>4, <1>6, <1>8, <1>9, <1>10, <1>11, <1>12 DEF Next, Step

\* fat_write replaces a file as a whole, at one moment of the call, whichever
\* disk accesses fail and wherever the power is lost: it returns 0 exactly if
\* the new content is there, and otherwise the old one is.
THEOREM FatImplementsFileStore == Spec => ImplementsFileStore
<1>1. Init => Store!Init
  BY StoreInit
<1>2. FInv /\ FInv' /\ [Next]_vars => [Store!Next]_<<Files, Phase, Pend, ret>>
  BY StoreStep
<1> QED BY <1>1, <1>2, FatInductive, PTL DEF Spec, ImplementsFileStore, Store!Spec, Files, Phase, Pend


-----------------------------------------------------------------------------
(* The copies of the FAT.                                                  *)

\* While fat_set runs, the copies before the k-th have the new value.
Halfway(B) == \A j \in 1 .. NumFats : fat[j] = IF j < set.k THEN Linked(B, set.c, set.v) ELSE B
Mirrored ==
  faults = 0 /\ losses = 0 =>
    IF pc # "fat_set" THEN \A k \in 1 .. NumFats : fat[k] = fat[1] ELSE \E B \in Copy : Halfway(B)

\* The steps other than fat_set leave the FAT alone, and the ones that call it
\* start at the first copy.
Enters ==
  /\ pc # "fat_set" /\ fat' = fat /\ (faults' = 0 => faults = 0) /\ (losses' = 0 => losses = 0)
  /\ pc' = "fat_set" => set'.k = 1

LEMMA OtherSteps ==
  ASSUME FInv, Next, ~fat_set, ~power_loss
  PROVE  Enters
<1> USE DEF Goto, Disk, NoFault, Fault, Enters
<1>1. faults \in Nat /\ losses \in Nat
  BY FatAssumption DEF FInv, Types, TypeOK
<1>2. CASE \E n \in Names \cup {Dir} : \E v \in Contents[n] : fat_write(n, v)
  BY <1>2 DEF fat_write
<1>3. CASE lookup
  BY <1>3 DEF lookup, Return, NextBlock
<1>4. CASE alloc_clus("alloc", "took") \/ alloc_clus("dir_alloc", "dir_took")
  <2>1. ASSUME NEW c, NEW v, NEW ok, NEW fail, CallFatSet(c, v, ok, fail) PROVE set'.k = 1
    BY <2>1 DEF CallFatSet
  <2> QED BY <1>1, <1>4, <2>1 DEF alloc_clus
<1>5. CASE took
  BY <1>5 DEF took, CallFatSet
<1>6. CASE write_data
  BY <1>1, <1>6 DEF write_data, NextBlock
<1>7. CASE entry_slot
  BY <1>1, <1>7 DEF entry_slot, Extend
<1>8. CASE dir_took
  BY <1>8 DEF dir_took
<1>9. CASE dir_zero
  BY <1>1, <1>9 DEF dir_zero, CallFatSet
<1>10. CASE dir_linked
  BY <1>1, <1>10 DEF dir_linked
<1>11. CASE write_entry
  BY <1>1, <1>11 DEF write_entry
<1>12. CASE abort
  BY <1>12 DEF abort
<1>13. CASE free_chain
  BY <1>1, <1>13 DEF free_chain, CallFatSet, Return
<1> QED BY <1>2, <1>3, <1>4, <1>5, <1>6, <1>7, <1>8, <1>9, <1>10, <1>11, <1>12, <1>13
        DEF Next, Step


LEMMA MirroredStep ==
  ASSUME FInv, Mirrored, [Next]_vars
  PROVE  Mirrored'
<1> SUFFICES ASSUME faults' = 0, losses' = 0
             PROVE  IF pc' # "fat_set" THEN \A k \in 1 .. NumFats : fat'[k] = fat'[1]
                    ELSE \E B \in Copy : Halfway(B)'
  BY DEF Mirrored
<1>1. /\ fat \in [1 .. NumFats -> Copy] /\ faults \in Nat /\ losses \in Nat
      /\ pc = "fat_set" => set \in SetRec
  BY Unpacked, FatAssumption DEF FInv, Types
<1>2. CASE UNCHANGED vars
  <2>1. /\ pc' = pc /\ fat' = fat /\ set' = set /\ faults = 0 /\ losses = 0
    BY <1>2 DEF vars
  <2> QED BY <2>1 DEF Mirrored, Halfway
<1>3. CASE power_loss
  BY <1>1, <1>3 DEF power_loss
<1>4. CASE Next /\ ~fat_set /\ ~power_loss
  <2>1. Enters
    BY <1>4, OtherSteps
  <2>2. fat' = fat /\ faults = 0 /\ losses = 0 /\ \A k \in 1 .. NumFats : fat[k] = fat[1]
    BY <2>1 DEF Enters, Mirrored
  <2>3. CASE pc' # "fat_set"
    BY <2>2, <2>3
  <2>4. CASE pc' = "fat_set"
    <3>1. set'.k = 1 /\ \A j \in 1 .. NumFats : ~(j < 1)
      BY <2>1, <2>4 DEF Enters
    <3>2. Halfway(fat[1])' /\ fat[1] \in Copy
      BY <1>1, <2>2, <3>1, Sizes DEF Halfway
    <3>3. PICK B : B = fat[1]
      OBVIOUS
    <3>4. B \in Copy /\ Halfway(B)'
      BY <2>2, <3>1, <3>2, <3>3 DEF Halfway
    <3> QED BY <2>4, <3>4
  <2> QED BY <2>3, <2>4
<1>5. CASE fat_set
  <2>1. pc = "fat_set" /\ losses' = losses
    BY <1>5 DEF fat_set
  <2>2. faults' = faults /\ fat' = [fat EXCEPT ![set.k][set.c] = set.v] /\ set_next
    <3>1. ~Fault
      BY <1>1 DEF Fault
    <3> QED BY <1>5, <3>1 DEF fat_set, NoFault
  <2>3. PICK B \in Copy : Halfway(B)
    BY <2>1, <2>2 DEF Mirrored
  <2>4. /\ set.k \in 1 .. NumFats /\ NumFats \in Nat /\ set.k \in Nat
    BY <1>1, <2>1, Sizes DEF SetRec
  <2>5. PICK L : L = Linked(B, set.c, set.v)
    OBVIOUS
  <2>6. \A j \in 1 .. NumFats : fat[j] = IF j < set.k THEN L ELSE B
    BY <2>3, <2>5 DEF Halfway
  <2>7. fat[set.k] = B
    BY <2>4, <2>6
  <2>8. fat' = [fat EXCEPT ![set.k] = L]
    BY <1>1, <2>2, <2>4, <2>5, <2>7 DEF Linked
  <2>9. \A j \in 1 .. NumFats : fat'[j] = IF j < set.k + 1 THEN L ELSE B
    BY <1>1, <2>4, <2>6, <2>8
  <2>10. CASE set.k < NumFats
    <3>1. pc' = "fat_set" /\ set' = [set EXCEPT !.k = @ + 1]
      BY <2>2, <2>10 DEF set_next, Goto
    <3>2. set'.k = set.k + 1 /\ set'.c = set.c /\ set'.v = set.v
      BY <1>1, <2>1, <3>1 DEF SetRec
    <3>3. Halfway(B)'
      BY <2>5, <2>9, <3>2 DEF Halfway
    <3> QED BY <3>1, <3>3
  <2>11. CASE ~(set.k < NumFats)
    <3>1. pc' = set.ok /\ set.ok # "fat_set"
      BY <1>1, <2>1, <2>2, <2>11 DEF set_next, Goto, SetRec
    <3>2. \A j \in 1 .. NumFats : fat'[j] = L
      BY <2>4, <2>9, <2>11
    <3> QED BY <3>1, <3>2, Sizes
  <2> QED BY <2>10, <2>11
<1> QED BY <1>2, <1>3, <1>4, <1>5

\* Without disk errors and power losses the copies of the FAT agree between two
\* calls: fat_set writes the same value to the same entry of all of them.
THEOREM CopiesAlwaysAgree == Spec => []CopiesAgree
<1>1. Init => Mirrored
  BY Sizes DEF Init, Mirrored
<1>2. FInv /\ Mirrored /\ [Next]_vars => Mirrored'
  BY MirroredStep
<1>3. Mirrored => CopiesAgree
  BY DEF Mirrored, CopiesAgree
<1> QED BY <1>1, <1>2, <1>3, FatInductive, PTL DEF Spec

-----------------------------------------------------------------------------
(* Giving up.                                                              *)

\* Whatever the hint, alloc_clus looks at every cluster.
LEMMA SearchesAll ==
  ASSUME FInv, NEW c \in Clusters
  PROVE  \E i \in 0 .. FatMax - 1 : Candidate(i) = c
<1>1. PICK m, t, x : m = FatMax - 2 /\ t = alloc_hint /\ x = c - 2
  OBVIOUS
<1>2. /\ m \in Nat /\ m >= 3 /\ t \in 2 .. m + 1 /\ x \in 0 .. m - 1 /\ x < m
  BY <1>1, Unpacked, Sizes DEF Clusters
<1>3. ASSUME NEW i \in 0 .. m + 1, NEW a \in Nat, t + i = a * m + x
      PROVE  \E k \in 0 .. FatMax - 1 : Candidate(k) = c
  <2>1. t + i \in Nat /\ x \in Nat
    BY <1>2
  <2>2. (t + i) % m = x
    BY <1>2, <1>3, <2>1, Divided
  <2>3. Candidate(i) = 2 + x /\ 2 + x = c
    BY <1>1, <2>2 DEF Candidate, Clusters
  <2>4. i \in 0 .. FatMax - 1
    BY <1>1, <1>3, Sizes
  <2> QED BY <2>3, <2>4
<1>4. CASE x >= t
  <2>1. x - t \in 0 .. m + 1 /\ t + (x - t) = 0 * m + x
    BY <1>2, <1>4
  <2> QED BY <1>3, <2>1
<1>5. CASE ~(x >= t) /\ x + m >= t
  <2>1. x + m - t \in 0 .. m + 1 /\ t + (x + m - t) = 1 * m + x
    BY <1>2, <1>5
  <2> QED BY <1>3, <2>1
<1>6. CASE ~(x + m >= t)
  <2>1. x = 0 /\ t = m + 1
    BY <1>2, <1>6
  <2>2. m - 1 \in 0 .. m + 1 /\ t + (m - 1) = 2 * m + x
    BY <1>2, <2>1
  <2> QED BY <1>3, <2>2
<1> QED BY <1>4, <1>5, <1>6

LEMMA GivesUpStep ==
  ASSUME FInv, GivesUpOnlyWhenFull, [Next]_vars
  PROVE  GivesUpOnlyWhenFull'
<1> SUFFICES ASSUME pc' = "abort", faults' = 0 PROVE Free' = {} \/ op'.c >= DataEnd
  BY DEF GivesUpOnlyWhenFull
<1>1. faults \in Nat /\ ~Fault
  BY Unpacked, FatAssumption DEF Fault
<1>2. CASE UNCHANGED vars
  BY <1>2 DEF vars, Free, GivesUpOnlyWhenFull
<1>3. CASE alloc_clus("alloc", "took") \/ alloc_clus("dir_alloc", "dir_took")
  <2>1. FreeCandidates = {} /\ fat' = fat
    BY <1>1, <1>3 DEF alloc_clus, CallFatSet, Goto, Disk
  <2>2. \A c \in Clusters : fat[1][c] # 0
    <3> SUFFICES ASSUME NEW c \in Clusters, fat[1][c] = 0 PROVE FALSE
      OBVIOUS
    <3>1. PICK i \in 0 .. FatMax - 1 : Candidate(i) = c
      BY SearchesAll
    <3> QED BY <2>1, <3>1 DEF FreeCandidates
  <2>3. Free = {}
    BY <2>2 DEF Free
  <2> QED BY <2>1, <2>3 DEF Free
<1>4. CASE write_data
  BY <1>1, <1>4 DEF write_data, DataTarget, Goto, NextBlock
<1>5. CASE dir_zero
  BY <1>1, <1>5 DEF dir_zero, Goto, CallFatSet
<1>6. CASE fat_set
  <2>1. set \in SetRec
    BY <1>6 DEF fat_set, FInv, Types
  <2> QED BY <1>1, <1>6, <2>1 DEF fat_set, set_next, Goto, SetRec
<1>7. CASE \/ \E n \in Names \cup {Dir} : \E v \in Contents[n] : fat_write(n, v)
           \/ lookup \/ took \/ entry_slot \/ dir_took \/ dir_linked \/ write_entry \/ abort
           \/ free_chain \/ power_loss
  <2>1. pc' # "abort"
    <3> USE DEF Goto
    <3>1. CASE \E n \in Names \cup {Dir} : \E v \in Contents[n] : fat_write(n, v)
      BY <3>1 DEF fat_write
    <3>2. CASE lookup
      BY <3>2 DEF lookup, Return, NextBlock
    <3>3. CASE took
      BY <3>3 DEF took, CallFatSet
    <3>4. CASE entry_slot \/ dir_took \/ dir_linked \/ write_entry
      BY <1>1, <3>4 DEF entry_slot, Extend, dir_took, dir_linked, write_entry
    <3>5. CASE abort \/ free_chain \/ power_loss
      BY <3>5 DEF abort, free_chain, CallFatSet, Return, power_loss
    <3> QED BY <1>7, <3>1, <3>2, <3>3, <3>4, <3>5
  <2> QED BY <2>1
<1> QED BY <1>2, <1>3, <1>4, <1>5, <1>6, <1>7 DEF Next, Step

\* Without disk errors fat_write gives up only when no cluster of the FAT is
\* free or when it was given one past the end of the disk.
THEOREM FatGivesUpOnlyWhenFull == Spec => []GivesUpOnlyWhenFull
<1>1. Init => GivesUpOnlyWhenFull
  BY DEF Init, GivesUpOnlyWhenFull
<1>2. FInv /\ GivesUpOnlyWhenFull /\ [Next]_vars => GivesUpOnlyWhenFull'
  BY GivesUpStep
<1> QED BY <1>1, <1>2, FatInductive, PTL DEF Spec
=============================================================================
