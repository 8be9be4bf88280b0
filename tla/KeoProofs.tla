----------------------------- MODULE KeoProofs ------------------------------
(***************************************************************************)
(* Proofs about the editor, for every size of the buffer, the window and   *)
(* the file, every alphabet and every file it is started on: the arrays    *)
(* and the cursor keep their bounds, what is saved is what is loaded, no   *)
(* edit is lost on leaving, and the keys that move text keep it.           *)
(***************************************************************************)
EXTENDS Keo, SequenceTheorems, WellFoundedInduction, TLAPS

-----------------------------------------------------------------------------
(* Induction over the natural numbers and over sequences.                  *)

\* A set that holds 0 and with each number the next one holds them all.
LEMMA InductionOnSet ==
  ASSUME NEW T, 0 \in T, \A n \in Nat : n \in T => n + 1 \in T
  PROVE  Nat \subseteq T
<1> SUFFICES ASSUME Nat \ T # {} PROVE FALSE
  OBVIOUS
<1> DEFINE R == {p \in Nat \X Nat : p[1] < p[2]}
<1>1. IsWellFoundedOn(R, Nat)
  <2>1. R = OpToRel(<, Nat)
    BY DEF OpToRel
  <2> QED BY <2>1, NatLessThanWellFounded
<1>2. PICK x \in Nat \ T : \A y \in Nat \ T : ~(<<y, x>> \in R)
  <2>1. Nat \ T \subseteq Nat
    OBVIOUS
  <2> HIDE DEF R
  <2> QED BY <1>1, <2>1, WFMin
<1>3. x \in Nat /\ x # 0 /\ x - 1 \in Nat /\ (x - 1) + 1 = x
  OBVIOUS
<1>4. x - 1 \notin T
  BY <1>2, <1>3
<1>5. ~(<<x - 1, x>> \in R)
  BY <1>2, <1>3, <1>4
<1>6. ~(x - 1 < x)
  BY <1>3, <1>5, Zenon
<1> QED BY <1>3, <1>6

\* A set that holds the empty sequence, and with each sequence those that are
\* longer by one element, holds all sequences.
LEMMA SequenceInduction ==
  ASSUME NEW S, NEW T, <<>> \in T,
         \A s \in Seq(S), e \in S : s \in T => Append(s, e) \in T
  PROVE  Seq(S) \subseteq T
<1> DEFINE U == {n \in Nat : \A s \in Seq(S) : Len(s) = n => s \in T}
<1>1. 0 \in U
  BY EmptySeq
<1>2. ASSUME NEW n \in Nat, n \in U PROVE n + 1 \in U
  <2> SUFFICES ASSUME NEW s \in Seq(S), Len(s) = n + 1 PROVE s \in T
    OBVIOUS
  <2>1. s # <<>>
    BY EmptySeq
  <2>2. PICK r \in Seq(S), e \in S : s = Append(r, e)
    BY <2>1, SequenceEmptyOrAppend
  <2>3. Len(s) = Len(r) + 1 /\ Len(r) \in Nat
    BY <2>2, AppendProperties, LenProperties
  <2>4. Len(r) = n
    BY <2>3
  <2> QED BY <1>2, <2>2, <2>4
<1>3. Nat \subseteq U
  <2> HIDE DEF U
  <2> QED BY <1>1, <1>2, InductionOnSet
<1> QED BY <1>3, LenProperties

-----------------------------------------------------------------------------
(* LinesOf, byte by byte.                                                  *)

Reads(f, text, m) ==
  f = [n \in 0 .. m |-> IF n = 0 THEN << <<>> >> ELSE PutByte(f[n - 1], text[n])]

\* The recursive function of LinesOf exists.
LEMMA ReadsExists ==
  ASSUME NEW text, NEW m \in Nat
  PROVE  \E f : Reads(f, text, m)
<1> DEFINE T == {k \in Nat : \E f : Reads(f, text, k)}
<1>1. 0 \in T
  <2>1. Reads([n \in 0 .. 0 |-> << <<>> >>], text, 0)
    BY DEF Reads
  <2> QED BY <2>1
<1>2. ASSUME NEW k \in Nat, k \in T PROVE k + 1 \in T
  <2>1. PICK f : Reads(f, text, k)
    BY <1>2
  <2>2. PICK v : v = PutByte(f[k], text[k + 1])
    OBVIOUS
  <2>3. PICK g : g = [n \in 0 .. k + 1 |-> IF n = k + 1 THEN v ELSE f[n]]
    OBVIOUS
  <2>4. f = [n \in 0 .. k |-> IF n = 0 THEN << <<>> >> ELSE PutByte(f[n - 1], text[n])]
    BY <2>1 DEF Reads
  <2>5. ASSUME NEW n \in 0 .. k + 1
        PROVE  g[n] = IF n = 0 THEN << <<>> >> ELSE PutByte(g[n - 1], text[n])
    <3>1. CASE n = k + 1
      <4>1. g[n] = v /\ g[n - 1] = f[k] /\ n # 0
        BY <2>3, <3>1
      <4> QED BY <2>2, <3>1, <4>1
    <3>2. CASE n # k + 1
      <4>1. n \in 0 .. k /\ g[n] = f[n]
        BY <2>3, <3>2
      <4>2. n # 0 => g[n - 1] = f[n - 1]
        BY <2>3, <4>1
      <4>3. f[n] = IF n = 0 THEN << <<>> >> ELSE PutByte(f[n - 1], text[n])
        BY <2>4, <4>1
      <4> QED BY <4>1, <4>2, <4>3
    <3> QED BY <3>1, <3>2
  <2>6. g = [n \in 0 .. k + 1 |-> g[n]]
    BY <2>3
  <2>7. Reads(g, text, k + 1)
    BY <2>5, <2>6 DEF Reads
  <2> QED BY <2>7
<1>3. Nat \subseteq T
  <2> HIDE DEF T
  <2> QED BY <1>1, <1>2, InductionOnSet
<1> QED BY <1>3

\* LinesOf is its last value.
LEMMA LinesOfIs ==
  ASSUME NEW text, Len(text) \in Nat
  PROVE  \E f : Reads(f, text, Len(text)) /\ LinesOf(text) = f[Len(text)]
<1> DEFINE P(f) == Reads(f, text, Len(text))
<1>1. \E f : P(f)
  BY ReadsExists
<1>2. PICK f : f = CHOOSE g : P(g)
  OBVIOUS
<1>3. P(f)
  <2> HIDE DEF P
  <2> QED BY <1>1, <1>2
<1>4. LinesOf(text) = f[Len(text)]
  BY <1>2 DEF LinesOf, Reads
<1> QED BY <1>3, <1>4

\* load handles the bytes from the first to the last.
LEMMA LinesOfAppend ==
  ASSUME NEW S, NEW text \in Seq(S), NEW x \in S
  PROVE  LinesOf(Append(text, x)) = PutByte(LinesOf(text), x)
<1>1. PICK n \in Nat : n = Len(text)
  OBVIOUS
<1>2. PICK more : more = Append(text, x)
  OBVIOUS
<1>3. Len(more) = n + 1 /\ more[n + 1] = x /\ \A k \in 1 .. n : more[k] = text[k]
  BY <1>1, <1>2
<1>4. PICK f : Reads(f, text, n) /\ LinesOf(text) = f[n]
  BY <1>1, LinesOfIs
<1>5. n + 1 \in Nat
  OBVIOUS
<1>6. PICK g : Reads(g, more, n + 1) /\ LinesOf(more) = g[n + 1]
  BY <1>3, <1>5, LinesOfIs
<1>7. g[n] = f[n]
  <2> DEFINE T == {i \in Nat : i <= n => g[i] = f[i]}
  <2>1. f = [k \in 0 .. n |-> IF k = 0 THEN << <<>> >> ELSE PutByte(f[k - 1], text[k])]
    BY <1>4 DEF Reads
  <2>2. g = [k \in 0 .. n + 1 |-> IF k = 0 THEN << <<>> >> ELSE PutByte(g[k - 1], more[k])]
    BY <1>6 DEF Reads
  <2>3. 0 \in T
    BY <1>1, <2>1, <2>2
  <2>4. ASSUME NEW i \in Nat, i \in T PROVE i + 1 \in T
    <3> SUFFICES ASSUME i + 1 <= n PROVE g[i + 1] = f[i + 1]
      OBVIOUS
    <3>1. g[i] = f[i] /\ more[i + 1] = text[i + 1]
      BY <1>1, <1>3, <2>4
    <3>2. f[i + 1] = PutByte(f[i], text[i + 1])
      BY <1>1, <2>1
    <3>3. g[i + 1] = PutByte(g[i], more[i + 1])
      BY <1>1, <2>2
    <3> QED BY <3>1, <3>2, <3>3
  <2>5. Nat \subseteq T
    <3> HIDE DEF T
    <3> QED BY <2>3, <2>4, InductionOnSet
  <2> QED BY <1>1, <2>5
<1>8. g[n + 1] = PutByte(g[n], more[n + 1])
  <2>1. g = [k \in 0 .. n + 1 |-> IF k = 0 THEN << <<>> >> ELSE PutByte(g[k - 1], more[k])]
    BY <1>6 DEF Reads
  <2>2. n + 1 \in 0 .. n + 1 /\ n + 1 # 0 /\ (n + 1) - 1 = n
    OBVIOUS
  <2> QED BY <2>1, <2>2
<1> QED BY <1>2, <1>3, <1>4, <1>6, <1>7, <1>8

LEMMA LinesOfEmpty == LinesOf(<<>>) = << <<>> >>
<1>1. PICK f : Reads(f, <<>>, 0) /\ LinesOf(<<>>) = f[0]
  BY LinesOfIs
<1> QED BY <1>1 DEF Reads

-----------------------------------------------------------------------------
(* FlattenSeq, line by line.                                               *)

Chains(f, ss, m) == f = [i \in 1 .. m |-> IF i = 1 THEN ss[i] ELSE f[i - 1] \o ss[i]]

\* The recursive function of FlattenSeq exists.
LEMMA ChainsExists ==
  ASSUME NEW ss, NEW m \in Nat
  PROVE  \E f : Chains(f, ss, m)
<1> DEFINE T == {k \in Nat : \E f : Chains(f, ss, k)}
<1>1. 0 \in T
  <2>1. Chains([i \in 1 .. 0 |-> <<>>], ss, 0)
    BY DEF Chains
  <2> QED BY <2>1
<1>2. ASSUME NEW k \in Nat, k \in T PROVE k + 1 \in T
  <2>1. PICK f : Chains(f, ss, k)
    BY <1>2
  <2>2. PICK v : v = IF k = 0 THEN ss[1] ELSE f[k] \o ss[k + 1]
    OBVIOUS
  <2>3. PICK g : g = [i \in 1 .. k + 1 |-> IF i = k + 1 THEN v ELSE f[i]]
    OBVIOUS
  <2>4. f = [i \in 1 .. k |-> IF i = 1 THEN ss[i] ELSE f[i - 1] \o ss[i]]
    BY <2>1 DEF Chains
  <2>5. ASSUME NEW i \in 1 .. k + 1
        PROVE  g[i] = IF i = 1 THEN ss[i] ELSE g[i - 1] \o ss[i]
    <3>1. CASE i = k + 1 /\ k = 0
      <4>1. g[i] = v /\ i = 1
        BY <2>3, <3>1
      <4> QED BY <2>2, <3>1, <4>1
    <3>2. CASE i = k + 1 /\ k # 0
      <4>1. g[i] = v /\ g[i - 1] = f[k] /\ i # 1
        BY <2>3, <3>2
      <4> QED BY <2>2, <3>2, <4>1
    <3>3. CASE i # k + 1
      <4>1. i \in 1 .. k /\ g[i] = f[i]
        BY <2>3, <3>3
      <4>2. i # 1 => g[i - 1] = f[i - 1]
        BY <2>3, <4>1
      <4>3. f[i] = IF i = 1 THEN ss[i] ELSE f[i - 1] \o ss[i]
        BY <2>4, <4>1
      <4> QED BY <4>1, <4>2, <4>3
    <3> QED BY <3>1, <3>2, <3>3
  <2>6. g = [i \in 1 .. k + 1 |-> g[i]]
    BY <2>3
  <2>7. Chains(g, ss, k + 1)
    BY <2>5, <2>6 DEF Chains
  <2> QED BY <2>7
<1>3. Nat \subseteq T
  <2> HIDE DEF T
  <2> QED BY <1>1, <1>2, InductionOnSet
<1> QED BY <1>3

\* FlattenSeq is its last value.
LEMMA FlattenIs ==
  ASSUME NEW ss, Len(ss) \in Nat \ {0}
  PROVE  \E f : Chains(f, ss, Len(ss)) /\ FlattenSeq(ss) = f[Len(ss)]
<1> DEFINE P(f) == Chains(f, ss, Len(ss))
<1>1. \E f : P(f)
  BY ChainsExists
<1>2. PICK f : f = CHOOSE g : P(g)
  OBVIOUS
<1>3. P(f)
  <2> HIDE DEF P
  <2> QED BY <1>1, <1>2
<1>4. FlattenSeq(ss) = f[Len(ss)]
  BY <1>2 DEF FlattenSeq, Chains
<1> QED BY <1>3, <1>4

LEMMA FlattenEmpty == FlattenSeq(<<>>) = <<>>
BY DEF FlattenSeq

LEMMA FlattenAppend ==
  ASSUME NEW S, NEW ss \in Seq(Seq(S)), NEW s \in Seq(S)
  PROVE  FlattenSeq(Append(ss, s)) = FlattenSeq(ss) \o s
<1>1. PICK n \in Nat : n = Len(ss)
  OBVIOUS
<1>2. PICK more : more = Append(ss, s)
  OBVIOUS
<1>3. Len(more) = n + 1 /\ more[n + 1] = s /\ \A k \in 1 .. n : more[k] = ss[k]
  BY <1>1, <1>2
<1>4. n + 1 \in Nat \ {0}
  OBVIOUS
<1>5. PICK g : Chains(g, more, n + 1) /\ FlattenSeq(more) = g[n + 1]
  BY <1>3, <1>4, FlattenIs
<1>6. g = [k \in 1 .. n + 1 |-> IF k = 1 THEN more[k] ELSE g[k - 1] \o more[k]]
  BY <1>5 DEF Chains
<1>7. CASE n = 0
  <2>1. ss = <<>>
    BY <1>1, <1>7, EmptySeq
  <2>2. g[1] = s
    BY <1>3, <1>6, <1>7
  <2>3. <<>> \o s = s
    BY ConcatEmptySeq
  <2> QED BY <1>2, <1>5, <1>7, <2>1, <2>2, <2>3, FlattenEmpty
<1>8. CASE n # 0
  <2>1. PICK f : Chains(f, ss, n) /\ FlattenSeq(ss) = f[n]
    BY <1>1, <1>8, FlattenIs
  <2>2. f = [k \in 1 .. n |-> IF k = 1 THEN ss[k] ELSE f[k - 1] \o ss[k]]
    BY <2>1 DEF Chains
  <2> DEFINE T == {i \in Nat : i + 1 <= n => g[i + 1] = f[i + 1]}
  <2>3. 0 \in T
    <3>1. g[1] = more[1] /\ f[1] = ss[1] /\ more[1] = ss[1]
      BY <1>1, <1>3, <1>6, <1>8, <2>2
    <3> QED BY <3>1
  <2>4. ASSUME NEW i \in Nat, i \in T PROVE i + 1 \in T
    <3> SUFFICES ASSUME i + 2 <= n PROVE g[i + 2] = f[i + 2]
      OBVIOUS
    <3>1. g[i + 1] = f[i + 1] /\ more[i + 2] = ss[i + 2]
      BY <1>1, <1>3, <2>4
    <3>2. f[i + 2] = f[i + 1] \o ss[i + 2]
      <4>1. i + 2 \in 1 .. n /\ i + 2 # 1 /\ (i + 2) - 1 = i + 1
        BY <1>1
      <4> QED BY <2>2, <4>1
    <3>3. g[i + 2] = g[i + 1] \o more[i + 2]
      <4>1. i + 2 \in 1 .. n + 1 /\ i + 2 # 1 /\ (i + 2) - 1 = i + 1
        BY <1>1
      <4> QED BY <1>6, <4>1
    <3> QED BY <3>1, <3>2, <3>3
  <2>5. Nat \subseteq T
    <3> HIDE DEF T
    <3> QED BY <2>3, <2>4, InductionOnSet
  <2>6. g[n] = f[n]
    <3>1. n - 1 \in Nat /\ (n - 1) + 1 = n
      BY <1>1, <1>8
    <3>2. n - 1 \in T
      BY <2>5, <3>1
    <3> QED BY <3>1, <3>2
  <2>7. g[n + 1] = g[n] \o more[n + 1]
    <3>1. n + 1 \in 1 .. n + 1 /\ n + 1 # 1 /\ (n + 1) - 1 = n
      BY <1>1, <1>8
    <3> QED BY <1>6, <3>1
  <2> QED BY <1>2, <1>3, <1>5, <2>1, <2>6, <2>7
<1> QED BY <1>7, <1>8

LEMMA FlattenType ==
  ASSUME NEW S
  PROVE  \A ss \in Seq(Seq(S)) : FlattenSeq(ss) \in Seq(S)
<1> DEFINE T == {ss \in Seq(Seq(S)) : FlattenSeq(ss) \in Seq(S)}
<1>1. <<>> \in T
  BY FlattenEmpty, EmptySeq
<1>2. ASSUME NEW ss \in Seq(Seq(S)), NEW s \in Seq(S), ss \in T PROVE Append(ss, s) \in T
  <2>1. FlattenSeq(Append(ss, s)) = FlattenSeq(ss) \o s
    BY FlattenAppend
  <2>2. FlattenSeq(ss) \o s \in Seq(S)
    BY <1>2, ConcatProperties
  <2>3. Append(ss, s) \in Seq(Seq(S))
    BY AppendProperties
  <2> QED BY <2>1, <2>2, <2>3
<1>3. Seq(Seq(S)) \subseteq T
  <2> HIDE DEF T
  <2> QED BY <1>1, <1>2, SequenceInduction
<1> QED BY <1>3

\* The text of two pieces of a buffer is that of the one before that of the other.
LEMMA FlattenConcat ==
  ASSUME NEW S, NEW a \in Seq(Seq(S))
  PROVE  \A b \in Seq(Seq(S)) : FlattenSeq(a \o b) = FlattenSeq(a) \o FlattenSeq(b)
<1> DEFINE T == {b \in Seq(Seq(S)) : FlattenSeq(a \o b) = FlattenSeq(a) \o FlattenSeq(b)}
<1>0. FlattenSeq(a) \in Seq(S)
  BY FlattenType
<1>1. <<>> \in T
  <2>1. a \o <<>> = a
    BY ConcatEmptySeq
  <2>2. FlattenSeq(a) \o <<>> = FlattenSeq(a)
    BY <1>0, ConcatEmptySeq
  <2>3. <<>> \in Seq(Seq(S))
    BY EmptySeq
  <2> QED BY <2>1, <2>2, <2>3, FlattenEmpty
<1>2. ASSUME NEW b \in Seq(Seq(S)), NEW s \in Seq(S), b \in T PROVE Append(b, s) \in T
  <2>1. Append(b, s) = b \o <<s>> /\ <<s>> \in Seq(Seq(S)) /\ Append(b, s) \in Seq(Seq(S))
    BY AppendIsConcat, AppendProperties
  <2>2. a \o b \in Seq(Seq(S))
    BY ConcatProperties
  <2>3. a \o Append(b, s) = (a \o b) \o <<s>>
    BY <2>1, ConcatAssociative
  <2>4. (a \o b) \o <<s>> = Append(a \o b, s)
    BY <2>2, AppendIsConcat
  <2>5. FlattenSeq(Append(a \o b, s)) = FlattenSeq(a \o b) \o s
    BY <2>2, FlattenAppend
  <2>6. FlattenSeq(a \o b) = FlattenSeq(a) \o FlattenSeq(b)
    BY <1>2
  <2>7. FlattenSeq(b) \in Seq(S)
    BY FlattenType
  <2>8. (FlattenSeq(a) \o FlattenSeq(b)) \o s = FlattenSeq(a) \o (FlattenSeq(b) \o s)
    BY <1>0, <2>7, ConcatAssociative
  <2>9. FlattenSeq(Append(b, s)) = FlattenSeq(b) \o s
    BY FlattenAppend
  <2> QED BY <2>1, <2>3, <2>4, <2>5, <2>6, <2>8, <2>9
<1>3. Seq(Seq(S)) \subseteq T
  <2> HIDE DEF T
  <2> QED BY <1>1, <1>2, SequenceInduction
<1> QED BY <1>3

LEMMA FlattenOne ==
  ASSUME NEW S, NEW s \in Seq(S)
  PROVE  FlattenSeq(<<s>>) = s
<1>1. <<>> \in Seq(Seq(S))
  BY EmptySeq
<1>2. FlattenSeq(Append(<<>>, s)) = FlattenSeq(<<>>) \o s
  BY <1>1, FlattenAppend
<1>3. Append(<<>>, s) = <<s>>
  OBVIOUS
<1>4. <<>> \o s = s
  BY ConcatEmptySeq
<1> QED BY <1>2, <1>3, <1>4, FlattenEmpty

LEMMA FlattenTwo ==
  ASSUME NEW S, NEW r \in Seq(S), NEW s \in Seq(S)
  PROVE  FlattenSeq(<<r, s>>) = r \o s
<1>1. <<r>> \in Seq(Seq(S)) /\ Append(<<r>>, s) = <<r, s>>
  <2>1. <<r>> \in Seq(Seq(S)) /\ <<r, s>> \in Seq(Seq(S))
    OBVIOUS
  <2>2. /\ Append(<<r>>, s) \in Seq(Seq(S)) /\ Len(Append(<<r>>, s)) = 2
        /\ Append(<<r>>, s)[1] = r /\ Append(<<r>>, s)[2] = s
    BY <2>1, AppendProperties
  <2>3. Len(<<r, s>>) = 2 /\ <<r, s>>[1] = r /\ <<r, s>>[2] = s
    OBVIOUS
  <2>4. PICK a \in Seq(Seq(S)), b \in Seq(Seq(S)) : a = Append(<<r>>, s) /\ b = <<r, s>>
    BY <2>1, <2>2
  <2>5. Len(a) = Len(b) /\ \A i \in 1 .. Len(a) : a[i] = b[i]
    BY <2>2, <2>3, <2>4
  <2>6. a = b
    BY <2>5, SeqEqual
  <2> QED BY <2>1, <2>4, <2>6
<1>2. FlattenSeq(Append(<<r>>, s)) = FlattenSeq(<<r>>) \o s
  BY <1>1, FlattenAppend
<1> QED BY <1>1, <1>2, FlattenOne

\* Lines in the middle may be replaced by others of the same text.
LEMMA FlattenMiddle ==
  ASSUME NEW S, NEW a \in Seq(Seq(S)), NEW m \in Seq(Seq(S)), NEW n \in Seq(Seq(S)),
         NEW b \in Seq(Seq(S)), FlattenSeq(m) = FlattenSeq(n)
  PROVE  FlattenSeq((a \o m) \o b) = FlattenSeq((a \o n) \o b)
<1>1. a \o m \in Seq(Seq(S)) /\ a \o n \in Seq(Seq(S))
  BY ConcatProperties
<1>2. FlattenSeq(a \o m) = FlattenSeq(a) \o FlattenSeq(m) /\ FlattenSeq(a \o n) = FlattenSeq(a) \o FlattenSeq(n)
  BY FlattenConcat
<1>3. /\ FlattenSeq((a \o m) \o b) = FlattenSeq(a \o m) \o FlattenSeq(b)
      /\ FlattenSeq((a \o n) \o b) = FlattenSeq(a \o n) \o FlattenSeq(b)
  BY <1>1, FlattenConcat
<1> QED BY <1>2, <1>3
-----------------------------------------------------------------------------
(* The buffer: what load makes and what the keys do to it.                 *)

IsLine(s) == s \in Seq(Chars) /\ Len(s) <= MaxC - 1

\* What the arrays of keo.c can hold.
Buffer(ls) ==
  /\ ls \in Seq(Seq(Chars)) /\ Len(ls) \in 1 .. MaxL
  /\ \A i \in 1 .. Len(ls) : IsLine(ls[i])

LEMMA Sizes == MaxL \in Nat /\ MaxL >= 1 /\ MaxC \in Nat /\ MaxC >= 2 /\ TxtRows \in Nat /\ TxtRows >= 1
BY KeoAssumption

LEMMA EmptyLine == IsLine(<<>>) /\ Buffer(<< <<>> >>)
<1>1. <<>> \in Seq(Chars) /\ Len(<<>>) = 0
  BY EmptySeq
<1>2. IsLine(<<>>)
  BY <1>1, Sizes DEF IsLine
<1>3. << <<>> >> \in Seq(Seq(Chars)) /\ Len(<< <<>> >>) = 1 /\ << <<>> >>[1] = <<>>
  BY <1>1
<1> QED BY <1>2, <1>3, Sizes DEF Buffer

\* A line is replaced.
LEMMA BufferExcept ==
  ASSUME NEW ls, Buffer(ls), NEW k \in 1 .. Len(ls), NEW s, IsLine(s)
  PROVE  Buffer([ls EXCEPT ![k] = s])
<1>1. ls \in Seq(Seq(Chars)) /\ s \in Seq(Chars)
  BY DEF Buffer, IsLine
<1>2. PICK ms : ms = [ls EXCEPT ![k] = s]
  OBVIOUS
<1>3. /\ ms \in Seq(Seq(Chars)) /\ Len(ms) = Len(ls)
      /\ \A j \in 1 .. Len(ls) : ms[j] = IF j = k THEN s ELSE ls[j]
  BY <1>1, <1>2, ExceptSeq
<1>4. \A j \in 1 .. Len(ls) : IsLine(ms[j])
  <2> SUFFICES ASSUME NEW j \in 1 .. Len(ls) PROVE IsLine(ms[j])
    OBVIOUS
  <2>1. CASE j = k
    BY <1>3, <2>1
  <2>2. CASE j # k
    <3>1. ms[j] = ls[j]
      BY <1>3, <2>2
    <3> QED BY <3>1 DEF Buffer
  <2> QED BY <2>1, <2>2
<1>5. Len(ms) \in 1 .. MaxL
  BY <1>3 DEF Buffer
<1> QED BY <1>2, <1>3, <1>4, <1>5 DEF Buffer

\* load stays inside the arrays.
LEMMA PutByteFits ==
  ASSUME NEW ls, Buffer(ls), NEW c \in Chars \cup {NL}
  PROVE  Buffer(PutByte(ls, c))
<1>1. PICK n \in Nat : n = Len(ls) /\ n >= 1 /\ n <= MaxL
  BY Sizes DEF Buffer
<1>2. ls \in Seq(Seq(Chars)) /\ IsLine(ls[n])
  BY <1>1 DEF Buffer
<1>3. CASE c = NL /\ n < MaxL
  <2>1. PutByte(ls, c) = Append(ls, <<>>)
    BY <1>1, <1>3 DEF PutByte
  <2>2. PICK ms : ms = Append(ls, <<>>)
    OBVIOUS
  <2>3. /\ ms \in Seq(Seq(Chars)) /\ Len(ms) = n + 1 /\ ms[n + 1] = <<>>
        /\ \A i \in 1 .. n : ms[i] = ls[i]
    BY <1>1, <1>2, <2>2, EmptySeq, AppendProperties
  <2>4. \A i \in 1 .. n + 1 : IsLine(ms[i])
    <3> SUFFICES ASSUME NEW i \in 1 .. n + 1 PROVE IsLine(ms[i])
      OBVIOUS
    <3>1. CASE i = n + 1
      BY <2>3, <3>1, EmptyLine
    <3>2. CASE i # n + 1
      <4>1. i \in 1 .. n /\ ms[i] = ls[i]
        BY <1>1, <2>3, <3>2
      <4> QED BY <1>1, <4>1 DEF Buffer
    <3> QED BY <3>1, <3>2
  <2>5. Len(ms) \in 1 .. MaxL
    BY <1>1, <1>3, <2>3, Sizes
  <2> QED BY <2>1, <2>2, <2>3, <2>4, <2>5 DEF Buffer
<1>4. CASE c # NL /\ Len(Last(ls)) < MaxC - 1
  <2>1. PutByte(ls, c) = [ls EXCEPT ![n] = Append(ls[n], c)]
    BY <1>1, <1>4 DEF PutByte
  <2>2. c \in Chars
    BY <1>4
  <2>3. Append(ls[n], c) \in Seq(Chars) /\ Len(Append(ls[n], c)) = Len(ls[n]) + 1 /\ Len(ls[n]) \in Nat
    BY <1>2, <2>2, AppendProperties, LenProperties DEF IsLine
  <2>4. Len(ls[n]) < MaxC - 1
    BY <1>1, <1>4 DEF Last
  <2>5. IsLine(Append(ls[n], c))
    BY <2>3, <2>4, Sizes DEF IsLine
  <2>6. n \in 1 .. Len(ls)
    BY <1>1
  <2>7. PICK s : s = Append(ls[n], c)
    OBVIOUS
  <2>8. Buffer([ls EXCEPT ![n] = s])
    BY <2>5, <2>6, <2>7, BufferExcept
  <2> QED BY <2>1, <2>7, <2>8
<1>5. CASE ~(c = NL /\ n < MaxL) /\ ~(c # NL /\ Len(Last(ls)) < MaxC - 1)
  <2>1. PutByte(ls, c) = ls
    BY <1>1, <1>5 DEF PutByte
  <2> QED BY <2>1, Zenon
<1> QED BY <1>3, <1>4, <1>5

LEMMA LinesOfFits == \A f \in Seq(Chars \cup {NL}) : Buffer(LinesOf(f))
<1> DEFINE T == {f \in Seq(Chars \cup {NL}) : Buffer(LinesOf(f))}
<1>1. <<>> \in T
  BY EmptySeq, LinesOfEmpty, EmptyLine
<1>2. ASSUME NEW f \in Seq(Chars \cup {NL}), NEW c \in Chars \cup {NL}, f \in T PROVE Append(f, c) \in T
  <2>1. LinesOf(Append(f, c)) = PutByte(LinesOf(f), c)
    BY LinesOfAppend
  <2>2. Buffer(PutByte(LinesOf(f), c))
    BY <1>2, PutByteFits
  <2>3. Append(f, c) \in Seq(Chars \cup {NL})
    BY AppendProperties
  <2> QED BY <2>1, <2>2, <2>3
<1>3. Seq(Chars \cup {NL}) \subseteq T
  <2> HIDE DEF T
  <2> QED BY <1>1, <1>2, SequenceInduction
<1> QED BY <1>3

\* A buffer without its last line.
LEMMA FrontFits ==
  ASSUME NEW ls, Buffer(ls), Len(ls) > 1
  PROVE  Buffer(Front(ls))
<1>1. PICK n \in Nat : n = Len(ls) /\ n > 1 /\ n <= MaxL
  BY Sizes DEF Buffer
<1>2. ls \in Seq(Seq(Chars)) /\ n - 1 \in Int /\ 1 \in Int /\ \A i \in 1 .. n - 1 : ls[i] \in Seq(Chars)
  BY <1>1, ElementOfSeq DEF Buffer
<1>3. PICK ms : ms = SubSeq(ls, 1, n - 1)
  OBVIOUS
<1>4. ms \in Seq(Seq(Chars)) /\ Len(ms) = n - 1 /\ \A i \in 1 .. n - 1 : ms[i] = ls[i]
  BY <1>1, <1>2, <1>3, SubSeqProperties
<1>5. \A i \in 1 .. n - 1 : IsLine(ms[i])
  BY <1>1, <1>4 DEF Buffer
<1>6. Len(ms) \in 1 .. MaxL
  BY <1>1, <1>4, Sizes
<1> QED BY <1>1, <1>3, <1>4, <1>5, <1>6 DEF Buffer, Front

LEMMA LoadFits == \A f \in Files : Buffer(Load(f))
<1> SUFFICES ASSUME NEW f \in Files PROVE Buffer(Load(f))
  OBVIOUS
<1>1. Buffer(LinesOf(f))
  BY KeoAssumption, LinesOfFits
<1>2. CASE Trailing(f, LinesOf(f))
  <2>1. Len(LinesOf(f)) > 1
    BY <1>2 DEF Trailing
  <2> QED BY <1>1, <1>2, <2>1, FrontFits DEF Load
<1>3. CASE ~Trailing(f, LinesOf(f))
  BY <1>1, <1>3 DEF Load
<1> QED BY <1>2, <1>3

-----------------------------------------------------------------------------
(* Saving and loading.                                                     *)

Byte == Chars \cup {NL}

\* A line that is read at the beginning of a line of the buffer is that line.
LEMMA LineRead ==
  ASSUME NEW g \in Seq(Byte), NEW ls, ls = LinesOf(g), Buffer(ls), ls[Len(ls)] = <<>>
  PROVE  \A s \in Seq(Chars) : Len(s) <= MaxC - 1 => LinesOf(g \o s) = [ls EXCEPT ![Len(ls)] = s]
<1>1. PICK n \in Nat : n = Len(ls) /\ n >= 1
  BY Sizes DEF Buffer
<1> DEFINE T == {s \in Seq(Chars) : Len(s) <= MaxC - 1 => LinesOf(g \o s) = [ls EXCEPT ![n] = s]}
<1>2. ls \in Seq(Seq(Chars)) /\ n \in 1 .. Len(ls)
  BY <1>1 DEF Buffer
<1>3. <<>> \in T
  <2>1. g \o <<>> = g
    BY ConcatEmptySeq
  <2>2. [ls EXCEPT ![n] = <<>>] = ls
    BY <1>1, <1>2
  <2>3. <<>> \in Seq(Chars)
    BY EmptySeq
  <2> QED BY <2>1, <2>2, <2>3
<1>4. ASSUME NEW s \in Seq(Chars), NEW c \in Chars, s \in T PROVE Append(s, c) \in T
  <2>1. /\ Append(s, c) \in Seq(Chars) /\ Len(Append(s, c)) = Len(s) + 1 /\ Len(s) \in Nat
    BY AppendProperties, LenProperties
  <2> SUFFICES ASSUME Len(s) + 1 <= MaxC - 1
               PROVE  LinesOf(g \o Append(s, c)) = [ls EXCEPT ![n] = Append(s, c)]
    BY <2>1
  <2>2. PICK ms : ms = [ls EXCEPT ![n] = s]
    OBVIOUS
  <2>3. LinesOf(g \o s) = ms
    BY <1>4, <2>1, <2>2, Sizes
  <2>4. /\ ms \in Seq(Seq(Chars)) /\ Len(ms) = n
        /\ \A j \in 1 .. n : ms[j] = IF j = n THEN s ELSE ls[j]
    BY <1>1, <1>2, <2>2, ExceptSeq
  <2>5. s \in Seq(Byte) /\ c \in Byte /\ c # NL
    BY KeoAssumption, SeqMonotonic DEF Byte
  <2>6. g \o s \in Seq(Byte)
    BY <2>5, ConcatProperties
  <2>7. g \o Append(s, c) = Append(g \o s, c)
    <3>1. Append(s, c) = s \o <<c>> /\ <<c>> \in Seq(Byte)
      BY <2>5, AppendIsConcat
    <3>2. g \o (s \o <<c>>) = (g \o s) \o <<c>>
      BY <2>5, <3>1, ConcatAssociative
    <3>3. Append(g \o s, c) = (g \o s) \o <<c>>
      BY <2>5, <2>6, AppendIsConcat
    <3> QED BY <3>1, <3>2, <3>3
  <2>8. LinesOf(Append(g \o s, c)) = PutByte(LinesOf(g \o s), c)
    BY <2>5, <2>6, LinesOfAppend
  <2>9. Last(ms) = s /\ Len(s) < MaxC - 1
    BY <1>1, <2>1, <2>4, Sizes DEF Last
  <2>10. PutByte(ms, c) = [ms EXCEPT ![n] = Append(ms[n], c)]
    BY <2>4, <2>5, <2>9 DEF PutByte
  <2>11. ms[n] = s
    BY <1>1, <2>4
  <2>12. [ms EXCEPT ![n] = Append(s, c)] = [ls EXCEPT ![n] = Append(s, c)]
    BY <2>2
  <2> QED BY <2>3, <2>7, <2>8, <2>10, <2>11, <2>12
<1>5. Seq(Chars) \subseteq T
  <2> HIDE DEF T
  <2> QED BY <1>3, <1>4, SequenceInduction
<1> QED BY <1>1, <1>5

Ended(ls) == [i \in DOMAIN ls |-> Append(ls[i], NL)]

LEMMA EndedType ==
  ASSUME NEW ls \in Seq(Seq(Chars))
  PROVE  Ended(ls) \in Seq(Seq(Byte)) /\ Len(Ended(ls)) = Len(ls)
<1>1. PICK n \in Nat : n = Len(ls) /\ DOMAIN ls = 1 .. n
  BY LenProperties
<1>2. \A i \in 1 .. n : Append(ls[i], NL) \in Seq(Byte)
  <2> SUFFICES ASSUME NEW i \in 1 .. n PROVE Append(ls[i], NL) \in Seq(Byte)
    OBVIOUS
  <2>1. ls[i] \in Seq(Chars)
    BY <1>1, ElementOfSeq
  <2>2. ls[i] \in Seq(Byte) /\ NL \in Byte
    BY <2>1, SeqMonotonic DEF Byte
  <2> QED BY <2>2, AppendProperties
<1>3. Ended(ls) = [i \in 1 .. n |-> Append(ls[i], NL)]
  BY <1>1 DEF Ended
<1> QED BY <1>1, <1>2, <1>3

\* save writes line after line.
LEMMA BytesAppend ==
  ASSUME NEW ls \in Seq(Seq(Chars)), NEW s \in Seq(Chars)
  PROVE  /\ Bytes(Append(ls, s)) = Bytes(ls) \o Append(s, NL)
         /\ Bytes(ls) \in Seq(Byte) /\ Append(s, NL) \in Seq(Byte)
<1>1. PICK n \in Nat : n = Len(ls)
  BY LenProperties
<1>2. PICK ms : ms = Append(ls, s)
  OBVIOUS
<1>3. /\ ms \in Seq(Seq(Chars)) /\ Len(ms) = n + 1 /\ ms[n + 1] = s
      /\ \A i \in 1 .. n : ms[i] = ls[i]
  BY <1>1, <1>2, AppendProperties
<1>4. s \in Seq(Byte) /\ NL \in Byte
  BY SeqMonotonic DEF Byte
<1>5. Append(s, NL) \in Seq(Byte)
  BY <1>4, AppendProperties
<1>6. PICK e \in Seq(Seq(Byte)), t \in Seq(Byte) : e = Ended(ls) /\ t = Append(s, NL)
  BY <1>5, EndedType
<1>7. /\ Append(e, t) \in Seq(Seq(Byte)) /\ Len(Append(e, t)) = Len(e) + 1
      /\ \A i \in 1 .. Len(e) : Append(e, t)[i] = e[i]
      /\ Append(e, t)[Len(e) + 1] = t
  BY AppendProperties
<1>8. Len(e) = n
  BY <1>1, <1>6, EndedType
<1>9. Ended(ms) \in Seq(Seq(Byte)) /\ Len(Ended(ms)) = n + 1
  BY <1>3, EndedType
<1>10. \A i \in 1 .. n + 1 : Ended(ms)[i] = Append(e, t)[i]
  <2> SUFFICES ASSUME NEW i \in 1 .. n + 1 PROVE Ended(ms)[i] = Append(e, t)[i]
    OBVIOUS
  <2>1. Ended(ms)[i] = Append(ms[i], NL)
    BY <1>3, LenProperties DEF Ended
  <2>2. CASE i = n + 1
    BY <1>3, <1>6, <1>7, <1>8, <2>1, <2>2
  <2>3. CASE i # n + 1
    <3>1. i \in 1 .. n
      BY <2>3
    <3>2. Ended(ls)[i] = Append(ls[i], NL)
      BY <1>1, <3>1, LenProperties DEF Ended
    <3> QED BY <1>3, <1>6, <1>7, <1>8, <2>1, <3>1, <3>2
  <2> QED BY <2>2, <2>3
<1>11. Ended(ms) = Append(e, t)
  BY <1>7, <1>8, <1>9, <1>10, SeqEqual
<1>12. FlattenSeq(Append(e, t)) = FlattenSeq(e) \o t
  BY FlattenAppend
<1>13. FlattenSeq(e) \in Seq(Byte)
  BY FlattenType
<1>14. Bytes(ls) = FlattenSeq(e) /\ Bytes(ms) = FlattenSeq(Ended(ms))
  BY <1>6 DEF Bytes, Ended
<1> QED BY <1>2, <1>5, <1>6, <1>11, <1>12, <1>13, <1>14

LEMMA BytesEmpty == Bytes(<<>>) = <<>>
<1>1. Ended(<<>>) = <<>>
  BY DEF Ended
<1> QED BY <1>1, FlattenEmpty DEF Bytes, Ended

\* The lines of the buffer, and the one that the last newline begins.
LEMMA SavedIsLoaded ==
  \A ls \in Seq(Seq(Chars)) :
    Len(ls) < MaxL /\ (\A i \in 1 .. Len(ls) : IsLine(ls[i])) => LinesOf(Bytes(ls)) = Append(ls, <<>>)
<1> DEFINE Good(ls) == Len(ls) < MaxL /\ \A i \in 1 .. Len(ls) : IsLine(ls[i])
           T == {ls \in Seq(Seq(Chars)) : Good(ls) => LinesOf(Bytes(ls)) = Append(ls, <<>>)}
<1>1. <<>> \in T
  <2>1. Append(<<>>, <<>>) = << <<>> >>
    OBVIOUS
  <2>2. <<>> \in Seq(Seq(Chars))
    BY EmptySeq
  <2> QED BY <2>1, <2>2, BytesEmpty, LinesOfEmpty
<1>2. ASSUME NEW ls \in Seq(Seq(Chars)), NEW s \in Seq(Chars), ls \in T PROVE Append(ls, s) \in T
  <2>1. PICK n \in Nat : n = Len(ls)
    BY LenProperties
  <2>2. PICK ms : ms = Append(ls, s)
    OBVIOUS
  <2>3. /\ ms \in Seq(Seq(Chars)) /\ Len(ms) = n + 1 /\ ms[n + 1] = s
        /\ \A i \in 1 .. n : ms[i] = ls[i]
    BY <2>1, <2>2, AppendProperties
  <2> SUFFICES ASSUME Good(ms) PROVE LinesOf(Bytes(ms)) = Append(ms, <<>>)
    BY <2>2, <2>3
  <2>4. n + 1 < MaxL /\ n < MaxL /\ \A i \in 1 .. n + 1 : IsLine(ms[i])
    BY <2>3, Sizes
  <2>5. Good(ls) /\ IsLine(s)
    <3>1. IsLine(s)
      BY <2>3, <2>4
    <3>2. ASSUME NEW i \in 1 .. n PROVE IsLine(ls[i])
      <4>1. i \in 1 .. n + 1 /\ ms[i] = ls[i]
        BY <2>3
      <4> QED BY <2>4, <4>1
    <3> QED BY <2>1, <2>4, <3>1, <3>2
  <2>6. PICK rs : rs = Append(ls, <<>>)
    OBVIOUS
  <2>7. LinesOf(Bytes(ls)) = rs
    BY <1>2, <2>5, <2>6
  <2>8. <<>> \in Seq(Chars)
    BY EmptySeq
  <2>9. /\ rs \in Seq(Seq(Chars)) /\ Len(rs) = n + 1 /\ rs[n + 1] = <<>>
        /\ \A i \in 1 .. n : rs[i] = ls[i]
    BY <2>1, <2>6, <2>8, AppendProperties
  <2>10. PICK g \in Seq(Byte) : g = Bytes(ls)
    BY BytesAppend
  <2>11. Buffer(rs)
    BY <2>7, <2>10, LinesOfFits DEF Byte
  <2>12. s \in Seq(Byte) /\ NL \in Byte /\ g \o s \in Seq(Byte)
    <3>1. s \in Seq(Byte) /\ NL \in Byte
      BY SeqMonotonic DEF Byte
    <3> QED BY <3>1, ConcatProperties
  <2>13. LinesOf(g \o s) = [rs EXCEPT ![n + 1] = s]
    <3>1. rs = LinesOf(g) /\ rs[Len(rs)] = <<>> /\ Len(s) <= MaxC - 1
      BY <2>5, <2>7, <2>9, <2>10 DEF IsLine
    <3>2. LinesOf(g \o s) = [rs EXCEPT ![Len(rs)] = s]
      BY <2>11, <3>1, LineRead
    <3> QED BY <2>9, <3>2
  <2>14. [rs EXCEPT ![n + 1] = s] = ms
    <3>1. PICK qs : qs = [rs EXCEPT ![n + 1] = s]
      OBVIOUS
    <3>2. /\ qs \in Seq(Seq(Chars)) /\ Len(qs) = n + 1
          /\ \A j \in 1 .. n + 1 : qs[j] = IF j = n + 1 THEN s ELSE rs[j]
      BY <2>9, <3>1, ExceptSeq
    <3>3. ASSUME NEW j \in 1 .. n + 1 PROVE qs[j] = ms[j]
      <4>1. CASE j = n + 1
        BY <2>3, <3>2, <4>1
      <4>2. CASE j # n + 1
        <5>1. j \in 1 .. n
          BY <4>2
        <5>2. ms[j] = ls[j] /\ rs[j] = ls[j]
          BY <2>3, <2>9, <5>1
        <5>3. qs[j] = rs[j]
          BY <3>2, <4>2
        <5> QED BY <5>2, <5>3
      <4> QED BY <4>1, <4>2
    <3>4. qs = ms
      BY <2>3, <3>2, <3>3, SeqEqual
    <3> QED BY <3>1, <3>4
  <2>15. Bytes(ms) = Append(g \o s, NL)
    <3>1. Bytes(ms) = g \o Append(s, NL)
      BY <2>2, <2>10, BytesAppend
    <3>2. Append(s, NL) = s \o <<NL>> /\ <<NL>> \in Seq(Byte)
      BY <2>12, AppendIsConcat
    <3>3. g \o (s \o <<NL>>) = (g \o s) \o <<NL>>
      BY <2>12, <3>2, ConcatAssociative
    <3>4. Append(g \o s, NL) = (g \o s) \o <<NL>>
      BY <2>12, AppendIsConcat
    <3> QED BY <3>1, <3>2, <3>3, <3>4
  <2>16. LinesOf(Append(g \o s, NL)) = PutByte(ms, NL)
    <3>1. LinesOf(Append(g \o s, NL)) = PutByte(LinesOf(g \o s), NL)
      BY <2>12, LinesOfAppend
    <3> QED BY <2>13, <2>14, <3>1
  <2>17. PutByte(ms, NL) = Append(ms, <<>>)
    BY <2>3, <2>4 DEF PutByte
  <2> QED BY <2>15, <2>16, <2>17
<1>3. Seq(Seq(Chars)) \subseteq T
  <2> HIDE DEF T
  <2> QED BY <1>1, <1>2, SequenceInduction
<1> QED BY <1>3

\* The lines of a buffer that is not full come back.
LEMMA BufferComesBack ==
  ASSUME NEW ls, Buffer(ls), Len(ls) < MaxL
  PROVE  Load(Bytes(ls)) = ls
<1>1. PICK n \in Nat : n = Len(ls) /\ n >= 1
  BY Sizes DEF Buffer
<1>2. ls \in Seq(Seq(Chars)) /\ \A i \in 1 .. Len(ls) : IsLine(ls[i])
  BY DEF Buffer
<1>3. PICK ms : ms = Append(ls, <<>>)
  OBVIOUS
<1>4. LinesOf(Bytes(ls)) = ms
  BY <1>2, <1>3, SavedIsLoaded
<1>5. <<>> \in Seq(Chars)
  BY EmptySeq
<1>6. ms \in Seq(Seq(Chars)) /\ Len(ms) = n + 1 /\ \A i \in 1 .. n : ms[i] = ls[i]
  BY <1>1, <1>2, <1>3, <1>5, AppendProperties
<1>7. Bytes(ls) # <<>> /\ Last(Bytes(ls)) = NL
  <2>1. ls # <<>>
    BY <1>1
  <2>2. PICK r \in Seq(Seq(Chars)), s \in Seq(Chars) : ls = Append(r, s)
    BY <1>2, <2>1, SequenceEmptyOrAppend
  <2>3. PICK b \in Seq(Byte), t \in Seq(Byte) : b = Bytes(r) /\ t = Append(s, NL) /\ Bytes(ls) = b \o t
    BY <2>2, BytesAppend
  <2>4. s \in Seq(Byte) /\ NL \in Byte
    BY SeqMonotonic DEF Byte
  <2>5. Len(t) = Len(s) + 1 /\ t[Len(s) + 1] = NL /\ Len(s) \in Nat /\ Len(b) \in Nat
    BY <2>3, <2>4, AppendProperties, LenProperties
  <2>6. /\ b \o t \in Seq(Byte) /\ Len(b \o t) = Len(b) + Len(t)
        /\ \A i \in 1 .. Len(b) + Len(t) : (b \o t)[i] = IF i <= Len(b) THEN b[i] ELSE t[i - Len(b)]
    BY ConcatProperties
  <2>7. PICK k \in Nat : k = Len(b) + Len(t) /\ k > Len(b) /\ k - Len(b) = Len(t)
    BY <2>5
  <2>8. (b \o t)[k] = t[k - Len(b)]
    BY <2>5, <2>6, <2>7
  <2>9. Last(b \o t) = NL
    BY <2>5, <2>6, <2>7, <2>8 DEF Last
  <2>10. Len(b \o t) # 0
    BY <2>5, <2>6, <2>7
  <2> QED BY <2>3, <2>9, <2>10
<1>8. Trailing(Bytes(ls), ms)
  BY <1>1, <1>6, <1>7 DEF Trailing
<1>9. Front(ms) = ls
  <2>1. \A i \in 1 .. n : ms[i] \in Seq(Chars)
    BY <1>1, <1>2, <1>6, ElementOfSeq
  <2>2. PICK fs : fs = SubSeq(ms, 1, n)
    OBVIOUS
  <2>3. fs \in Seq(Seq(Chars)) /\ Len(fs) = n /\ \A i \in 1 .. n : fs[i] = ms[i]
    BY <1>1, <2>1, <2>2, SubSeqProperties
  <2>4. \A i \in 1 .. n : fs[i] = ls[i]
    BY <1>6, <2>3
  <2>5. fs = ls
    BY <1>1, <1>2, <2>3, <2>4, SeqEqual
  <2> QED BY <1>6, <2>2, <2>5 DEF Front
<1> QED BY <1>4, <1>8, <1>9 DEF Load

-----------------------------------------------------------------------------
(* Every change to a line or to the buffer is a splice: the elements from  *)
(* p + 1 to q are replaced by those of m.                                  *)

Spliced(s, p, q, m) == (SubSeq(s, 1, p) \o m) \o SubSeq(s, q + 1, Len(s))

\* Where the elements of a splice r come from.
FromSplice(r, s, p, q, m) ==
  /\ Len(r) = p + Len(m) + Len(s) - q
  /\ \A j \in 1 .. p : r[j] = s[j]
  /\ \A j \in 1 .. Len(m) : r[p + j] = m[j]
  /\ \A j \in q + 1 .. Len(s) : r[p + Len(m) + j - q] = s[j]

LEMMA SplicedIs ==
  ASSUME NEW S, NEW s \in Seq(S), NEW p \in Nat, NEW q \in Nat, p <= q, q <= Len(s), NEW m \in Seq(S)
  PROVE  Spliced(s, p, q, m) \in Seq(S) /\ FromSplice(Spliced(s, p, q, m), s, p, q, m)
<1>1. PICK n \in Nat, k \in Nat : n = Len(s) /\ k = Len(m)
  BY LenProperties
<1>2. \A j \in 1 .. n : s[j] \in S
  BY <1>1, ElementOfSeq
<1>3. PICK a : a = SubSeq(s, 1, p)
  OBVIOUS
<1>4. a \in Seq(S) /\ Len(a) = p /\ \A j \in 1 .. p : a[j] = s[j]
  <2>1. 1 \in Int /\ p \in Int /\ \A j \in 1 .. p : s[j] \in S
    BY <1>1, <1>2
  <2>2. /\ a \in Seq(S) /\ Len(a) = IF 1 <= p THEN p - 1 + 1 ELSE 0
        /\ \A j \in 1 .. p - 1 + 1 : a[j] = s[1 + j - 1]
    BY <1>3, <2>1, SubSeqProperties
  <2> QED BY <2>2
<1>5. PICK b : b = SubSeq(s, q + 1, n)
  OBVIOUS
<1>6. b \in Seq(S) /\ Len(b) = n - q /\ \A j \in 1 .. n - q : b[j] = s[q + j]
  <2>1. q + 1 \in Int /\ n \in Int /\ \A j \in q + 1 .. n : s[j] \in S
    BY <1>1, <1>2
  <2>2. /\ b \in Seq(S) /\ Len(b) = IF q + 1 <= n THEN n - (q + 1) + 1 ELSE 0
        /\ \A j \in 1 .. n - (q + 1) + 1 : b[j] = s[(q + 1) + j - 1]
    BY <1>5, <2>1, SubSeqProperties
  <2>3. n - (q + 1) + 1 = n - q /\ \A j \in 1 .. n - q : (q + 1) + j - 1 = q + j
    OBVIOUS
  <2>4. Len(b) = n - q
    BY <1>1, <2>2
  <2> QED BY <2>2, <2>3, <2>4
<1>7. PICK c : c = a \o m
  OBVIOUS
<1>8. /\ c \in Seq(S) /\ Len(c) = p + k
      /\ \A j \in 1 .. p + k : c[j] = IF j <= p THEN a[j] ELSE m[j - p]
  BY <1>1, <1>4, <1>7, ConcatProperties
<1>9. PICK r : r = c \o b
  OBVIOUS
<1>10. /\ r \in Seq(S) /\ Len(r) = (p + k) + (n - q)
       /\ \A j \in 1 .. (p + k) + (n - q) : r[j] = IF j <= p + k THEN c[j] ELSE b[j - (p + k)]
  <2>1. /\ r \in Seq(S) /\ Len(r) = Len(c) + Len(b)
        /\ \A j \in 1 .. Len(c) + Len(b) : r[j] = IF j <= Len(c) THEN c[j] ELSE b[j - Len(c)]
    <3>1. c \in Seq(S) /\ b \in Seq(S)
      BY <1>6, <1>8
    <3> QED BY <1>9, <3>1, ConcatProperties
  <2>2. Len(c) = p + k /\ Len(b) = n - q
    BY <1>6, <1>8
  <2> QED BY <2>1, <2>2, Zenon
<1>11. r = Spliced(s, p, q, m)
  BY <1>1, <1>3, <1>5, <1>7, <1>9 DEF Spliced
<1>12. \A j \in 1 .. p : r[j] = s[j]
  <2> SUFFICES ASSUME NEW j \in 1 .. p PROVE r[j] = s[j]
    OBVIOUS
  <2>1. j \in 1 .. (p + k) + (n - q) /\ j <= p + k /\ j \in 1 .. p + k
    BY <1>1
  <2>2. r[j] = c[j]
    BY <1>10, <2>1
  <2>3. c[j] = a[j]
    BY <1>8, <2>1
  <2> QED BY <1>4, <2>2, <2>3
<1>13. \A j \in 1 .. k : r[p + j] = m[j]
  <2> SUFFICES ASSUME NEW j \in 1 .. k PROVE r[p + j] = m[j]
    OBVIOUS
  <2>1. p + j \in 1 .. (p + k) + (n - q) /\ p + j <= p + k /\ p + j \in 1 .. p + k
        /\ ~(p + j <= p) /\ (p + j) - p = j
    BY <1>1
  <2>2. r[p + j] = c[p + j]
    BY <1>10, <2>1
  <2>3. c[p + j] = m[(p + j) - p]
    BY <1>8, <2>1
  <2> QED BY <2>1, <2>2, <2>3
<1>14. \A j \in q + 1 .. n : r[p + k + j - q] = s[j]
  <2> SUFFICES ASSUME NEW j \in q + 1 .. n PROVE r[p + k + j - q] = s[j]
    OBVIOUS
  <2>0. p + k + j - q \in Nat
    BY <1>1
  <2>1. PICK i \in Nat : i = p + k + j - q
    BY <2>0
  <2>2. i \in 1 .. (p + k) + (n - q) /\ ~(i <= p + k) /\ i - (p + k) = j - q /\ j - q \in 1 .. n - q
        /\ q + (j - q) = j
    BY <1>1, <2>1
  <2>3. r[i] = b[i - (p + k)]
    BY <1>10, <2>2
  <2>4. b[j - q] = s[q + (j - q)]
    BY <1>6, <2>2
  <2> QED BY <2>1, <2>2, <2>3, <2>4
<1>15. Len(r) = p + k + n - q
  BY <1>10
<1>16. FromSplice(r, s, p, q, m)
  BY <1>1, <1>12, <1>13, <1>14, <1>15 DEF FromSplice
<1> QED BY <1>10, <1>11, <1>16

\* A sequence that agrees with a splice is that splice.
LEMMA SplicedEqual ==
  ASSUME NEW S, NEW s \in Seq(S), NEW p \in Nat, NEW q \in Nat, p <= q, q <= Len(s), NEW m \in Seq(S),
         NEW t \in Seq(S), FromSplice(t, s, p, q, m)
  PROVE  t = Spliced(s, p, q, m)
<1>1. PICK n \in Nat, k \in Nat : n = Len(s) /\ k = Len(m)
  BY LenProperties
<1>2. PICK r : r = Spliced(s, p, q, m)
  OBVIOUS
<1>3. /\ r \in Seq(S) /\ Len(r) = p + k + n - q
      /\ \A j \in 1 .. p : r[j] = s[j]
      /\ \A j \in 1 .. k : r[p + j] = m[j]
      /\ \A j \in q + 1 .. n : r[p + k + j - q] = s[j]
  <2>1. r \in Seq(S) /\ FromSplice(r, s, p, q, m)
    BY <1>2, SplicedIs
  <2> QED BY <1>1, <2>1 DEF FromSplice
<1>7. /\ Len(t) = p + k + n - q
      /\ \A j \in 1 .. p : t[j] = s[j]
      /\ \A j \in 1 .. k : t[p + j] = m[j]
      /\ \A j \in q + 1 .. n : t[p + k + j - q] = s[j]
  BY <1>1 DEF FromSplice
<1>4. ASSUME NEW i \in 1 .. p + k + n - q PROVE t[i] = r[i]
  <2>1. CASE i <= p
    <3>1. i \in 1 .. p
      BY <2>1
    <3> QED BY <1>3, <1>7, <3>1
  <2>2. CASE p < i /\ i <= p + k
    <3>1. PICK j \in 1 .. k : i = p + j
      <4>1. i - p \in 1 .. k /\ i = p + (i - p)
        BY <2>2
      <4> QED BY <4>1
    <3>2. r[p + j] = m[j]
      BY <1>3, <3>1
    <3>3. t[p + j] = m[j]
      BY <1>7, <3>1
    <3> QED BY <3>1, <3>2, <3>3
  <2>3. CASE p + k < i
    <3>1. PICK j \in q + 1 .. n : i = p + k + j - q
      <4>1. i - p - k + q \in q + 1 .. n /\ i = p + k + (i - p - k + q) - q
        BY <2>3, <1>1, <1>4
      <4> QED BY <4>1
    <3>2. r[p + k + j - q] = s[j]
      BY <1>3, <3>1
    <3>3. t[p + k + j - q] = s[j]
      BY <1>7, <3>1
    <3> QED BY <3>1, <3>2, <3>3
  <2> QED BY <2>1, <2>2, <2>3
<1>5. Len(t) = Len(r)
  BY <1>3, <1>7
<1>6. t = r
  BY <1>3, <1>4, <1>5, SeqEqual
<1> QED BY <1>2, <1>6

\* Text: a splice by lines of the same text keeps it.
LEMMA SplicedText ==
  ASSUME NEW S, NEW ls \in Seq(Seq(S)), NEW p \in Nat, NEW q \in Nat, p <= q, q <= Len(ls),
         NEW m \in Seq(Seq(S)), FlattenSeq(m) = FlattenSeq(SubSeq(ls, p + 1, q))
  PROVE  FlattenSeq(Spliced(ls, p, q, m)) = FlattenSeq(ls)
<1>1. PICK n \in Nat : n = Len(ls)
  BY LenProperties
<1>2. \A j \in 1 .. n : ls[j] \in Seq(S)
  BY <1>1, ElementOfSeq
<1>3. PICK a, c, b : a = SubSeq(ls, 1, p) /\ c = SubSeq(ls, p + 1, q) /\ b = SubSeq(ls, q + 1, n)
  OBVIOUS
<1>4. a \in Seq(Seq(S)) /\ c \in Seq(Seq(S)) /\ b \in Seq(Seq(S))
  <2>1. /\ 1 \in Int /\ p \in Int /\ q \in Int /\ n \in Int /\ p + 1 \in Int /\ q + 1 \in Int
        /\ \A j \in 1 .. p : ls[j] \in Seq(S)
        /\ \A j \in p + 1 .. q : ls[j] \in Seq(S)
        /\ \A j \in q + 1 .. n : ls[j] \in Seq(S)
    BY <1>1, <1>2
  <2>2. a \in Seq(Seq(S))
    BY <1>3, <2>1, SubSeqProperties
  <2>3. c \in Seq(Seq(S))
    BY <1>3, <2>1, SubSeqProperties
  <2>4. b \in Seq(Seq(S))
    BY <1>3, <2>1, SubSeqProperties
  <2> QED BY <2>2, <2>3, <2>4
<1>5. FlattenSeq((a \o m) \o b) = FlattenSeq((a \o c) \o b)
  <2>1. FlattenSeq(m) = FlattenSeq(c)
    BY <1>3
  <2> QED BY <1>4, <2>1, FlattenMiddle
<1>6. (a \o c) \o b = ls
  <2>1. 1 \in 1 .. n + 1 /\ p \in 0 .. n /\ p \in 1 - 1 .. n /\ q \in p .. n /\ q \in 1 - 1 .. n /\ n \in q .. n
    BY <1>1
  <2>2. a \o c = SubSeq(ls, 1, q)
    BY <1>1, <1>3, <2>1, ConcatAdjacentSubSeq
  <2>3. SubSeq(ls, 1, q) \o b = SubSeq(ls, 1, n)
    BY <1>1, <1>3, <2>1, ConcatAdjacentSubSeq
  <2>4. SubSeq(ls, 1, n) = ls
    BY <1>1, SubSeqFull
  <2> QED BY <2>2, <2>3, <2>4
<1>7. Spliced(ls, p, q, m) = (a \o m) \o b
  BY <1>1, <1>3 DEF Spliced
<1> QED BY <1>5, <1>6, <1>7

LEMMA InsertIsSplice ==
  ASSUME NEW S, NEW s \in Seq(S), NEW p \in Nat, p <= Len(s), NEW e \in S
  PROVE  /\ InsertAt(s, p + 1, e) = Spliced(s, p, p, <<e>>)
         /\ InsertAt(s, p + 1, e) \in Seq(S) /\ Len(InsertAt(s, p + 1, e)) = Len(s) + 1
<1>1. (p + 1) - 1 = p
  OBVIOUS
<1>2. InsertAt(s, p + 1, e) = Spliced(s, p, p, <<e>>)
  BY <1>1 DEF InsertAt, Spliced
<1>0. <<e>> \in Seq(S) /\ Len(<<e>>) = 1
  OBVIOUS
<1>3. PICK m \in Seq(S) : m = <<e>> /\ Len(m) = 1
  BY <1>0
<1>4. PICK n \in Nat : n = Len(s) /\ p <= n
  BY LenProperties
<1>5. Spliced(s, p, p, m) \in Seq(S) /\ Len(Spliced(s, p, p, m)) = p + Len(m) + Len(s) - p
  BY SplicedIs DEF FromSplice
<1>6. p + 1 + n - p = n + 1
  BY <1>4
<1> QED BY <1>2, <1>3, <1>4, <1>5, <1>6

LEMMA RemoveIsSplice ==
  ASSUME NEW S, NEW s \in Seq(S), NEW p \in Nat, p < Len(s)
  PROVE  /\ RemoveAt(s, p + 1) = Spliced(s, p, p + 1, <<>>)
         /\ RemoveAt(s, p + 1) \in Seq(S) /\ Len(RemoveAt(s, p + 1)) = Len(s) - 1
<1>1. (p + 1) - 1 = p /\ 1 \in Int /\ p \in Int /\ p + 1 \in Nat
  OBVIOUS
<1>2. PICK n \in Nat : n = Len(s) /\ p + 1 <= n
  BY LenProperties
<1>3. \A j \in 1 .. p : s[j] \in S
  BY <1>2, ElementOfSeq
<1>4. SubSeq(s, 1, p) \in Seq(S)
  BY <1>1, <1>3, SubSeqProperties
<1>5. SubSeq(s, 1, p) \o <<>> = SubSeq(s, 1, p)
  BY <1>4, ConcatEmptySeq
<1>6. RemoveAt(s, p + 1) = Spliced(s, p, p + 1, <<>>)
  BY <1>1, <1>5 DEF RemoveAt, Spliced
<1>7. PICK m \in Seq(S) : m = <<>> /\ Len(m) = 0
  BY EmptySeq
<1>8. p <= p + 1 /\ p + 1 <= Len(s)
  BY <1>2
<1>9. Spliced(s, p, p + 1, m) \in Seq(S) /\ Len(Spliced(s, p, p + 1, m)) = p + Len(m) + Len(s) - (p + 1)
  BY <1>1, <1>8, SplicedIs DEF FromSplice
<1>10. p + 0 + n - (p + 1) = n - 1
  BY <1>2
<1> QED BY <1>2, <1>6, <1>7, <1>9, <1>10

-----------------------------------------------------------------------------
(* The keys.                                                               *)

LineSet == {s \in Seq(Chars) : Len(s) <= MaxC - 1}

LEMMA BufferIsSeq ==
  ASSUME NEW ls
  PROVE  Buffer(ls) <=> ls \in Seq(LineSet) /\ Len(ls) \in 1 .. MaxL
<1>1. ASSUME Buffer(ls) PROVE ls \in Seq(LineSet) /\ Len(ls) \in 1 .. MaxL
  <2>1. PICK n \in Nat : n = Len(ls)
    BY <1>1, Sizes DEF Buffer
  <2>2. \A i \in 1 .. n : ls[i] \in LineSet
    BY <1>1, <2>1 DEF Buffer, IsLine, LineSet
  <2>3. ls \in Seq(Seq(Chars)) /\ ls = [i \in 1 .. n |-> ls[i]]
    BY <1>1, <2>1, LenProperties DEF Buffer
  <2>4. [i \in 1 .. n |-> ls[i]] \in Seq(LineSet)
    BY <2>2
  <2>5. ls \in Seq(LineSet)
    BY <2>3, <2>4
  <2> QED BY <1>1, <2>5 DEF Buffer
<1>2. ASSUME ls \in Seq(LineSet), Len(ls) \in 1 .. MaxL PROVE Buffer(ls)
  <2>1. LineSet \subseteq Seq(Chars)
    BY DEF LineSet
  <2>2. ls \in Seq(Seq(Chars))
    BY <1>2, <2>1, SeqMonotonic
  <2>3. \A i \in 1 .. Len(ls) : IsLine(ls[i])
    <3> SUFFICES ASSUME NEW i \in 1 .. Len(ls) PROVE IsLine(ls[i])
      OBVIOUS
    <3>1. ls[i] \in LineSet
      BY <1>2, ElementOfSeq
    <3> QED BY <3>1 DEF LineSet, IsLine
  <2> QED BY <1>2, <2>2, <2>3 DEF Buffer
<1> QED BY <1>1, <1>2

\* A line is put in where there is room, or one of several is taken out.
LEMMA InsertFits ==
  ASSUME NEW ls, Buffer(ls), Len(ls) < MaxL, NEW p \in Nat, p <= Len(ls), NEW s, IsLine(s)
  PROVE  Buffer(InsertAt(ls, p + 1, s))
<1>1. ls \in Seq(LineSet) /\ Len(ls) \in Nat
  BY BufferIsSeq, LenProperties
<1>2. s \in LineSet
  BY DEF IsLine, LineSet
<1>3. PICK ms : ms = InsertAt(ls, p + 1, s)
  OBVIOUS
<1>4. ms \in Seq(LineSet) /\ Len(ms) = Len(ls) + 1
  BY <1>1, <1>2, <1>3, InsertIsSplice
<1>5. Len(ms) \in 1 .. MaxL
  BY <1>1, <1>4, Sizes
<1> QED BY <1>3, <1>4, <1>5, BufferIsSeq

LEMMA RemoveFits ==
  ASSUME NEW ls, Buffer(ls), Len(ls) > 1, NEW p \in Nat, p < Len(ls)
  PROVE  Buffer(RemoveAt(ls, p + 1))
<1>1. ls \in Seq(LineSet) /\ Len(ls) \in Nat /\ Len(ls) <= MaxL
  BY BufferIsSeq, LenProperties
<1>2. PICK ms : ms = RemoveAt(ls, p + 1)
  OBVIOUS
<1>3. ms \in Seq(LineSet) /\ Len(ms) = Len(ls) - 1
  BY <1>1, <1>2, RemoveIsSplice
<1>4. Len(ms) \in 1 .. MaxL
  BY <1>1, <1>3, Sizes
<1> QED BY <1>2, <1>3, <1>4, BufferIsSeq

\* The cursor is on a character of the text or behind a line, and in the window.
Placed ==
  /\ cy \in 0 .. nlines - 1 /\ cx \in 0 .. len
  /\ top \in 0 .. cy /\ cy <= top + TxtRows - 1

Controls ==
  /\ mode \in {"normal", "insert", "cmd", "exited"} /\ cmd \in Commands /\ fname \in {"file", ""}
  /\ dirty \in BOOLEAN /\ pend_d \in BOOLEAN /\ pend_g \in BOOLEAN

\* What has not been changed since it was loaded.
Clean == mode # "exited" /\ ~dirty => lines = Load(loaded)

KInv == Buffer(lines) /\ Placed /\ Controls /\ loaded \in Files /\ Clean

LEMMA Here ==
  ASSUME Buffer(lines), Placed
  PROVE  /\ nlines \in Nat /\ 1 <= nlines /\ nlines <= MaxL /\ cy \in Nat /\ cy < nlines
         /\ cx \in Nat /\ cx <= len /\ len \in Nat /\ len <= MaxC - 1 /\ top \in Nat
         /\ IsLine(lines[cy + 1]) /\ cy + 1 \in 1 .. Len(lines)
         /\ len = Len(lines[cy + 1])
<1>1. nlines \in Nat /\ 1 <= nlines /\ nlines <= MaxL
  BY Sizes DEF Buffer, nlines
<1>2. cy \in Nat /\ cy < nlines /\ cy + 1 \in 1 .. Len(lines)
  BY <1>1 DEF Placed, nlines
<1>3. IsLine(lines[cy + 1])
  BY <1>2 DEF Buffer
<1>4. len = Len(lines[cy + 1])
  BY DEF len, Line
<1>5. Len(lines[cy + 1]) \in Nat /\ Len(lines[cy + 1]) <= MaxC - 1
  BY <1>3, LenProperties DEF IsLine
<1>6. cx \in Nat /\ cx <= len /\ top \in Nat
  BY <1>2, <1>4, <1>5 DEF Placed
<1> QED BY <1>1, <1>2, <1>3, <1>4, <1>5, <1>6

\* clamp puts the cursor on the text and the window around it.
LEMMA ShowPlaces ==
  ASSUME top \in Nat, NEW ls, Buffer(ls), NEW x \in Int, NEW y \in Int, Show(ls, x, y)
  PROVE  Buffer(lines') /\ Placed' /\ lines' = ls
<1>1. lines' = ls
  BY DEF Show
<1>2. PICK n \in Nat : n = Len(ls) /\ n >= 1
  BY Sizes DEF Buffer
<1>3. cy' \in 0 .. n - 1
  <2>1. cy' = Between(y, 0, n - 1)
    BY <1>2 DEF Show, ClampRow
  <2> QED BY <1>2, <2>1 DEF Between
<1>9. PICK v \in Nat : v = cy' /\ v + 1 \in 1 .. n
  <2>1. PICK v : v = cy'
    OBVIOUS
  <2>2. v \in 0 .. n - 1
    BY <1>3, <2>1
  <2>3. v \in Nat /\ v + 1 \in 1 .. n
    BY <1>2, <2>2
  <2> QED BY <2>1, <2>3
<1>4. PICK k \in Nat : k = Len(ls[cy' + 1])
  <2>1. cy' + 1 \in 1 .. Len(ls)
    BY <1>2, <1>9
  <2>2. ls[cy' + 1] \in Seq(Chars)
    BY <2>1 DEF Buffer, IsLine
  <2>3. Len(ls[cy' + 1]) \in Nat
    BY <2>2, LenProperties
  <2> QED BY <2>3
<1>5. cx' \in 0 .. k
  <2>1. cx' = Between(x, 0, k)
    BY <1>4 DEF Show
  <2> QED BY <1>4, <2>1 DEF Between
<1>6. top' \in 0 .. cy' /\ cy' <= top' + TxtRows - 1
  <2>1. top' = LET t == IF top > cy' THEN cy' ELSE top
               IN  IF t < cy' - (TxtRows - 1) THEN cy' - (TxtRows - 1) ELSE t
    BY DEF Show
  <2>2. PICK t : t = IF top > v THEN v ELSE top
    OBVIOUS
  <2>3. t \in Nat /\ t <= v
    BY <2>2
  <2>4. top' = IF t < v - (TxtRows - 1) THEN v - (TxtRows - 1) ELSE t
    BY <1>9, <2>1, <2>2
  <2>5. PICK w : w = IF t < v - (TxtRows - 1) THEN v - (TxtRows - 1) ELSE t
    OBVIOUS
  <2>6. w \in 0 .. v /\ v <= w + TxtRows - 1
    BY <2>3, <2>5, Sizes
  <2>7. top' = w
    BY <2>4, <2>5
  <2> QED BY <1>9, <2>6, <2>7
<1>7. nlines' = n /\ len' = k
  BY <1>1, <1>2, <1>4 DEF nlines, len, Line
<1>8. Placed'
  BY <1>3, <1>5, <1>6, <1>7 DEF Placed
<1> QED BY <1>1, <1>8

\* What a key can do to the text: move over it, change it, or leave it.
Moves == UNCHANGED loaded /\ \E x, y \in Int : Move(x, y)
Edits == UNCHANGED loaded /\ \E ls : \E x, y \in Int : Buffer(ls) /\ Edit(ls, x, y)
Leaves == UNCHANGED loaded /\ Exit /\ (dirty' = dirty \/ dirty' = FALSE)

LEMMA MotionKeys ==
  ASSUME KInv, key_motion \/ key_insert \/ key_colon \/ key_g \/ key_escape \/ key_arrow
               \/ cmd_type \/ cmd_escape
  PROVE  Moves /\ Controls' /\ mode # "exited"
<1>1. /\ nlines \in Nat /\ cy \in Nat /\ cx \in Nat /\ len \in Nat
  BY Here DEF KInv
<1>2. /\ cx \in Int /\ cy \in Int /\ cx - 1 \in Int /\ cx + 1 \in Int /\ cy - 1 \in Int /\ cy + 1 \in Int
      /\ nlines - 1 \in Int /\ 0 \in Int /\ len \in Int /\ (IF len > 0 THEN len - 1 ELSE 0) \in Int
      /\ (IF cx < len THEN cx + 1 ELSE cx) \in Int
  BY <1>1
<1>3. Controls
  BY DEF KInv
<1>4. CASE key_motion
  <2>1. Moves /\ UNCHANGED <<dirty, fname, cmd>> /\ mode = "normal" /\ mode' = "normal"
        /\ pend_d' = FALSE /\ pend_g' = FALSE
    BY <1>2, <1>4, Zenon DEF key_motion, NormalKey, Keep, Settle, ToMode, Moves, Move, Stay
  <2> QED BY <1>3, <2>1 DEF Controls
<1>5. CASE key_insert
  <2>1. Moves /\ UNCHANGED <<dirty, fname, cmd>> /\ mode = "normal" /\ mode' = "insert"
        /\ pend_d' = FALSE /\ pend_g' = FALSE
    BY <1>2, <1>5, Zenon DEF key_insert, NormalKey, Keep, Settle, ToMode, Moves, Move, Stay
  <2> QED BY <1>3, <2>1 DEF Controls
<1>6. CASE key_colon
  <2>1. Moves /\ UNCHANGED <<dirty, fname>> /\ cmd' = "" /\ mode = "normal" /\ mode' = "cmd"
        /\ pend_d' = FALSE /\ pend_g' = FALSE
    BY <1>2, <1>6, Zenon DEF key_colon, Keep, Settle, ToMode, Moves, Move, Stay
  <2> QED BY <1>3, <2>1 DEF Controls, Commands
<1>7. CASE key_g
  <2>1. Moves /\ UNCHANGED <<dirty, fname, cmd>> /\ mode = "normal" /\ mode' = "normal"
        /\ (pend_g' = TRUE \/ pend_g' = FALSE) /\ (pend_d' = FALSE \/ pend_d' = pend_d)
    BY <1>2, <1>7, Zenon DEF key_g, NormalKey, Keep, ToMode, Moves, Move, Stay
  <2> QED BY <1>3, <2>1 DEF Controls
<1>8. CASE key_escape
  <2>1. Moves /\ UNCHANGED <<dirty, fname, cmd, pend_d, pend_g>> /\ mode = "insert" /\ mode' = "normal"
    BY <1>2, <1>8, Zenon DEF key_escape, InsertKey, Keep, ToMode, Moves, Move, Stay, pending
  <2> QED BY <1>3, <2>1 DEF Controls
<1>9. CASE key_arrow
  <2>1. Moves /\ UNCHANGED <<dirty, fname, cmd>> /\ mode = "insert" /\ mode' = "insert"
        /\ pend_d' = FALSE /\ pend_g' = FALSE
    BY <1>2, <1>9, Zenon DEF key_arrow, InsertKey, Keep, Settle, ToMode, Moves, Move, Stay
  <2> QED BY <1>3, <2>1 DEF Controls
<1>10. CASE cmd_type
  <2>1. Moves /\ UNCHANGED <<dirty, fname, pend_d, pend_g>> /\ cmd' \in Commands /\ mode = "cmd" /\ mode' = "cmd"
    BY <1>2, <1>10, Zenon DEF cmd_type, CmdKey, NoSave, ToMode, Moves, Move, Stay, pending
  <2> QED BY <1>3, <2>1 DEF Controls
<1>11. CASE cmd_escape
  <2>1. Moves /\ UNCHANGED <<dirty, fname, pend_d, pend_g, cmd>> /\ mode = "cmd" /\ mode' = "normal"
    BY <1>2, <1>11, Zenon DEF cmd_escape, CmdKey, NoSave, ToMode, Moves, Move, Stay, pending
  <2> QED BY <1>3, <2>1 DEF Controls
<1> QED BY <1>4, <1>5, <1>6, <1>7, <1>8, <1>9, <1>10, <1>11

\* x and a backspace inside a line.
LEMMA CharDeletedFits ==
  ASSUME Buffer(lines), Placed, NEW x \in Nat, x < len
  PROVE  Buffer(CharDeleted(x))
<1>1. /\ IsLine(lines[cy + 1]) /\ cy + 1 \in 1 .. Len(lines) /\ len = Len(lines[cy + 1])
      /\ len \in Nat /\ len <= MaxC - 1
  BY Here
<1>2. PICK s : s = lines[cy + 1]
  OBVIOUS
<1>3. s \in Seq(Chars) /\ x < Len(s) /\ Len(s) = len
  BY <1>1, <1>2 DEF IsLine
<1>4. PICK r : r = RemoveAt(s, x + 1)
  OBVIOUS
<1>5. r \in Seq(Chars) /\ Len(r) = Len(s) - 1
  BY <1>3, <1>4, RemoveIsSplice
<1>6. IsLine(r)
  BY <1>1, <1>3, <1>5, Sizes DEF IsLine
<1>7. CharDeleted(x) = [lines EXCEPT ![cy + 1] = r]
  BY <1>2, <1>4 DEF CharDeleted
<1>8. Buffer([lines EXCEPT ![cy + 1] = r])
  BY <1>1, <1>6, BufferExcept
<1> QED BY <1>7, <1>8

LEMMA CharPutFits ==
  ASSUME Buffer(lines), Placed, HasRoom, NEW c \in Chars
  PROVE  Buffer([lines EXCEPT ![cy + 1] = InsertAt(@, cx + 1, c)])
<1>1. /\ IsLine(lines[cy + 1]) /\ cy + 1 \in 1 .. Len(lines) /\ len = Len(lines[cy + 1])
      /\ len \in Nat /\ cx \in Nat /\ cx <= len
  BY Here
<1>2. PICK s : s = lines[cy + 1]
  OBVIOUS
<1>3. s \in Seq(Chars) /\ cx <= Len(s) /\ Len(s) = len
  BY <1>1, <1>2 DEF IsLine
<1>4. PICK r : r = InsertAt(s, cx + 1, c)
  OBVIOUS
<1>5. r \in Seq(Chars) /\ Len(r) = Len(s) + 1
  BY <1>1, <1>3, <1>4, InsertIsSplice, Zenon
<1>6. IsLine(r)
  BY <1>1, <1>3, <1>5, Sizes DEF IsLine, HasRoom
<1>7. [lines EXCEPT ![cy + 1] = InsertAt(@, cx + 1, c)] = [lines EXCEPT ![cy + 1] = r]
  BY <1>2, <1>4
<1>8. Buffer([lines EXCEPT ![cy + 1] = r])
  BY <1>1, <1>6, BufferExcept
<1> QED BY <1>7, <1>8

\* The two halves of the line at the cursor.
Head2 == SubSeq(lines[cy + 1], 1, cx)
Tail2 == SubSeq(lines[cy + 1], cx + 1, len)

LEMMA Halves ==
  ASSUME Buffer(lines), Placed
  PROVE  IsLine(Head2) /\ IsLine(Tail2) /\ Head2 \o Tail2 = lines[cy + 1]
<1>1. /\ IsLine(lines[cy + 1]) /\ len = Len(lines[cy + 1])
      /\ len \in Nat /\ len <= MaxC - 1 /\ cx \in Nat /\ cx <= len
  BY Here
<1>2. PICK s \in Seq(Chars) : s = lines[cy + 1]
  BY <1>1 DEF IsLine
<1>3. PICK n \in Nat, x \in Nat : n = len /\ x = cx /\ x <= n /\ n = Len(s) /\ n <= MaxC - 1
  BY <1>1, <1>2
<1>4. /\ 1 \in Int /\ x \in Int /\ x + 1 \in Int /\ n \in Int
      /\ (\A i \in 1 .. x : s[i] \in Chars) /\ (\A i \in x + 1 .. n : s[i] \in Chars)
  BY <1>3, ElementOfSeq
<1>5. PICK h : h = SubSeq(s, 1, x)
  OBVIOUS
<1>6. h \in Seq(Chars) /\ Len(h) = IF 1 <= x THEN x - 1 + 1 ELSE 0
  BY <1>4, <1>5, SubSeqProperties
<1>7. IsLine(h)
  BY <1>3, <1>6, Sizes DEF IsLine
<1>8. PICK t : t = SubSeq(s, x + 1, n)
  OBVIOUS
<1>9. t \in Seq(Chars) /\ Len(t) = IF x + 1 <= n THEN n - (x + 1) + 1 ELSE 0
  BY <1>4, <1>8, SubSeqProperties
<1>10. IsLine(t)
  BY <1>3, <1>9, Sizes DEF IsLine
<1>11. 1 \in 1 .. Len(s) + 1 /\ x \in 1 - 1 .. Len(s) /\ n \in x .. Len(s)
  BY <1>3
<1>12. h \o t = SubSeq(s, 1, n)
  BY <1>5, <1>8, <1>11, ConcatAdjacentSubSeq
<1>13. SubSeq(s, 1, n) = s
  BY <1>3, SubSeqFull
<1>14. h = Head2 /\ t = Tail2
  BY <1>2, <1>3, <1>5, <1>8 DEF Head2, Tail2
<1> QED BY <1>2, <1>7, <1>10, <1>12, <1>13, <1>14

\* Enter replaces the line by its two halves.
LEMMA BrokenFits ==
  ASSUME Buffer(lines), Placed, nlines < MaxL
  PROVE  Buffer(Broken) /\ Broken = Spliced(lines, cy, cy + 1, <<Head2, Tail2>>)
<1>1. /\ nlines \in Nat /\ cy \in Nat /\ cy < nlines /\ cy + 1 \in 1 .. Len(lines)
  BY Here
<1>2. IsLine(Head2) /\ IsLine(Tail2)
  BY Halves
<1>3. PICK n \in Nat : n = Len(lines) /\ cy + 1 <= n
  BY <1>1 DEF nlines
<1>4. PICK ms : ms = InsertAt(lines, (cy + 1) + 1, Tail2)
  OBVIOUS
<1>5. Buffer(ms)
  <2>1. cy + 1 \in Nat /\ cy + 1 <= Len(lines) /\ Len(lines) < MaxL
    BY <1>1, <1>3 DEF nlines
  <2> QED BY <1>2, <1>4, <2>1, InsertFits
<1>6. lines \in Seq(Seq(Chars)) /\ Head2 \in Seq(Chars) /\ Tail2 \in Seq(Chars)
  BY <1>2 DEF Buffer, IsLine
<1>7. /\ ms \in Seq(Seq(Chars)) /\ Len(ms) = n + 1
      /\ \A j \in 1 .. cy + 1 : ms[j] = lines[j]
      /\ ms[cy + 2] = Tail2
      /\ \A j \in cy + 2 .. n : ms[j + 1] = lines[j]
  <2>1. PICK p \in Nat : p = cy + 1 /\ p <= n
    BY <1>1, <1>3
  <2>2. ms = Spliced(lines, p, p, <<Tail2>>)
    BY <1>3, <1>4, <1>6, <2>1, InsertIsSplice
  <2>3. PICK m \in Seq(Seq(Chars)) : m = <<Tail2>> /\ Len(m) = 1 /\ m[1] = Tail2
    <3>1. <<Tail2>> \in Seq(Seq(Chars)) /\ Len(<<Tail2>>) = 1 /\ <<Tail2>>[1] = Tail2
      BY <1>6
    <3> QED BY <3>1
  <2>4. ms \in Seq(Seq(Chars)) /\ FromSplice(ms, lines, p, p, m)
    <3>1. lines \in Seq(Seq(Chars)) /\ p <= p /\ p <= Len(lines) /\ ms = Spliced(lines, p, p, m)
      BY <1>3, <1>6, <2>1, <2>2, <2>3
    <3> QED BY <3>1, SplicedIs
  <2>5. /\ Len(ms) = p + 1 + n - p
        /\ \A j \in 1 .. p : ms[j] = lines[j]
        /\ \A j \in 1 .. 1 : ms[p + j] = Tail2
        /\ \A j \in p + 1 .. n : ms[p + 1 + j - p] = lines[j]
    BY <1>3, <2>3, <2>4 DEF FromSplice
  <2>6. Len(ms) = n + 1
    BY <2>5
  <2>7. ms[p + 1] = Tail2
    BY <2>5
  <2>8. ASSUME NEW j \in p + 1 .. n PROVE ms[j + 1] = lines[j]
    <3>1. p + 1 + j - p = j + 1
      BY <1>3
    <3> QED BY <2>5, <3>1
  <2> QED BY <1>1, <2>1, <2>4, <2>5, <2>6, <2>7, <2>8
<1>8. PICK bs : bs = [ms EXCEPT ![cy + 1] = Head2]
  OBVIOUS
<1>9. cy + 1 \in 1 .. Len(ms)
  BY <1>1, <1>3, <1>7
<1>10. Broken = bs
  <2>1. (cy + 1) + 1 = cy + 2 /\ ms[cy + 1] = lines[cy + 1]
    BY <1>1, <1>7
  <2>2. Broken = [ms EXCEPT ![cy + 1] = SubSeq(ms[cy + 1], 1, cx)]
    BY <1>4, <2>1 DEF Broken, Tail2, Line
  <2> QED BY <1>8, <2>1, <2>2 DEF Head2
<1>11. Buffer(bs)
  BY <1>2, <1>5, <1>8, <1>9, BufferExcept
<1>12. /\ bs \in Seq(Seq(Chars)) /\ Len(bs) = n + 1
       /\ \A j \in 1 .. n + 1 : bs[j] = IF j = cy + 1 THEN Head2 ELSE ms[j]
  BY <1>6, <1>7, <1>8, <1>9, ExceptSeq
<1>13. PICK m \in Seq(Seq(Chars)) : m = <<Head2, Tail2>> /\ Len(m) = 2 /\ m[1] = Head2 /\ m[2] = Tail2
  <2>1. <<Head2, Tail2>> \in Seq(Seq(Chars))
    BY <1>6
  <2> QED BY <2>1
<1>14. FromSplice(bs, lines, cy, cy + 1, m)
  <2>1. Len(bs) = cy + Len(m) + Len(lines) - (cy + 1)
    BY <1>1, <1>3, <1>12, <1>13
  <2>2. ASSUME NEW j \in 1 .. cy PROVE bs[j] = lines[j]
    <3>1. j \in 1 .. n + 1 /\ j # cy + 1 /\ j \in 1 .. cy + 1
      BY <1>1, <1>3
    <3> QED BY <1>7, <1>12, <3>1
  <2>3. ASSUME NEW j \in 1 .. 2 PROVE bs[cy + j] = m[j]
    <3>1. CASE j = 1
      <4>1. cy + 1 \in 1 .. n + 1
        BY <1>1, <1>3
      <4> QED BY <1>12, <1>13, <3>1, <4>1
    <3>2. CASE j = 2
      <4>1. cy + 2 \in 1 .. n + 1 /\ cy + 2 # cy + 1
        BY <1>1, <1>3
      <4>2. bs[cy + 2] = ms[cy + 2]
        BY <1>12, <4>1
      <4> QED BY <1>7, <1>13, <3>2, <4>2
    <3> QED BY <3>1, <3>2
  <2>4. ASSUME NEW j \in (cy + 1) + 1 .. n PROVE bs[cy + 2 + j - (cy + 1)] = lines[j]
    <3>1. cy + 2 + j - (cy + 1) = j + 1 /\ j + 1 \in 1 .. n + 1 /\ j + 1 # cy + 1 /\ j \in cy + 2 .. n
      BY <1>1, <1>3
    <3>2. bs[j + 1] = ms[j + 1]
      BY <1>12, <3>1
    <3>3. ms[j + 1] = lines[j]
      BY <1>7, <3>1
    <3> QED BY <3>1, <3>2, <3>3
  <2> QED BY <1>3, <1>13, <2>1, <2>2, <2>3, <2>4 DEF FromSplice
<1>15. bs = Spliced(lines, cy, cy + 1, m)
  <2>1. cy + 1 \in Nat /\ cy <= cy + 1 /\ cy + 1 <= Len(lines)
    BY <1>1, <1>3
  <2> QED BY <1>1, <1>6, <1>12, <1>14, <2>1, SplicedEqual
<1> QED BY <1>10, <1>11, <1>13, <1>15

\* A backspace at the start of a line replaces it and the one above by one.
LEMMA JoinedFits ==
  ASSUME Buffer(lines), Placed, cy > 0, Len(Line(cy - 1)) + len < MaxC
  PROVE  /\ Buffer(Joined) /\ lines[cy] \in Seq(Chars) /\ lines[cy + 1] \in Seq(Chars)
         /\ Joined = Spliced(lines, cy - 1, cy + 1, <<lines[cy] \o lines[cy + 1]>>)
<1>1. /\ nlines \in Nat /\ cy \in Nat /\ cy < nlines /\ cy + 1 \in 1 .. Len(lines)
      /\ IsLine(lines[cy + 1]) /\ len = Len(lines[cy + 1]) /\ len \in Nat
  BY Here
<1>2. PICK n \in Nat : n = Len(lines) /\ cy + 1 <= n /\ n > 1
  BY <1>1 DEF nlines
<1>3. cy \in 1 .. n /\ (cy - 1) + 1 = cy /\ cy - 1 \in Nat /\ cy - 1 <= cy + 1
  BY <1>1, <1>2
<1>4. lines \in Seq(Seq(Chars)) /\ IsLine(lines[cy])
  BY <1>2, <1>3 DEF Buffer
<1>5. PICK s \in Seq(Chars), t \in Seq(Chars) : s = lines[cy] /\ t = lines[cy + 1]
  BY <1>1, <1>4 DEF IsLine
<1>6. Len(s) + Len(t) < MaxC /\ Len(s) \in Nat /\ Len(t) \in Nat
  BY <1>1, <1>3, <1>5, LenProperties DEF Line
<1>7. PICK u : u = s \o t
  OBVIOUS
<1>8. u \in Seq(Chars) /\ Len(u) = Len(s) + Len(t)
  BY <1>7, ConcatProperties
<1>9. IsLine(u)
  BY <1>6, <1>8, Sizes DEF IsLine
<1>10. PICK ms : ms = RemoveAt(lines, cy + 1)
  OBVIOUS
<1>11. Buffer(ms)
  <2>1. cy \in Nat /\ cy < Len(lines) /\ Len(lines) > 1
    BY <1>1, <1>2
  <2> QED BY <1>10, <2>1, RemoveFits
<1>12. /\ ms \in Seq(Seq(Chars)) /\ Len(ms) = n - 1
       /\ \A j \in 1 .. cy : ms[j] = lines[j]
       /\ \A j \in cy + 2 .. n : ms[j - 1] = lines[j]
  <2>1. PICK m \in Seq(Seq(Chars)) : m = <<>> /\ Len(m) = 0
    BY EmptySeq
  <2>2. ms = Spliced(lines, cy, cy + 1, m)
    <3>1. cy < Len(lines)
      BY <1>1, <1>2
    <3> QED BY <1>1, <1>4, <1>10, <2>1, <3>1, RemoveIsSplice
  <2>3. ms \in Seq(Seq(Chars)) /\ FromSplice(ms, lines, cy, cy + 1, m)
    <3>1. cy + 1 \in Nat /\ cy <= cy + 1 /\ cy + 1 <= Len(lines)
      BY <1>1, <1>2
    <3> QED BY <1>1, <1>4, <2>2, <3>1, SplicedIs
  <2>4. /\ Len(ms) = cy + 0 + n - (cy + 1)
        /\ \A j \in 1 .. cy : ms[j] = lines[j]
        /\ \A j \in (cy + 1) + 1 .. n : ms[cy + 0 + j - (cy + 1)] = lines[j]
    BY <1>2, <2>1, <2>3 DEF FromSplice
  <2>5. Len(ms) = n - 1
    BY <1>1, <1>2, <2>4
  <2>6. ASSUME NEW j \in cy + 2 .. n PROVE ms[j - 1] = lines[j]
    <3>1. j \in (cy + 1) + 1 .. n /\ cy + 0 + j - (cy + 1) = j - 1
      BY <1>1, <1>2
    <3> QED BY <2>4, <3>1
  <2> QED BY <2>3, <2>4, <2>5, <2>6
<1>13. cy \in 1 .. Len(ms)
  BY <1>1, <1>2, <1>3, <1>12
<1>14. PICK js : js = [ms EXCEPT ![cy] = u]
  OBVIOUS
<1>15. Joined = js
  <2>1. ms[cy] = s
    BY <1>3, <1>5, <1>12
  <2>2. Joined = [ms EXCEPT ![cy] = ms[cy] \o t]
    BY <1>5, <1>10 DEF Joined, Line
  <2> QED BY <1>7, <1>14, <2>1, <2>2
<1>16. Buffer(js)
  BY <1>9, <1>11, <1>13, <1>14, BufferExcept
<1>17. /\ js \in Seq(Seq(Chars)) /\ Len(js) = n - 1
       /\ \A j \in 1 .. n - 1 : js[j] = IF j = cy THEN u ELSE ms[j]
  BY <1>8, <1>12, <1>13, <1>14, ExceptSeq
<1>18. PICK m \in Seq(Seq(Chars)) : m = <<u>> /\ Len(m) = 1 /\ m[1] = u
  <2>1. <<u>> \in Seq(Seq(Chars)) /\ Len(<<u>>) = 1 /\ <<u>>[1] = u
    BY <1>8
  <2> QED BY <2>1
<1>19. PICK p \in Nat : p = cy - 1 /\ p + 1 = cy
  BY <1>3
<1>20. FromSplice(js, lines, p, cy + 1, m)
  <2>1. Len(js) = p + Len(m) + Len(lines) - (cy + 1)
    <3>1. Len(js) = n - 1 /\ Len(m) = 1 /\ Len(lines) = n
      BY <1>2, <1>17, <1>18
    <3>2. n - 1 = p + 1 + n - (cy + 1)
      BY <1>1, <1>19
    <3> QED BY <3>1, <3>2
  <2>2. ASSUME NEW j \in 1 .. p PROVE js[j] = lines[j]
    <3>1. j \in 1 .. n - 1 /\ j # cy /\ j \in 1 .. cy
      BY <1>1, <1>2, <1>19
    <3> QED BY <1>12, <1>17, <3>1
  <2>3. ASSUME NEW j \in 1 .. 1 PROVE js[p + j] = m[j]
    <3>1. j = 1 /\ p + j = cy /\ cy \in 1 .. n - 1
      BY <1>12, <1>13, <1>19
    <3> QED BY <1>17, <1>18, <3>1
  <2>4. ASSUME NEW j \in (cy + 1) + 1 .. n PROVE js[p + 1 + j - (cy + 1)] = lines[j]
    <3>1. p + 1 + j - (cy + 1) = j - 1 /\ j - 1 \in 1 .. n - 1 /\ j - 1 # cy /\ j \in cy + 2 .. n
      BY <1>1, <1>2, <1>19
    <3>2. js[j - 1] = ms[j - 1]
      BY <1>17, <3>1
    <3>3. ms[j - 1] = lines[j]
      BY <1>12, <3>1
    <3> QED BY <3>1, <3>2, <3>3
  <2> QED BY <1>2, <1>18, <2>1, <2>2, <2>3, <2>4 DEF FromSplice
<1>21. js = Spliced(lines, p, cy + 1, m)
  <2>1. cy + 1 \in Nat /\ p <= cy + 1 /\ cy + 1 <= Len(lines)
    BY <1>1, <1>2, <1>19
  <2> QED BY <1>4, <1>17, <1>19, <1>20, <2>1, SplicedEqual
<1> QED BY <1>5, <1>7, <1>15, <1>16, <1>18, <1>19, <1>21

LEMMA OpenKeys ==
  ASSUME KInv, open_line(cy) \/ open_line(cy + 1)
  PROVE  (Moves \/ Edits) /\ Controls' /\ mode # "exited"
<1>1. Buffer(lines) /\ Placed /\ Controls
  BY DEF KInv
<1>2. /\ nlines \in Nat /\ cy \in Nat /\ cx \in Nat /\ cy < nlines
  BY <1>1, Here
<1>3. PICK at \in Nat : open_line(at) /\ at <= nlines
  BY <1>2
<1>4. /\ UNCHANGED <<loaded, fname, cmd>> /\ mode = "normal" /\ pend_d' = FALSE /\ pend_g' = FALSE
  BY <1>3 DEF open_line, NormalKey, Keep, Settle
<1>5. CASE nlines >= MaxL
  <2>1. Stay /\ mode' = "normal"
    BY <1>3, <1>5 DEF open_line, ToMode
  <2>2. Moves
    BY <1>2, <1>4, <2>1 DEF Moves, Stay
  <2>3. dirty' = dirty
    BY <2>1 DEF Stay, Move
  <2> QED BY <1>1, <1>4, <2>1, <2>2, <2>3 DEF Controls
<1>6. CASE ~(nlines >= MaxL)
  <2>1. Edit(InsertAt(lines, at + 1, <<>>), 0, at) /\ mode' = "insert"
    BY <1>3, <1>6 DEF open_line, ToMode
  <2>2. PICK ls : ls = InsertAt(lines, at + 1, <<>>)
    OBVIOUS
  <2>3. Len(lines) < MaxL /\ at <= Len(lines) /\ IsLine(<<>>)
    BY <1>2, <1>3, <1>6, Sizes, EmptyLine DEF nlines
  <2>4. Buffer(ls)
    BY <1>1, <1>3, <2>2, <2>3, InsertFits
  <2>5. 0 \in Int /\ at \in Int
    BY <1>3
  <2>6. Edits
    BY <1>4, <2>1, <2>2, <2>4, <2>5 DEF Edits
  <2>7. dirty' = TRUE
    BY <2>1 DEF Edit
  <2> QED BY <1>1, <1>4, <2>1, <2>6, <2>7 DEF Controls
<1> QED BY <1>5, <1>6

LEMMA DeleteKeys ==
  ASSUME KInv, key_del_char \/ key_d
  PROVE  (Moves \/ Edits) /\ Controls' /\ mode # "exited"
<1>1. Buffer(lines) /\ Placed /\ Controls
  BY DEF KInv
<1>2. /\ nlines \in Nat /\ cy \in Nat /\ cx \in Nat /\ cy < nlines /\ nlines >= 1 /\ cx \in Int /\ cy \in Int
      /\ 0 \in Int /\ len \in Nat
  BY <1>1, Here
<1>3. UNCHANGED <<loaded, fname, cmd>> /\ mode = "normal" /\ mode' = "normal"
  BY DEF key_del_char, key_d, NormalKey, Keep, ToMode
<1>4. (pend_d' = TRUE \/ pend_d' = FALSE) /\ (pend_g' = FALSE \/ pend_g' = pend_g)
  BY DEF key_del_char, key_d, Settle
<1>5. Stay \/ Edits
  <2>1. CASE key_del_char
    <3>1. CASE cx < len
      <4>1. Buffer(CharDeleted(cx))
        BY <1>1, <1>2, <3>1, CharDeletedFits
      <4>2. Edit(CharDeleted(cx), cx, cy)
        BY <2>1, <3>1 DEF key_del_char
      <4> QED BY <1>2, <1>3, <4>1, <4>2 DEF Edits
    <3>2. CASE ~(cx < len)
      BY <2>1, <3>2 DEF key_del_char
    <3> QED BY <3>1, <3>2
  <2>2. CASE key_d /\ ~pend_d
    BY <2>2 DEF key_d
  <2>3. CASE key_d /\ pend_d /\ nlines <= 1
    <3>1. Edit(<< <<>> >>, 0, cy)
      BY <2>3 DEF key_d, del_line
    <3>2. Buffer(<< <<>> >>)
      BY EmptyLine
    <3> QED BY <1>2, <1>3, <3>1, <3>2 DEF Edits
  <2>4. CASE key_d /\ pend_d /\ ~(nlines <= 1)
    <3>1. Edit(RemoveAt(lines, cy + 1), cx, cy)
      BY <2>4 DEF key_d, del_line
    <3>2. Len(lines) > 1 /\ cy < Len(lines)
      BY <1>2, <2>4 DEF nlines
    <3>3. Buffer(RemoveAt(lines, cy + 1))
      BY <1>1, <1>2, <3>2, RemoveFits
    <3> QED BY <1>2, <1>3, <3>1, <3>3 DEF Edits
  <2> QED BY <2>1, <2>2, <2>3, <2>4
<1>6. Stay => Moves
  BY <1>2, <1>3 DEF Moves, Stay
<1>7. dirty' = dirty \/ dirty' = TRUE
  BY <1>5 DEF Stay, Move, Edits, Edit
<1> QED BY <1>1, <1>3, <1>4, <1>5, <1>6, <1>7 DEF Controls

LEMMA InsertKeys ==
  ASSUME KInv, key_enter \/ key_backspace \/ \E c \in Chars : key_char(c)
  PROVE  (Moves \/ Edits) /\ Controls' /\ mode # "exited"
<1>1. Buffer(lines) /\ Placed /\ Controls
  BY DEF KInv
<1>2. /\ nlines \in Nat /\ cy \in Nat /\ cx \in Nat /\ cx <= len /\ cx \in Int /\ cy \in Int
      /\ 0 \in Int /\ len \in Nat /\ cx - 1 \in Int /\ cx + 1 \in Int /\ cy + 1 \in Int /\ cy - 1 \in Int
  BY <1>1, Here
<1>3. UNCHANGED <<loaded, fname, cmd, pend_d, pend_g>> /\ mode = "insert" /\ mode' = "insert"
  BY DEF key_enter, key_backspace, key_char, InsertKey, Keep, ToMode, pending
<1>5. Stay \/ Edits
  <2>1. CASE key_enter
    <3>1. CASE nlines >= MaxL
      BY <2>1, <3>1 DEF key_enter
    <3>2. CASE ~(nlines >= MaxL)
      <4>1. nlines < MaxL
        BY <1>2, <3>2, Sizes
      <4>2. Buffer(Broken)
        BY <1>1, <4>1, BrokenFits
      <4>3. Edit(Broken, 0, cy + 1)
        BY <2>1, <3>2 DEF key_enter
      <4> QED BY <1>2, <1>3, <4>2, <4>3 DEF Edits
    <3> QED BY <3>1, <3>2
  <2>2. CASE key_backspace
    <3>1. CASE cx > 0
      <4>1. cx - 1 \in Nat /\ cx - 1 < len
        BY <1>2, <3>1
      <4>2. Buffer(CharDeleted(cx - 1))
        BY <1>1, <4>1, CharDeletedFits
      <4>3. Edit(CharDeleted(cx - 1), cx - 1, cy)
        BY <2>2, <3>1 DEF key_backspace
      <4> QED BY <1>2, <1>3, <4>2, <4>3 DEF Edits
    <3>2. CASE ~(cx > 0) /\ cy > 0 /\ Len(Line(cy - 1)) + len < MaxC
      <4>1. Buffer(Joined)
        BY <1>1, <3>2, JoinedFits
      <4>2. Edit(Joined, Len(Line(cy - 1)), cy - 1)
        BY <2>2, <3>2 DEF key_backspace
      <4>3. Len(Line(cy - 1)) \in Int
        <5>1. cy - 1 + 1 \in 1 .. Len(lines)
          BY <1>1, <1>2, <3>2, Here DEF nlines
        <5>2. lines[cy - 1 + 1] \in Seq(Chars)
          BY <1>1, <5>1 DEF Buffer, IsLine
        <5>3. Len(lines[cy - 1 + 1]) \in Nat
          BY <5>2, LenProperties
        <5> QED BY <5>3 DEF Line
      <4> QED BY <1>2, <1>3, <4>1, <4>2, <4>3 DEF Edits
    <3>3. CASE ~(cx > 0) /\ ~(cy > 0 /\ Len(Line(cy - 1)) + len < MaxC)
      BY <2>2, <3>3 DEF key_backspace
    <3> QED BY <3>1, <3>2, <3>3
  <2>3. CASE \E c \in Chars : key_char(c)
    <3>1. PICK c \in Chars : key_char(c)
      BY <2>3
    <3>2. CASE HasRoom
      <4>1. PICK ls : ls = [lines EXCEPT ![cy + 1] = InsertAt(@, cx + 1, c)]
        OBVIOUS
      <4>2. Buffer(ls)
        BY <1>1, <3>2, <4>1, CharPutFits
      <4>3. Edit(ls, cx + 1, cy)
        BY <3>1, <3>2, <4>1 DEF key_char
      <4> QED BY <1>2, <1>3, <4>2, <4>3 DEF Edits
    <3>3. CASE ~HasRoom
      BY <3>1, <3>3 DEF key_char
    <3> QED BY <3>2, <3>3
  <2> QED BY <2>1, <2>2, <2>3
<1>6. Stay => Moves
  BY <1>2, <1>3 DEF Moves, Stay
<1>7. dirty' = dirty \/ dirty' = TRUE
  BY <1>5 DEF Stay, Move, Edits, Edit
<1> QED BY <1>1, <1>3, <1>5, <1>6, <1>7 DEF Controls

LEMMA CommandKeys ==
  ASSUME KInv, exec_cmd
  PROVE  (Moves \/ Leaves) /\ Controls' /\ mode # "exited"
<1>1. Buffer(lines) /\ Placed /\ Controls
  BY DEF KInv
<1>2. cy \in Int /\ cx \in Int
  BY <1>1, Here
<1>3. UNCHANGED <<loaded, cmd, pend_d, pend_g>> /\ mode = "cmd"
  BY DEF exec_cmd, CmdKey, pending
<1>4. Refuse => Moves /\ mode' = "normal" /\ dirty' = dirty
  BY <1>2, <1>3 DEF Refuse, Moves, Stay, Move
<1>5. \A name : do_save(name) => fname' = name /\ (Refuse \/ (dirty' = FALSE /\ Exit))
  BY DEF do_save
<1>6. /\ fname' \in {fname, "file", ""}
      /\ Refuse \/ (Exit /\ (dirty' = dirty \/ dirty' = FALSE))
  <2>1. CASE cmd = "w"
    <3>1. do_save(fname)
      BY <2>1 DEF exec_cmd
    <3> QED BY <1>5, <3>1
  <2>2. CASE cmd = "w file"
    <3>1. do_save("file")
      BY <2>2 DEF exec_cmd
    <3> QED BY <1>5, <3>1
  <2>3. CASE cmd = "w "
    <3>1. do_save("")
      BY <2>3 DEF exec_cmd
    <3> QED BY <1>5, <3>1
  <2>4. CASE cmd = "q"
    <3>1. NoSave /\ IF dirty THEN Refuse ELSE Exit /\ UNCHANGED dirty
      BY <2>4 DEF exec_cmd
    <3> QED BY <3>1, Zenon DEF NoSave
  <2>5. CASE cmd = "q!"
    <3>1. NoSave /\ Exit /\ UNCHANGED dirty
      BY <2>5 DEF exec_cmd
    <3> QED BY <3>1 DEF NoSave
  <2>6. CASE cmd \notin {"w", "w file", "w ", "q", "q!"}
    <3>1. NoSave /\ Refuse
      BY <2>6 DEF exec_cmd
    <3> QED BY <3>1 DEF NoSave
  <2> QED BY <2>1, <2>2, <2>3, <2>4, <2>5, <2>6
<1>7. Exit => mode' = "exited"
  BY DEF Exit
<1>8. Moves \/ Leaves
  BY <1>3, <1>4, <1>6 DEF Leaves
<1>9. Controls'
  BY <1>1, <1>3, <1>4, <1>6, <1>7 DEF Controls
<1> QED BY <1>3, <1>8, <1>9

LEMMA KeysAre ==
  ASSUME KInv, Next
  PROVE  start \/ ((Moves \/ Edits \/ Leaves) /\ Controls' /\ mode # "exited")
<1>1. CASE start
  BY <1>1
<1>2. CASE key_motion \/ key_insert \/ key_colon \/ key_g \/ key_escape \/ key_arrow
           \/ cmd_type \/ cmd_escape
  BY <1>2, MotionKeys
<1>3. CASE open_line(cy) \/ open_line(cy + 1)
  BY <1>3, OpenKeys
<1>4. CASE key_del_char \/ key_d
  BY <1>4, DeleteKeys
<1>5. CASE key_enter \/ key_backspace \/ \E c \in Chars : key_char(c)
  BY <1>5, InsertKeys
<1>6. CASE exec_cmd
  BY <1>6, CommandKeys
<1> QED BY <1>1, <1>2, <1>3, <1>4, <1>5, <1>6, Zenon DEF Next, normal_key, insert_key, cmd_key

\* A fresh program has loaded the file and shows its first line.
LEMMA Started ==
  ASSUME NEW f \in Files, NEW ls, ls = Load(f)
  PROVE  Buffer(ls) /\ Len(ls) - 1 \in Nat /\ Len(ls[1]) \in Nat
<1>1. Buffer(ls)
  BY LoadFits
<1>2. Len(ls) \in 1 .. MaxL /\ 1 \in 1 .. Len(ls)
  BY <1>1, Sizes DEF Buffer
<1>3. ls[1] \in Seq(Chars)
  BY <1>1, <1>2 DEF Buffer, IsLine
<1> QED BY <1>1, <1>2, <1>3, LenProperties, Sizes

LEMMA KeoStart == Init => KInv
<1> SUFFICES ASSUME Init PROVE KInv
  OBVIOUS
<1>1. PICK f \in Files : lines = Load(f) /\ loaded = f
  BY DEF Init
<1>2. cx = 0 /\ cy = 0 /\ top = 0
  BY DEF Init
<1>3. dirty = FALSE /\ mode = "normal" /\ cmd = "" /\ fname = "file" /\ pend_d = FALSE /\ pend_g = FALSE
  BY DEF Init
<1>4. Buffer(lines) /\ nlines - 1 \in Nat /\ Len(lines[1]) \in Nat
  BY <1>1, Started DEF nlines
<1>5. len = Len(lines[1])
  BY <1>2 DEF len, Line
<1>6. Placed
  BY <1>2, <1>4, <1>5, Sizes DEF Placed
<1>7. Controls
  BY <1>3 DEF Controls, Commands
<1>8. Clean
  BY <1>1 DEF Clean
<1> QED BY <1>1, <1>4, <1>6, <1>7, <1>8 DEF KInv

LEMMA KeoRestart == start => KInv'
<1> SUFFICES ASSUME start PROVE KInv'
  OBVIOUS
<1>1. PICK f \in Files : Start(f)
  BY DEF start
<1>2. lines' = Load(f) /\ loaded' = f /\ cx' = 0 /\ cy' = 0 /\ top' = 0
  BY <1>1 DEF Start
<1>3. dirty' = FALSE /\ mode' = "normal" /\ cmd' = "" /\ fname' = "file" /\ pend_d' = FALSE /\ pend_g' = FALSE
  BY <1>1 DEF Start
<1>4. Buffer(lines') /\ Len(lines') - 1 \in Nat /\ Len(lines'[1]) \in Nat
  BY <1>2, Started
<1>5. len' = Len(lines'[1]) /\ nlines' = Len(lines')
  BY <1>2 DEF len, Line, nlines
<1>6. Placed'
  BY <1>2, <1>4, <1>5, Sizes DEF Placed
<1>7. Controls'
  BY <1>3 DEF Controls, Commands
<1>8. Clean'
  BY <1>2 DEF Clean
<1> QED BY <1>2, <1>4, <1>6, <1>7, <1>8 DEF KInv

LEMMA KeoStep == KInv /\ [Next]_vars => KInv'
<1> SUFFICES ASSUME KInv, [Next]_vars PROVE KInv'
  OBVIOUS
<1>1. Buffer(lines) /\ Placed /\ top \in Nat /\ loaded \in Files
  BY Here DEF KInv
<1>2. CASE UNCHANGED vars
  <2>1. UNCHANGED <<lines, cx, cy, top, dirty, mode, cmd, fname, pend_d, pend_g, loaded>>
    BY <1>2 DEF vars, cursor, pending
  <2>2. Placed' <=> Placed
    BY <2>1 DEF Placed, nlines, len, Line
  <2>3. Controls' <=> Controls
    BY <2>1 DEF Controls
  <2>4. Clean' <=> Clean
    BY <2>1 DEF Clean
  <2> QED BY <2>1, <2>2, <2>3, <2>4 DEF KInv
<1>3. CASE start
  BY <1>3, KeoRestart
<1>4. CASE Controls' /\ mode # "exited" /\ Moves
  <2>1. PICK x \in Int, y \in Int : Move(x, y)
    BY <1>4 DEF Moves
  <2>2. Show(lines, x, y) /\ dirty' = dirty /\ loaded' = loaded
    BY <1>4, <2>1 DEF Move, Moves
  <2>3. Buffer(lines') /\ Placed' /\ lines' = lines
    BY <1>1, <2>2, ShowPlaces
  <2>4. Clean'
    BY <1>4, <2>2, <2>3 DEF Clean, KInv
  <2> QED BY <1>1, <1>4, <2>2, <2>3, <2>4 DEF KInv
<1>5. CASE Controls' /\ Edits
  <2>0. PICK ls : \E x, y \in Int : Buffer(ls) /\ Edit(ls, x, y)
    BY <1>5 DEF Edits
  <2>1. PICK x \in Int, y \in Int : Buffer(ls) /\ Edit(ls, x, y)
    BY <2>0
  <2>2. Show(ls, x, y) /\ dirty' = TRUE /\ loaded' = loaded
    BY <1>5, <2>1 DEF Edit, Edits
  <2>3. Buffer(lines') /\ Placed'
    BY <1>1, <2>1, <2>2, ShowPlaces
  <2>4. Clean'
    BY <2>2 DEF Clean
  <2> QED BY <1>1, <1>5, <2>2, <2>3, <2>4 DEF KInv
<1>6. CASE Controls' /\ Leaves
  <2>1. UNCHANGED <<lines, cx, cy, top, loaded>> /\ mode' = "exited"
    BY <1>6 DEF Leaves, Exit, cursor
  <2>2. Placed' <=> Placed
    BY <2>1 DEF Placed, nlines, len, Line
  <2>3. Clean'
    BY <2>1 DEF Clean
  <2> QED BY <1>1, <1>6, <2>1, <2>2, <2>3 DEF KInv
<1> QED BY <1>2, <1>3, <1>4, <1>5, <1>6, KeysAre

\* The inductive invariant of the editor: lines, cursor and window are inside
\* their arrays, and a buffer that is not marked dirty is what load made.
THEOREM KeoInductive == Spec => []KInv
BY KeoStart, KeoStep, PTL DEF Spec

\* save and load of user/keo.c: the arrays keep their bounds, and what is saved
\* from a buffer that is not full is loaded as the same lines.
THEOREM SavesWhatItLoads == Spec => []SaveLoadSame
<1>1. KInv => SaveLoadSame
  <2> SUFFICES ASSUME KInv PROVE SaveLoadSame
    OBVIOUS
  <2>1. Buffer(lines) /\ Placed /\ Controls
    BY DEF KInv
  <2>2. nlines \in 1 .. MaxL /\ \A i \in 1 .. nlines : lines[i] \in Seq(Chars) /\ Len(lines[i]) <= MaxC - 1
    BY <2>1 DEF Buffer, nlines, IsLine
  <2>3. {dirty, pend_d, pend_g} \subseteq BOOLEAN
    BY <2>1, Zenon DEF Controls
  <2>4. mode \in {"normal", "insert", "cmd", "exited"} /\ cmd \in Commands /\ fname \in {"file", ""}
    BY <2>1 DEF Controls
  <2>5. cy \in 0 .. nlines - 1 /\ cx \in 0 .. len /\ top \in 0 .. cy /\ cy <= top + TxtRows - 1
    BY <2>1 DEF Placed
  <2>6. TypeOK
    BY <2>2, <2>3, <2>4, <2>5, Zenon DEF TypeOK
  <2>7. nlines < MaxL => Load(Bytes(lines)) = lines
    BY <2>1, BufferComesBack DEF nlines
  <2> QED BY <2>6, <2>7 DEF SaveLoadSame
<1> QED BY <1>1, KeoInductive, PTL

\* The commands that leave user/keo.c: after w, wq or q the file holds the
\* text, or the text is still what was loaded.
THEOREM NothingIsLost == Spec => ExitLosesNothing
<1>1. KInv /\ [Next]_vars =>
        [mode' = "exited" /\ cmd # "q!" =>
           written' = Bytes(lines) \/ (written' = NoWrite /\ lines = Load(loaded))]_vars
  <2> SUFFICES ASSUME KInv, Next, mode' = "exited", cmd # "q!"
               PROVE  written' = Bytes(lines) \/ (written' = NoWrite /\ lines = Load(loaded))
    BY DEF vars
  <2>1. exec_cmd
    BY DEF Next, start, Start, normal_key, key_motion, key_insert, open_line, key_del_char, key_d, key_g,
           key_colon, insert_key, key_escape, key_arrow, key_enter, key_backspace, key_char, cmd_key,
           cmd_type, cmd_escape, ToMode
  <2>2. ~Refuse
    BY DEF Refuse
  <2>3. \A name : do_save(name) => written' = Bytes(lines)
    BY <2>2 DEF do_save
  <2>4. CASE cmd \in {"w", "w file", "w "}
    <3>1. \E name : do_save(name)
      BY <2>1, <2>4 DEF exec_cmd
    <3> QED BY <2>3, <3>1
  <2>5. CASE cmd = "q"
    <3>1. NoSave /\ IF dirty THEN Refuse ELSE Exit /\ UNCHANGED dirty
      BY <2>1, <2>5 DEF exec_cmd
    <3>2. ~dirty
      BY <2>2, <3>1
    <3>3. mode # "exited"
      BY <2>1 DEF exec_cmd, CmdKey
    <3> QED BY <3>1, <3>2, <3>3 DEF NoSave, KInv, Clean
  <2>6. CASE cmd \notin {"w", "w file", "w ", "q", "q!"}
    <3>1. Refuse
      BY <2>1, <2>6 DEF exec_cmd
    <3> QED BY <2>2, <3>1
  <2> QED BY <2>4, <2>5, <2>6
<1> QED BY <1>1, KeoInductive, PTL DEF Spec, ExitLosesNothing

-----------------------------------------------------------------------------
(* The text through the keys that only move it.                            *)

LEMMA OpenedText ==
  ASSUME Buffer(lines), NEW at \in Nat, at <= Len(lines)
  PROVE  FlattenSeq(InsertAt(lines, at + 1, <<>>)) = FlattenSeq(lines)
<1>1. lines \in Seq(Seq(Chars)) /\ <<>> \in Seq(Chars)
  BY EmptySeq DEF Buffer
<1>2. InsertAt(lines, at + 1, <<>>) = Spliced(lines, at, at, << <<>> >>)
  BY <1>1, InsertIsSplice
<1>3. PICK m \in Seq(Seq(Chars)) : m = << <<>> >>
  <2>1. << <<>> >> \in Seq(Seq(Chars))
    BY <1>1
  <2> QED BY <2>1
<1>4. FlattenSeq(m) = <<>>
  BY <1>1, <1>3, FlattenOne
<1>5. SubSeq(lines, at + 1, at) = <<>>
  <2>1. at + 1 \in Int /\ at \in Int /\ at < at + 1
    OBVIOUS
  <2> QED BY <2>1, SubSeqEmpty
<1>6. FlattenSeq(m) = FlattenSeq(SubSeq(lines, at + 1, at))
  BY <1>4, <1>5, FlattenEmpty
<1>7. at <= at
  OBVIOUS
<1>8. FlattenSeq(Spliced(lines, at, at, m)) = FlattenSeq(lines)
  BY <1>1, <1>6, <1>7, SplicedText
<1> QED BY <1>2, <1>3, <1>8

\* A subsequence of one element, and of two.
LEMMA ShortSubSeq ==
  ASSUME NEW S, NEW s \in Seq(S), NEW k \in Nat
  PROVE  /\ k + 1 <= Len(s) => SubSeq(s, k + 1, k + 1) = <<s[k + 1]>>
         /\ k + 2 <= Len(s) => SubSeq(s, k + 1, k + 2) = <<s[k + 1], s[k + 2]>>
<1>1. PICK n \in Nat : n = Len(s)
  BY LenProperties
<1>2. \A j \in 1 .. n : s[j] \in S
  BY <1>1, ElementOfSeq
<1>3. ASSUME k + 1 <= n PROVE SubSeq(s, k + 1, k + 1) = <<s[k + 1]>>
  <2>1. PICK r : r = SubSeq(s, k + 1, k + 1)
    OBVIOUS
  <2>2. k + 1 \in Int /\ \A j \in k + 1 .. k + 1 : s[j] \in S
    BY <1>2, <1>3
  <2>3. /\ r \in Seq(S) /\ Len(r) = IF k + 1 <= k + 1 THEN (k + 1) - (k + 1) + 1 ELSE 0
        /\ \A j \in 1 .. (k + 1) - (k + 1) + 1 : r[j] = s[(k + 1) + j - 1]
    BY <2>1, <2>2, SubSeqProperties
  <2>4. Len(r) = 1 /\ r[1] = s[k + 1]
    <3>1. (k + 1) - (k + 1) + 1 = 1 /\ (k + 1) + 1 - 1 = k + 1
      OBVIOUS
    <3>2. Len(r) = 1
      BY <2>3, <3>1
    <3>3. r[1] = s[(k + 1) + 1 - 1]
      BY <2>3, <3>1
    <3> QED BY <3>1, <3>2, <3>3
  <2>5. PICK t \in Seq(S) : t = <<s[k + 1]>> /\ Len(t) = 1 /\ t[1] = s[k + 1]
    <3>1. s[k + 1] \in S
      BY <2>2
    <3>2. <<s[k + 1]>> \in Seq(S)
      BY <3>1
    <3> QED BY <3>2
  <2>6. r = t
    BY <2>3, <2>4, <2>5, SeqEqual
  <2> QED BY <2>1, <2>5, <2>6
<1>4. ASSUME k + 2 <= n PROVE SubSeq(s, k + 1, k + 2) = <<s[k + 1], s[k + 2]>>
  <2>1. PICK r : r = SubSeq(s, k + 1, k + 2)
    OBVIOUS
  <2>2. k + 1 \in Int /\ k + 2 \in Int /\ \A j \in k + 1 .. k + 2 : s[j] \in S
    BY <1>2, <1>4
  <2>3. /\ r \in Seq(S) /\ Len(r) = IF k + 1 <= k + 2 THEN (k + 2) - (k + 1) + 1 ELSE 0
        /\ \A j \in 1 .. (k + 2) - (k + 1) + 1 : r[j] = s[(k + 1) + j - 1]
    <3>1. r = SubSeq(s, k + 1, k + 2) /\ \A j \in k + 1 .. k + 2 : s[j] \in S
      BY <2>1, <2>2
    <3>2. PICK a \in Int, b \in Int : a = k + 1 /\ b = k + 2
      BY <2>2
    <3>3. /\ r \in Seq(S) /\ Len(r) = IF a <= b THEN b - a + 1 ELSE 0
          /\ \A j \in 1 .. b - a + 1 : r[j] = s[a + j - 1]
      BY <3>1, <3>2, SubSeqProperties
    <3> QED BY <3>2, <3>3
  <2>4. Len(r) = 2 /\ r[1] = s[k + 1] /\ r[2] = s[k + 2]
    <3>1. /\ k + 1 <= k + 2 /\ (k + 2) - (k + 1) + 1 = 2 /\ (k + 1) + 1 - 1 = k + 1
          /\ (k + 1) + 2 - 1 = k + 2
      OBVIOUS
    <3>2. Len(r) = 2 /\ \A j \in 1 .. 2 : r[j] = s[(k + 1) + j - 1]
      BY <2>3, <3>1
    <3>3. r[1] = s[(k + 1) + 1 - 1] /\ r[2] = s[(k + 1) + 2 - 1]
      BY <3>2
    <3> QED BY <3>1, <3>2, <3>3
  <2>5. PICK a \in S, b \in S : a = s[k + 1] /\ b = s[k + 2]
    BY <2>2
  <2>6. PICK t \in Seq(S) : t = <<a, b>> /\ Len(t) = 2 /\ t[1] = a /\ t[2] = b
    <3>1. <<a, b>> \in Seq(S)
      BY <2>5
    <3> QED BY <3>1
  <2>7. Len(r) = Len(t) /\ \A i \in 1 .. Len(r) : r[i] = t[i]
    BY <2>4, <2>5, <2>6
  <2>8. r = t
    BY <2>3, <2>6, <2>7, SeqEqual
  <2> QED BY <2>1, <2>5, <2>6, <2>8
<1> QED BY <1>1, <1>3, <1>4

LEMMA BrokenText ==
  ASSUME Buffer(lines), Placed, nlines < MaxL
  PROVE  FlattenSeq(Broken) = FlattenSeq(lines)
<1>1. cy \in Nat /\ cy + 1 \in 1 .. Len(lines) /\ cy + 1 <= Len(lines) /\ IsLine(lines[cy + 1])
  BY Here DEF nlines
<1>2. lines \in Seq(Seq(Chars)) /\ lines[cy + 1] \in Seq(Chars)
  BY <1>1 DEF Buffer, IsLine
<1>3. Head2 \in Seq(Chars) /\ Tail2 \in Seq(Chars) /\ Head2 \o Tail2 = lines[cy + 1]
  BY Halves DEF IsLine
<1>4. PICK m \in Seq(Seq(Chars)) : m = <<Head2, Tail2>>
  <2>1. <<Head2, Tail2>> \in Seq(Seq(Chars))
    BY <1>3
  <2> QED BY <2>1
<1>5. FlattenSeq(m) = lines[cy + 1]
  BY <1>3, <1>4, FlattenTwo
<1>6. SubSeq(lines, cy + 1, cy + 1) = <<lines[cy + 1]>>
  BY <1>1, <1>2, ShortSubSeq
<1>7. FlattenSeq(<<lines[cy + 1]>>) = lines[cy + 1]
  BY <1>2, FlattenOne
<1>8. FlattenSeq(m) = FlattenSeq(SubSeq(lines, cy + 1, cy + 1))
  BY <1>5, <1>6, <1>7
<1>9. cy + 1 \in Nat /\ cy <= cy + 1
  BY <1>1
<1>10. FlattenSeq(Spliced(lines, cy, cy + 1, m)) = FlattenSeq(lines)
  BY <1>1, <1>2, <1>8, <1>9, SplicedText
<1>11. Broken = Spliced(lines, cy, cy + 1, m)
  BY <1>4, BrokenFits
<1> QED BY <1>10, <1>11

LEMMA JoinedText ==
  ASSUME Buffer(lines), Placed, cy > 0, Len(Line(cy - 1)) + len < MaxC
  PROVE  FlattenSeq(Joined) = FlattenSeq(lines)
<1>1. cy \in Nat /\ cy + 1 <= Len(lines) /\ cy + 1 \in Nat
  BY Here DEF nlines
<1>2. PICK p \in Nat : p = cy - 1 /\ p + 1 = cy /\ p + 2 = cy + 1
  <2>1. cy - 1 \in Nat
    BY <1>1
  <2> QED BY <1>1, <2>1
<1>3. lines \in Seq(Seq(Chars))
  BY DEF Buffer
<1>4. PICK s \in Seq(Chars), t \in Seq(Chars) : s = lines[cy] /\ t = lines[cy + 1]
  BY JoinedFits
<1>5. PICK u : u = s \o t
  OBVIOUS
<1>6. u \in Seq(Chars)
  BY <1>5, ConcatProperties
<1>7. PICK m \in Seq(Seq(Chars)) : m = <<u>>
  <2>1. <<u>> \in Seq(Seq(Chars))
    BY <1>6
  <2> QED BY <2>1
<1>8. FlattenSeq(m) = u
  BY <1>6, <1>7, FlattenOne
<1>9. SubSeq(lines, p + 1, p + 2) = <<lines[p + 1], lines[p + 2]>>
  <2>1. p + 2 <= Len(lines)
    BY <1>1, <1>2
  <2> QED BY <1>2, <1>3, <2>1, ShortSubSeq
<1>10. SubSeq(lines, p + 1, cy + 1) = <<s, t>>
  BY <1>2, <1>4, <1>9
<1>11. FlattenSeq(<<s, t>>) = u
  BY <1>5, FlattenTwo
<1>12. FlattenSeq(m) = FlattenSeq(SubSeq(lines, p + 1, cy + 1))
  BY <1>8, <1>10, <1>11
<1>13. p <= cy + 1
  BY <1>1, <1>2
<1>14. FlattenSeq(Spliced(lines, p, cy + 1, m)) = FlattenSeq(lines)
  BY <1>1, <1>2, <1>3, <1>12, <1>13, SplicedText
<1>15. Joined = Spliced(lines, p, cy + 1, m)
  BY <1>2, <1>4, <1>5, <1>7, JoinedFits
<1> QED BY <1>14, <1>15

\* Moving, opening, breaking and joining lines in user/keo.c keep every
\* character in its order, whether or not there was room.
THEOREM TextIsKept == Spec => TextKept
<1>1. KInv /\ [Next]_vars => [KeepsText => Text(lines') = Text(lines)]_vars
  <2> SUFFICES ASSUME KInv, KeepsText PROVE FlattenSeq(lines') = FlattenSeq(lines)
    BY DEF vars, Text
  <2>1. Buffer(lines) /\ Placed
    BY DEF KInv
  <2>2. cy \in Nat /\ cx \in Nat /\ nlines \in Nat /\ cy < nlines
    BY <2>1, Here
  <2>3. \A x, y : Move(x, y) => lines' = lines
    BY DEF Move, Show
  <2>4. Stay => lines' = lines
    BY <2>3 DEF Stay
  <2>5. CASE key_motion \/ key_insert \/ key_arrow \/ key_colon \/ key_g \/ key_escape \/ cmd_escape
    <3>1. Moves
      BY <2>5, MotionKeys
    <3> QED BY <2>3, <3>1 DEF Moves
  <2>6. CASE open_line(cy) \/ open_line(cy + 1)
    <3>1. PICK at \in Nat : open_line(at) /\ at <= Len(lines)
      BY <2>2, <2>6 DEF nlines
    <3>2. Stay \/ lines' = InsertAt(lines, at + 1, <<>>)
      BY <3>1 DEF open_line, Edit, Show
    <3> QED BY <2>1, <2>4, <3>1, <3>2, OpenedText
  <2>7. CASE key_enter
    <3>1. CASE nlines >= MaxL
      BY <2>4, <2>7, <3>1 DEF key_enter
    <3>2. CASE ~(nlines >= MaxL)
      <4>1. nlines < MaxL
        BY <2>2, <3>2, Sizes
      <4>2. lines' = Broken
        BY <2>7, <3>2 DEF key_enter, Edit, Show
      <4> QED BY <2>1, <4>1, <4>2, BrokenText
    <3> QED BY <3>1, <3>2
  <2>8. CASE key_backspace /\ cx = 0
    <3>1. ~(cx > 0)
      BY <2>8
    <3>2. CASE cy > 0 /\ Len(Line(cy - 1)) + len < MaxC
      <4>1. lines' = Joined
        BY <2>8, <3>1, <3>2 DEF key_backspace, Edit, Show
      <4> QED BY <2>1, <3>2, <4>1, JoinedText
    <3>3. CASE ~(cy > 0 /\ Len(Line(cy - 1)) + len < MaxC)
      BY <2>4, <2>8, <3>1, <3>3 DEF key_backspace
    <3> QED BY <3>2, <3>3
  <2> QED BY <2>5, <2>6, <2>7, <2>8 DEF KeepsText
<1> QED BY <1>1, KeoInductive, PTL DEF Spec, TextKept
=============================================================================
