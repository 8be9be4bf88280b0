--------------------------- MODULE CommandsProofs ---------------------------
(***************************************************************************)
(* For every volume, path length, partition table and alphabet: in the     *)
(* sessions of module Commands paths lead where they mean to lead, what is *)
(* saved is found again, the partition that is mounted is the one whose    *)
(* index was typed, the list of partitions is true, and the calculator     *)
(* shows what an expression means.                                         *)
(***************************************************************************)
EXTENDS Commands, ScreenProofs

(* Recursions.                                                             *)

\* A recursion over 0 .. n has a solution.
Solves(f, n, V, a, h) ==
  f \in [0 .. n -> V] /\ f[0] = a /\ \A k \in 1 .. n : f[k] = h[<<k, f[k - 1]>>]

\* There is one.
LEMMA RecursionExists ==
  ASSUME NEW n \in Nat, NEW V, NEW a \in V, NEW h \in [(1 .. n) \X V -> V]
  PROVE  \E f : Solves(f, n, V, a, h)
<1> DEFINE P(f, m) == f \in [0 .. m -> V] /\ f[0] = a /\ \A k \in 1 .. m : f[k] = h[<<k, f[k - 1]>>]
           T == {m \in Nat : m <= n => \E f : P(f, m)}
<1>1. 0 \in T
  <2>1. P([k \in 0 .. 0 |-> a], 0)
    OBVIOUS
  <2> QED BY <2>1
<1>2. ASSUME NEW m \in Nat, m \in T PROVE m + 1 \in T
  <2> SUFFICES ASSUME m + 1 <= n PROVE \E f : P(f, m + 1)
    OBVIOUS
  <2>1. PICK f : P(f, m)
    BY <1>2
  <2>2. m \in 0 .. m /\ m + 1 \in 1 .. n
    OBVIOUS
  <2>3. PICK v : v = h[<<m + 1, f[m]>>]
    OBVIOUS
  <2>4. f[m] \in V /\ v \in V
    BY <2>1, <2>2, <2>3
  <2>5. PICK g : g = [k \in 0 .. m + 1 |-> IF k = m + 1 THEN v ELSE f[k]]
    OBVIOUS
  <2>6. g \in [0 .. m + 1 -> V]
    BY <2>1, <2>4, <2>5
  <2>7. g[0] = a
    BY <2>1, <2>5
  <2>8. ASSUME NEW k \in 1 .. m + 1 PROVE g[k] = h[<<k, g[k - 1]>>]
    <3>1. CASE k = m + 1
      <4>1. g[k] = v /\ g[k - 1] = f[m]
        BY <2>5, <3>1
      <4> QED BY <2>3, <3>1, <4>1
    <3>2. CASE k # m + 1
      <4>1. k \in 1 .. m /\ g[k] = f[k] /\ g[k - 1] = f[k - 1]
        BY <2>5, <3>2
      <4> QED BY <2>1, <4>1
    <3> QED BY <3>1, <3>2
  <2> QED BY <2>6, <2>7, <2>8
<1>3. Nat \subseteq T
  <2> HIDE DEF T
  <2> QED BY <1>1, <1>2, InductionOnSet
<1>4. PICK f : P(f, n)
  BY <1>3
<1> QED BY <1>4 DEF Solves

\* The function that a recursive definition chooses is such a solution.
LEMMA RecursionSolved ==
  ASSUME NEW n \in Nat, NEW V, NEW a \in V, NEW h \in [(1 .. n) \X V -> V], NEW g,
         g = [k \in 0 .. n |-> g[k]], g[0] = a,
         \A k \in 1 .. n : g[k - 1] \in V => g[k] = h[<<k, g[k - 1]>>]
  PROVE  Solves(g, n, V, a, h)
<1> DEFINE T == {k \in Nat : k <= n => g[k] \in V}
<1>1. 0 \in T
  OBVIOUS
<1>2. ASSUME NEW k \in Nat, k \in T PROVE k + 1 \in T
  <2> SUFFICES ASSUME k + 1 <= n PROVE g[k + 1] \in V
    OBVIOUS
  <2>1. g[k] \in V /\ k + 1 \in 1 .. n /\ (k + 1) - 1 = k
    BY <1>2
  <2>2. g[k + 1] = h[<<k + 1, g[k]>>]
    BY <2>1
  <2>3. <<k + 1, g[k]>> \in (1 .. n) \X V
    BY <2>1
  <2> QED BY <2>2, <2>3
<1>3. Nat \subseteq T
  <2> HIDE DEF T
  <2> QED BY <1>1, <1>2, InductionOnSet
<1>4. \A k \in 0 .. n : g[k] \in V
  BY <1>3
<1>5. g \in [0 .. n -> V]
  BY <1>4
<1>6. ASSUME NEW k \in 1 .. n PROVE g[k] = h[<<k, g[k - 1]>>]
  <2>1. k - 1 \in 0 .. n
    OBVIOUS
  <2> QED BY <1>4, <2>1
<1> QED BY <1>5, <1>6 DEF Solves
-----------------------------------------------------------------------------
(* The file commands.                                                      *)

\* The characters of the strings that abspath makes.
Tokens == Names \cup {Slash}

\* What abspath makes: a slash in front, no second one there, and no name
\* without a slash in front of it.
Strings ==
  {s \in Seq(Tokens) : /\ Len(s) > 0 /\ s[1] = Slash /\ (Len(s) > 1 => s[2] # Slash)
                       /\ \A i \in 2 .. Len(s) : s[i] # Slash => s[i - 1] = Slash}

\* No name is a slash or one of the components that abspath treats apart.
LEMMA TokenFacts ==
  /\ Slash \notin Names /\ Nothing \notin Names /\ Dot \notin Names /\ DotDot \notin Names
  /\ TooLong \notin Names /\ Bad \notin Strings
  /\ Slash # Nothing /\ Slash # Dot /\ Slash # DotDot
  /\ DotDot \notin {Nothing, Dot} /\ TooLong \notin {Nothing, Dot, DotDot}
<1>1. Bad[1] # Slash
  BY DEF Bad, Slash, NoExt
<1>2. Bad \notin Strings
  BY <1>1 DEF Strings
<1>3. Slash # Nothing /\ Slash # Dot /\ Slash # DotDot /\ DotDot \notin {Nothing, Dot} /\ TooLong \notin {Nothing, Dot, DotDot}
  BY DEF Slash, Nothing, Dot, DotDot, NoExt, TooLong, Long
<1> QED BY <1>2, <1>3, FatPathAssumption

\* A set of indices that is not empty has a largest one, as the loop back to
\* the last slash in abspath needs.
LEMMA MaxExists ==
  ASSUME NEW n \in Nat, NEW S, S \subseteq 1 .. n, S # {}
  PROVE  \E m \in S : \A k \in S : k <= m
<1> DEFINE T == {i \in Nat : \A U : U \subseteq 1 .. i /\ U # {} => \E m \in U : \A k \in U : k <= m}
<1>1. 0 \in T
  OBVIOUS
<1>2. ASSUME NEW i \in Nat, i \in T PROVE i + 1 \in T
  <2> SUFFICES ASSUME NEW U, U \subseteq 1 .. i + 1, U # {} PROVE \E m \in U : \A k \in U : k <= m
    OBVIOUS
  <2>1. CASE i + 1 \in U
    BY <2>1
  <2>2. CASE i + 1 \notin U
    <3>1. U \subseteq 1 .. i
      BY <2>2
    <3> QED BY <1>2, <3>1
  <2> QED BY <2>1, <2>2
<1>3. Nat \subseteq T
  <2> HIDE DEF T
  <2> QED BY <1>1, <1>2, InductionOnSet
<1> QED BY <1>3

\* A string is "/" or longer.
LEMMA Positive == \A n \in Nat : n > 0 => n = 1 \/ n > 1
  OBVIOUS

\* A string cut at a slash, or behind one, is a string of abspath again.
LEMMA PrefixString ==
  ASSUME NEW s \in Strings, NEW n \in 1 .. Len(s)
  PROVE  SubSeq(s, 1, n) \in Strings
<1>1. s \in Seq(Tokens) /\ Len(s) \in Nat /\ Len(s) > 0 /\ s[1] = Slash /\ (Len(s) > 1 => s[2] # Slash)
      /\ \A i \in 2 .. Len(s) : s[i] # Slash => s[i - 1] = Slash
  BY DEF Strings
<1>2. PICK t : t = SubSeq(s, 1, n)
  OBVIOUS
<1>3. t \in Seq(Tokens) /\ Len(t) = n /\ n \in Nat /\ \A i \in 1 .. n : t[i] = s[i]
  BY <1>1, <1>2
<1>4. Len(t) > 0 /\ t[1] = Slash /\ (Len(t) > 1 => t[2] # Slash)
  BY <1>1, <1>3
<1>5. ASSUME NEW i \in 2 .. Len(t), t[i] # Slash PROVE t[i - 1] = Slash
  <2>1. i \in 2 .. Len(s) /\ t[i] = s[i] /\ t[i - 1] = s[i - 1]
    BY <1>1, <1>3
  <2> QED BY <1>1, <1>5, <2>1
<1> QED BY <1>2, <1>3, <1>4, <1>5 DEF Strings

\* The slash that abspath puts behind the working directory.
LEMMA SeparatedString ==
  ASSUME NEW s \in Strings
  PROVE  /\ Separated(s) \in Strings
         /\ Len(Separated(s)) \in {Len(s), Len(s) + 1}
         /\ Separated(s)[Len(Separated(s))] = Slash
         /\ \A i \in 1 .. Len(s) : Separated(s)[i] = s[i]
<1>1. s \in Seq(Tokens) /\ Len(s) \in Nat /\ Len(s) > 0 /\ s[1] = Slash /\ (Len(s) > 1 => s[2] # Slash)
      /\ \A i \in 2 .. Len(s) : s[i] # Slash => s[i - 1] = Slash
  BY DEF Strings
<1>2. CASE Len(s) > 1
  <2>1. PICK t : t = Append(s, Slash)
    OBVIOUS
  <2>2. t \in Seq(Tokens) /\ Len(t) = Len(s) + 1 /\ t[Len(s) + 1] = Slash /\ \A i \in 1 .. Len(s) : t[i] = s[i]
    BY <1>1, <2>1 DEF Tokens
  <2>3. ASSUME NEW i \in 2 .. Len(t), t[i] # Slash PROVE t[i - 1] = Slash
    <3>1. i \in 2 .. Len(s) /\ t[i] = s[i] /\ t[i - 1] = s[i - 1]
      BY <1>1, <2>2, <2>3
    <3> QED BY <1>1, <2>3, <3>1
  <2>4. t \in Strings
    BY <1>1, <1>2, <2>2, <2>3 DEF Strings
  <2>5. Separated(s) = t
    BY <1>2, <2>1 DEF Separated
  <2> QED BY <2>2, <2>4, <2>5
<1>3. CASE ~(Len(s) > 1)
  <2>1. Separated(s) = s
    BY <1>3 DEF Separated
  <2>2. Len(s) = 1
    <3>1. Len(s) \in Nat /\ Len(s) > 0
      BY <1>1
    <3> QED BY <1>3, <3>1, Positive, Zenon
  <2> QED BY <1>1, <2>1, <2>2
<1> QED BY <1>2, <1>3

\* A name behind a string, with its slash.
LEMMA JoinString ==
  ASSUME NEW s \in Strings, NEW c \in Names
  PROVE  /\ Append(Separated(s), c) \in Strings
         /\ Len(Append(Separated(s), c)) = Len(Separated(s)) + 1
<1>1. PICK t : t = Separated(s)
  OBVIOUS
<1>2. t \in Strings /\ t[Len(t)] = Slash
  BY <1>1, SeparatedString
<1>3. t \in Seq(Tokens) /\ Len(t) \in Nat /\ Len(t) > 0 /\ t[1] = Slash /\ (Len(t) > 1 => t[2] # Slash)
      /\ \A i \in 2 .. Len(t) : t[i] # Slash => t[i - 1] = Slash
  BY <1>2 DEF Strings
<1>4. PICK u : u = Append(t, c)
  OBVIOUS
<1>5. u \in Seq(Tokens) /\ Len(u) = Len(t) + 1 /\ u[Len(t) + 1] = c /\ \A i \in 1 .. Len(t) : u[i] = t[i]
  BY <1>3, <1>4 DEF Tokens
<1>6. u[1] = Slash /\ u[2] # Slash
  <2>1. CASE Len(t) = 1
    BY <1>3, <1>5, <2>1, TokenFacts
  <2>2. CASE Len(t) > 1
    BY <1>3, <1>5, <2>2
  <2>3. Len(t) \in Nat /\ Len(t) > 0
    BY <1>3
  <2> QED BY <2>1, <2>2, <2>3, Positive, Zenon
<1>7. ASSUME NEW i \in 2 .. Len(u), u[i] # Slash PROVE u[i - 1] = Slash
  <2>1. CASE i = Len(u)
    BY <1>2, <1>3, <1>5, <2>1
  <2>2. CASE i # Len(u)
    <3>1. i \in 2 .. Len(t) /\ u[i] = t[i] /\ u[i - 1] = t[i - 1]
      BY <1>3, <1>5, <2>2
    <3> QED BY <1>3, <1>7, <3>1
  <2> QED BY <2>1, <2>2
<1>8. u \in Strings
  BY <1>3, <1>5, <1>6, <1>7 DEF Strings
<1> QED BY <1>1, <1>4, <1>5, <1>8

\* Where ".." cuts a string.
LEMMA UpCut ==
  ASSUME NEW s \in Strings
  PROVE  \E n \in 1 .. Len(s) :
            /\ n = 1 \/ s[n] = Slash
            /\ \A m \in 1 .. Len(s) : (m = 1 \/ s[m] = Slash) => m <= n
            /\ Up(s) = SubSeq(s, 1, IF n > 1 THEN n - 1 ELSE 1)
<1>1. s \in Seq(Tokens) /\ Len(s) > 0 /\ Len(s) \in Nat
  BY DEF Strings
<1> DEFINE keep == {n \in 1 .. Len(s) : n = 1 \/ s[n] = Slash}
           last == CHOOSE n \in keep : \A m \in keep : m <= n
<1>2. keep \subseteq 1 .. Len(s) /\ 1 \in keep
  BY <1>1
<1>3. last \in keep /\ \A m \in keep : m <= last
  <2>1. \E n \in keep : \A m \in keep : m <= n
    <3> HIDE DEF keep
    <3> QED BY <1>1, <1>2, MaxExists
  <2> HIDE DEF keep
  <2> QED BY <2>1
<1>4. Up(s) = SubSeq(s, 1, IF last > 1 THEN last - 1 ELSE 1)
  BY DEF Up
<1> HIDE DEF last
<1> QED BY <1>3, <1>4

\* What ".." leaves is a string of abspath again.
LEMMA UpString ==
  ASSUME NEW s \in Strings
  PROVE  /\ Up(s) \in Strings /\ Len(Up(s)) \in 1 .. Len(s)
         /\ Len(s) > 1 => Len(Up(s)) < Len(s)
<1>1. PICK n \in 1 .. Len(s) : Up(s) = SubSeq(s, 1, IF n > 1 THEN n - 1 ELSE 1)
  BY UpCut
<1>2. PICK m : m = IF n > 1 THEN n - 1 ELSE 1
  OBVIOUS
<1>3. s \in Seq(Tokens) /\ Len(s) \in Nat /\ Len(s) > 0
  BY DEF Strings
<1>4. m \in 1 .. Len(s) /\ (Len(s) > 1 => m < Len(s))
  BY <1>2, <1>3
<1>5. Up(s) = SubSeq(s, 1, m)
  BY <1>1, <1>2
<1>6. Len(SubSeq(s, 1, m)) = m
  BY <1>3, <1>4
<1>7. SubSeq(s, 1, m) \in Strings
  BY <1>4, PrefixString
<1> QED BY <1>4, <1>5, <1>6, <1>7

\* ".." takes back the name that was joined last.
LEMMA UpJoin ==
  ASSUME NEW s \in Strings, NEW c \in Names
  PROVE  Up(Append(Separated(s), c)) = s
<1>1. PICK t : t = Separated(s)
  OBVIOUS
<1>2. PICK u : u = Append(t, c)
  OBVIOUS
<1>3. t \in Strings /\ u \in Strings /\ t[Len(t)] = Slash /\ \A i \in 1 .. Len(s) : t[i] = s[i]
  BY <1>1, <1>2, SeparatedString, JoinString
<1>4. s \in Seq(Tokens) /\ Len(s) \in Nat /\ Len(s) > 0 /\ t \in Seq(Tokens) /\ Len(t) \in Nat
  BY <1>3 DEF Strings
<1>5. Len(t) = IF Len(s) > 1 THEN Len(s) + 1 ELSE 1
  BY <1>1, <1>4 DEF Separated
<1>6. c \in Tokens /\ c # Slash
  BY TokenFacts DEF Tokens
<1>7. u \in Seq(Tokens) /\ Len(u) = Len(t) + 1 /\ u[Len(t) + 1] = c /\ \A i \in 1 .. Len(t) : u[i] = t[i]
  BY <1>2, <1>4, <1>6
<1>8. PICK n \in 1 .. Len(u) :
            /\ n = 1 \/ u[n] = Slash
            /\ \A m \in 1 .. Len(u) : (m = 1 \/ u[m] = Slash) => m <= n
            /\ Up(u) = SubSeq(u, 1, IF n > 1 THEN n - 1 ELSE 1)
  BY <1>3, UpCut
<1>9. n = Len(t)
  <2>1. Len(t) > 0 /\ u[Len(t)] = Slash
    BY <1>3, <1>4, <1>5, <1>7
  <2>2. Len(t) <= n
    BY <1>4, <1>7, <1>8, <2>1
  <2>3. n # Len(t) + 1
    BY <1>4, <1>6, <1>7, <1>8, <2>1
  <2> QED BY <1>4, <1>7, <2>2, <2>3
<1>10. Up(u) = SubSeq(u, 1, Len(s))
  BY <1>4, <1>5, <1>8, <1>9
<1>11. \A i \in 1 .. Len(s) : u[i] = s[i]
  BY <1>3, <1>4, <1>5, <1>7
<1>12. SubSeq(u, 1, Len(s)) = s
  <2>1. PICK w : w = SubSeq(u, 1, Len(s))
    OBVIOUS
  <2>2. Len(s) <= Len(u)
    BY <1>4, <1>5, <1>7
  <2>3. w \in Seq(Tokens) /\ Len(w) = Len(s) /\ \A i \in 1 .. Len(s) : w[i] = u[i]
    BY <1>4, <1>7, <2>1, <2>2
  <2>4. \A i \in 1 .. Len(s) : w[i] = s[i]
    BY <1>11, <2>3
  <2>5. w = s
    BY <1>4, <2>3, <2>4, SeqEqual
  <2> QED BY <2>1, <2>5
<1> QED BY <1>1, <1>2, <1>10, <1>12

\* What abspath may have so far.
PathStrings == Strings \cup {Bad}

\* Every component keeps the form of the string.
LEMMA JoinedString ==
  ASSUME NEW str \in PathStrings, NEW c \in Components
  PROVE  /\ Joined(str, c) \in PathStrings
         /\ str = Bad => Joined(str, c) = Bad
         /\ Joined(str, c) # Bad =>
              CASE c \in {Nothing, Dot} -> Joined(str, c) = str
                [] c = DotDot -> Joined(str, c) = Up(str)
                [] OTHER -> /\ c \in Names /\ Joined(str, c) = Append(Separated(str), c)
                            /\ Len(Separated(str)) + 1 < PathMax
<1>1. CASE str = Bad \/ c = TooLong
  BY <1>1 DEF Joined, PathStrings
<1>2. CASE ~(str = Bad \/ c = TooLong)
  <2>1. str \in Strings /\ str # Bad /\ c # TooLong
    BY <1>2 DEF PathStrings
  <2>2. CASE c \in {Nothing, Dot}
    <3>1. Joined(str, c) = str
      BY <2>1, <2>2, TokenFacts DEF Joined
    <3> QED BY <2>1, <2>2, <3>1, TokenFacts DEF PathStrings
  <2>3. CASE c = DotDot
    <3>1. c \notin {Nothing, Dot}
      BY <2>3, TokenFacts
    <3>2. Joined(str, c) = Up(str)
      BY <2>1, <2>3, <3>1 DEF Joined
    <3>3. Up(str) \in Strings
      BY <2>1, UpString
    <3> QED BY <2>1, <2>3, <3>1, <3>2, <3>3 DEF PathStrings
  <2>4. CASE c \notin {Nothing, Dot, DotDot}
    <3>1. c \in Names
      BY <2>1, <2>4 DEF Components
    <3>2. Joined(str, c) = IF Len(Separated(str)) + 1 >= PathMax THEN Bad ELSE Append(Separated(str), c)
      BY <2>1, <2>4 DEF Joined
    <3>3. Append(Separated(str), c) \in Strings /\ Separated(str) \in Strings
      BY <2>1, <3>1, JoinString, SeparatedString
    <3>4. PathMax \in Nat
      BY FatPathAssumption
    <3>5. CASE Len(Separated(str)) + 1 >= PathMax
      BY <2>1, <3>2, <3>5 DEF PathStrings
    <3>6. CASE ~(Len(Separated(str)) + 1 >= PathMax)
      <4>1. Joined(str, c) = Append(Separated(str), c)
        BY <3>2, <3>6
      <4>2. PICK n \in Nat : n = Len(Separated(str))
        BY <3>3 DEF Strings
      <4>3. n + 1 < PathMax
        BY <3>4, <3>6, <4>2
      <4> QED BY <2>1, <2>4, <3>1, <3>3, <4>1, <4>2, <4>3 DEF PathStrings
    <3> QED BY <3>5, <3>6
  <2> QED BY <2>2, <2>3, <2>4
<1> QED BY <1>1, <1>2

\* As long as nothing has been overrun.
LEMMA OriginString ==
  ASSUME cwd_path \in Strings, NEW path \in Paths
  PROVE  /\ Origin(path) \in Strings /\ Len(Origin(path)) <= PathMax
         /\ path.abs => Origin(path) = <<Slash>>
         /\ ~path.abs /\ Len(cwd_path) < PathMax => Origin(path) = Separated(cwd_path)
<1>1. PathMax \in Nat /\ PathMax > 1
  BY FatPathAssumption
<1>2. CASE path.abs
  <2>1. Origin(path) = <<Slash>>
    BY <1>2 DEF Origin
  <2>2. <<Slash>> \in Strings /\ Len(<<Slash>>) = 1
    BY DEF Strings, Tokens
  <2> QED BY <1>1, <1>2, <2>1, <2>2
<1>3. CASE ~path.abs
  <2>1. PICK n : n = Len(cwd_path)
    OBVIOUS
  <2>2. n \in Nat /\ n > 0 /\ cwd_path \in Seq(Tokens)
    BY <2>1 DEF Strings
  <2>3. PICK m : m = IF n < PathMax THEN n ELSE PathMax - 1
    OBVIOUS
  <2>4. m \in 1 .. n /\ m < PathMax
    BY <1>1, <2>2, <2>3
  <2>5. PICK s : s = SubSeq(cwd_path, 1, m)
    OBVIOUS
  <2>6. s \in Strings
    BY <2>1, <2>4, <2>5, PrefixString
  <2>7. Len(s) = m
    BY <2>1, <2>2, <2>4, <2>5
  <2>8. Origin(path) = Separated(s)
    BY <1>3, <2>1, <2>3, <2>5 DEF Origin
  <2>9. Separated(s) \in Strings /\ Len(Separated(s)) \in {Len(s), Len(s) + 1}
    BY <2>6, SeparatedString
  <2>10. Len(Separated(s)) <= PathMax
    BY <1>1, <2>4, <2>7, <2>9
  <2>11. ASSUME n < PathMax PROVE s = cwd_path
    <3>1. m = n
      BY <2>3, <2>11
    <3> QED BY <2>1, <2>2, <2>5, <3>1, SubSeqFull
  <2> QED BY <1>3, <2>1, <2>8, <2>9, <2>10, <2>11
<1> QED BY <1>2, <1>3

\* The run of abspath over the components of a path.
Steps(f, path) ==
  LET n == Len(path.comps)
  IN  /\ f \in [0 .. n -> PathStrings] /\ f[0] = Origin(path)
      /\ \A k \in 1 .. n : f[k] = Joined(f[k - 1], path.comps[k])

\* The components of a path are known one by one.
LEMMA PathComps ==
  ASSUME NEW path \in Paths
  PROVE  path.comps \in Seq(Components) /\ Len(path.comps) \in Nat /\ path.abs \in BOOLEAN
         /\ \A k \in 1 .. Len(path.comps) : path.comps[k] \in Components
<1>1. path.comps \in BoundedSeq(Components, Depth) /\ path.abs \in BOOLEAN
  BY DEF Paths
<1>2. path.comps \in Seq(Components)
  <2>1. PICK m \in 0 .. Depth : path.comps \in [1 .. m -> Components]
    BY <1>1 DEF BoundedSeq, SeqOf
  <2>2. Depth \in Nat
    BY FatPathAssumption
  <2>3. m \in Nat
    BY <2>2
  <2> QED BY <2>1, <2>3, SeqDef
<1>3. Len(path.comps) \in Nat
  BY <1>2
<1>4. \A k \in 1 .. Len(path.comps) : path.comps[k] \in Components
  BY <1>2
<1> QED BY <1>1, <1>2, <1>3, <1>4

\* abspath returns the end of such a run.
LEMMA AbspathIs ==
  ASSUME cwd_path \in Strings, NEW path \in Paths
  PROVE  \E f : Steps(f, path) /\ abspath(path) = f[Len(path.comps)]
<1>1. PICK n : n = Len(path.comps)
  OBVIOUS
<1>2. PICK cs : cs = path.comps
  OBVIOUS
<1>3. n \in Nat /\ \A k \in 1 .. n : cs[k] \in Components
  BY <1>1, <1>2, PathComps
<1>4. PICK a : a = Origin(path)
  OBVIOUS
<1>5. a \in PathStrings
  BY <1>4, OriginString DEF PathStrings
<1> DEFINE h == [q \in (1 .. n) \X PathStrings |-> Joined(q[2], cs[q[1]])]
<1>6. h \in [(1 .. n) \X PathStrings -> PathStrings]
  BY <1>3, JoinedString
<1>7. PICK f \in [0 .. n -> PathStrings] : f[0] = a /\ \A k \in 1 .. n : f[k] = h[<<k, f[k - 1]>>]
  <2>1. PICK g : g = h
    OBVIOUS
  <2>2. g \in [(1 .. n) \X PathStrings -> PathStrings]
    BY <1>6, <2>1
  <2>3. \E f : Solves(f, n, PathStrings, a, g)
    BY <1>3, <1>5, <2>2, RecursionExists
  <2> QED BY <2>1, <2>3 DEF Solves
<1>8. ASSUME NEW k \in 1 .. n PROVE f[k] = Joined(f[k - 1], cs[k])
  <2>1. f[k - 1] \in PathStrings
    BY <1>3, <1>7
  <2>2. h[<<k, f[k - 1]>>] = Joined(f[k - 1], cs[k])
    BY <2>1
  <2> QED BY <1>7, <2>2
<1> DEFINE P(g) == g = [k \in 0 .. n |-> IF k = 0 THEN a ELSE Joined(g[k - 1], cs[k])]
<1>9. P(f)
  <2>1. ASSUME NEW k \in 0 .. n PROVE f[k] = IF k = 0 THEN a ELSE Joined(f[k - 1], cs[k])
    BY <1>3, <1>7, <1>8
  <2>2. f = [k \in 0 .. n |-> f[k]]
    BY <1>7
  <2> QED BY <2>1, <2>2
<1>10. PICK g : g = CHOOSE x : P(x)
  OBVIOUS
<1>11. P(g)
  <2> HIDE DEF P
  <2> QED BY <1>9, <1>10
<1>12. abspath(path) = g[n]
  BY <1>1, <1>2, <1>4, <1>10 DEF abspath
<1>13. g[0] = a /\ \A k \in 1 .. n : g[k] = Joined(g[k - 1], cs[k])
  <2>1. 0 \in 0 .. n /\ \A k \in 1 .. n : k \in 0 .. n /\ k # 0
    BY <1>3
  <2> QED BY <1>11, <2>1
<1>14. g \in [0 .. n -> PathStrings]
  <2> DEFINE T == {k \in Nat : k <= n => g[k] \in PathStrings}
  <2>1. 0 \in T
    BY <1>5, <1>13
  <2>2. ASSUME NEW k \in Nat, k \in T PROVE k + 1 \in T
    <3> SUFFICES ASSUME k + 1 <= n PROVE g[k + 1] \in PathStrings
      OBVIOUS
    <3>1. g[k] \in PathStrings /\ k + 1 \in 1 .. n /\ (k + 1) - 1 = k
      BY <1>3, <2>2
    <3>2. g[k + 1] = Joined(g[k], cs[k + 1])
      BY <1>13, <3>1
    <3> QED BY <1>3, <3>1, <3>2, JoinedString
  <2>3. Nat \subseteq T
    <3> HIDE DEF T
    <3> QED BY <2>1, <2>2, InductionOnSet
  <2>4. \A k \in 0 .. n : g[k] \in PathStrings
    BY <1>3, <2>3
  <2>5. g = [k \in 0 .. n |-> g[k]]
    BY <1>11
  <2> QED BY <2>4, <2>5
<1>15. Steps(g, path)
  BY <1>1, <1>2, <1>4, <1>13, <1>14 DEF Steps
<1> QED BY <1>1, <1>12, <1>15

\* What names mean, whether an entry can have them or not, and what entries have.
Elements == Parts \X (Parts \cup {"."})
OnDisk == Parts \X (Parts \ {".", NoExt})

\* Every file is in a directory and is none itself.
FilesOK ==
  \A p \in DOMAIN files : p \in Seq(OnDisk) /\ p # <<>> /\ p \notin Dirs /\ Front(p) \in Dirs

\* The place that a string names, whether it exists or not.
Place(s) ==
  LET at[k \in 0 .. Len(s)] ==
        IF k = 0 THEN <<>> ELSE IF s[k] = Slash THEN at[k - 1] ELSE Append(at[k - 1], EntryOf(s[k]))
  IN  at[Len(s)]

\* Behind a directory its entry: back to the directory and to the entry.
LEMMA FrontOfAppend ==
  ASSUME NEW S, NEW d \in Seq(S), NEW e \in S
  PROVE  /\ Append(d, e) # <<>> /\ Front(Append(d, e)) = d /\ Last(Append(d, e)) = e
<1>1. PICK t : t = Append(d, e)
  OBVIOUS
<1>2. Len(d) \in Nat /\ t \in Seq(S) /\ t # <<>> /\ Len(t) = Len(d) + 1 /\ t[Len(d) + 1] = e
      /\ \A i \in 1 .. Len(d) : t[i] = d[i]
  BY <1>1
<1>3. Last(t) = e
  BY <1>2 DEF Last
<1>4. PICK w : w = SubSeq(t, 1, Len(d))
  OBVIOUS
<1>5. w \in Seq(S) /\ Len(w) = Len(d) /\ \A i \in 1 .. Len(d) : w[i] = t[i]
  BY <1>2, <1>4
<1>6. \A i \in 1 .. Len(d) : w[i] = d[i]
  BY <1>2, <1>5
<1>7. w = d
  BY <1>5, <1>6, SeqEqual
<1>8. Front(t) = SubSeq(t, 1, Len(t) - 1)
  BY DEF Front
<1>9. Len(t) - 1 = Len(d)
  BY <1>2
<1> QED BY <1>1, <1>2, <1>3, <1>4, <1>7, <1>8, <1>9

\* A place that is not the root is an entry of a directory.
LEMMA FrontAndLast ==
  ASSUME NEW S, NEW p \in Seq(S), p # <<>>
  PROVE  p = Append(Front(p), Last(p)) /\ Front(p) \in Seq(S) /\ Last(p) \in S
<1>1. Len(p) \in Nat /\ Len(p) > 0
  OBVIOUS
<1>2. PICK m \in Nat : m = Len(p) - 1
  BY <1>1
<1>3. PICK b : b = SubSeq(p, 1, m)
  OBVIOUS
<1>4. m <= Len(p) /\ m + 1 = Len(p)
  BY <1>1, <1>2
<1>5. b \in Seq(S) /\ Len(b) = m /\ \A i \in 1 .. m : b[i] = p[i]
  BY <1>3, <1>4
<1>6. PICK z : z = p[m + 1]
  OBVIOUS
<1>7. z \in S
  BY <1>1, <1>4, <1>6
<1>8. PICK w : w = Append(b, z)
  OBVIOUS
<1>9. w \in Seq(S) /\ Len(w) = m + 1 /\ w[m + 1] = z /\ \A i \in 1 .. m : w[i] = b[i]
  BY <1>5, <1>7, <1>8
<1>10. \A i \in 1 .. Len(p) : w[i] = p[i]
  BY <1>4, <1>5, <1>6, <1>9
<1>11. w = p
  BY <1>4, <1>9, <1>10, SeqEqual
<1>12. Front(p) = b /\ Last(p) = z
  BY <1>2, <1>3, <1>4, <1>6 DEF Front, Last
<1> QED BY <1>5, <1>7, <1>8, <1>11, <1>12

\* Both parts of a typed name have an upper-case form, which keeps the empty
\* extension, the missing one and the dot apart.
LEMMA NameParts ==
  ASSUME NEW c \in Names
  PROVE  /\ c[1] \in Parts /\ c[2] \in Parts /\ c[2] # "." /\ c = <<c[1], c[2]>>
         /\ Upper[c[1]] \in Parts /\ Upper[c[2]] \in Parts
         /\ \A y \in {"", ".", NoExt} : Upper[c[2]] = y <=> c[2] = y
<1>1. Names \subseteq Parts \X (Parts \ {"."}) /\ Upper \in [Parts -> Parts]
      /\ \A x \in Parts, y \in {"", ".", NoExt} : Upper[x] = y <=> x = y
  BY FatPathAssumption
<1>2. c \in Parts \X (Parts \ {"."})
  BY <1>1
<1>3. c[1] \in Parts /\ c[2] \in Parts /\ c[2] # "." /\ c = <<c[1], c[2]>>
  BY <1>2
<1> QED BY <1>1, <1>3

\* A typed name means one entry.
LEMMA EntryOfIs ==
  ASSUME NEW c \in Names
  PROVE  /\ EntryOf(c) \in Elements
         /\ EntryOf(c)[1] = Upper[c[1]]
         /\ EntryOf(c)[2] = IF c[2] = NoExt THEN "" ELSE IF c[2] = "" THEN "." ELSE Upper[c[2]]
<1>1. PICK x : x = IF c[2] = NoExt THEN "" ELSE IF c[2] = "" THEN "." ELSE Upper[c[2]]
  OBVIOUS
<1>2. EntryOf(c) = <<Upper[c[1]], x>>
  BY <1>1 DEF EntryOf, NoExt
<1>3. "" \in Parts
  BY FatPathAssumption
<1>4. x \in Parts \cup {"."}
  BY <1>1, <1>3, NameParts
<1>5. Upper[c[1]] \in Parts
  BY NameParts
<1>6. EntryOf(c) \in Elements
  BY <1>2, <1>4, <1>5 DEF Elements
<1>7. EntryOf(c)[1] = Upper[c[1]] /\ EntryOf(c)[2] = x
  BY <1>2
<1> QED BY <1>1, <1>6, <1>7

\* walk compares the printed form of an entry with the name it looks for.
LEMMA MatchIs ==
  ASSUME NEW e \in OnDisk, NEW c \in Names
  PROVE  name_match(entry_name(e), c) <=> e = EntryOf(c)
<1>1. e[1] \in Parts /\ e[2] \in Parts /\ e[2] # "." /\ e[2] # NoExt /\ e = <<e[1], e[2]>>
  BY DEF OnDisk
<1>2. PICK u : u = Upper[c[2]]
  OBVIOUS
<1>3. name_match(entry_name(e), c) <=> e[1] = Upper[c[1]] /\ (IF e[2] = "" THEN NoExt ELSE e[2]) = u
  BY <1>2 DEF name_match, entry_name
<1>4. EntryOf(c) = <<Upper[c[1]], EntryOf(c)[2]>>
  BY DEF EntryOf
<1>5. e = EntryOf(c) <=> e[1] = Upper[c[1]] /\ e[2] = EntryOf(c)[2]
  BY <1>1, <1>4
<1>6. (u = "" <=> c[2] = "") /\ (u = "." <=> c[2] = ".") /\ (u = NoExt <=> c[2] = NoExt) /\ c[2] # "."
  BY <1>2, NameParts
<1>7. NoExt # ""
  BY DEF NoExt
<1>8. EntryOf(c)[2] = IF c[2] = NoExt THEN "" ELSE IF c[2] = "" THEN "." ELSE u
  BY <1>2, EntryOfIs
<1>9. (IF e[2] = "" THEN NoExt ELSE e[2]) = u <=> e[2] = EntryOf(c)[2]
  BY <1>1, <1>6, <1>7, <1>8
<1> QED BY <1>3, <1>5, <1>9

\* The run that leads to the place of a string.
PlaceSteps(f, s) ==
  /\ f \in [0 .. Len(s) -> Seq(Elements)] /\ f[0] = <<>>
  /\ \A k \in 1 .. Len(s) : f[k] = IF s[k] = Slash THEN f[k - 1] ELSE Append(f[k - 1], EntryOf(s[k]))

\* Place is the end of such a run.
LEMMA PlaceIs ==
  ASSUME NEW s \in Strings
  PROVE  \E f : PlaceSteps(f, s) /\ Place(s) = f[Len(s)]
<1>1. PICK n : n = Len(s)
  OBVIOUS
<1>2. PICK a : a = <<>>
  OBVIOUS
<1>3. n \in Nat /\ s \in Seq(Tokens) /\ \A k \in 1 .. n : s[k] \in Tokens
  BY <1>1 DEF Strings
<1>4. a = <<>>
  BY <1>2
<1>5. a \in Seq(Elements)
  BY <1>2
<1> DEFINE h == [q \in (1 .. n) \X Seq(Elements) |-> (IF s[q[1]] = Slash THEN q[2] ELSE Append(q[2], EntryOf(s[q[1]])))]
<1>6. h \in [(1 .. n) \X Seq(Elements) -> Seq(Elements)]
  <2>1. ASSUME NEW k \in 1 .. n, NEW x \in Seq(Elements)
        PROVE  (IF s[k] = Slash THEN x ELSE Append(x, EntryOf(s[k]))) \in Seq(Elements)
    <3>1. CASE s[k] = Slash
      BY <3>1
    <3>2. CASE s[k] # Slash
      <4>1. s[k] \in Names
        BY <1>3, <3>2 DEF Tokens
      <4>2. EntryOf(s[k]) \in Elements
        BY <4>1, EntryOfIs
      <4> QED BY <3>2, <4>2
    <3> QED BY <3>1, <3>2
  <2> QED BY <2>1
<1>7. PICK e : e = h
  OBVIOUS
<1>8. e \in [(1 .. n) \X Seq(Elements) -> Seq(Elements)]
  BY <1>6, <1>7
<1>9. ASSUME NEW k \in 1 .. n, NEW x \in Seq(Elements) PROVE e[<<k, x>>] = (IF s[k] = Slash THEN x ELSE Append(x, EntryOf(s[k])))
  BY <1>7
<1> HIDE DEF h
<1>10. PICK f : Solves(f, n, Seq(Elements), a, e)
  BY <1>3, <1>5, <1>8, RecursionExists
<1> DEFINE P(g) == g = [k \in 0 .. n |-> IF k = 0 THEN <<>> ELSE (IF s[k] = Slash THEN g[k - 1] ELSE Append(g[k - 1], EntryOf(s[k])))]
<1>11. P(f)
  <2>1. f \in [0 .. n -> Seq(Elements)] /\ f[0] = a /\ \A k \in 1 .. n : f[k] = e[<<k, f[k - 1]>>]
    BY <1>10 DEF Solves
  <2>2. ASSUME NEW k \in 1 .. n PROVE f[k] = (IF s[k] = Slash THEN f[k - 1] ELSE Append(f[k - 1], EntryOf(s[k])))
    <3>1. f[k - 1] \in Seq(Elements)
      BY <1>3, <2>1
    <3> QED BY <1>9, <2>1, <3>1
  <2>3. ASSUME NEW k \in 0 .. n PROVE f[k] = IF k = 0 THEN <<>> ELSE (IF s[k] = Slash THEN f[k - 1] ELSE Append(f[k - 1], EntryOf(s[k])))
    <3>1. CASE k = 0
      BY <1>4, <2>1, <3>1
    <3>2. CASE k # 0
      <4>1. k \in 1 .. n
        BY <1>3, <3>2
      <4> QED BY <2>2, <3>2, <4>1
    <3> QED BY <3>1, <3>2
  <2>4. f = [k \in 0 .. n |-> f[k]]
    BY <2>1
  <2> QED BY <2>3, <2>4
<1>12. PICK g : g = CHOOSE x : P(x)
  OBVIOUS
<1>13. P(g)
  <2> HIDE DEF P
  <2> QED BY <1>11, <1>12
<1>14. Place(s) = g[n]
  BY <1>1, <1>12 DEF Place
<1>15. g[0] = a
  <2>1. 0 \in 0 .. n
    BY <1>3
  <2> QED BY <1>4, <1>13, <2>1
<1>16. ASSUME NEW k \in 1 .. n PROVE g[k] = (IF s[k] = Slash THEN g[k - 1] ELSE Append(g[k - 1], EntryOf(s[k])))
  <2>1. k \in 0 .. n /\ k # 0
    BY <1>3
  <2> QED BY <1>13, <2>1
<1>17. g = [k \in 0 .. n |-> g[k]]
  BY <1>13
<1>18. Solves(g, n, Seq(Elements), a, e)
  <2>1. \A k \in 1 .. n : g[k - 1] \in Seq(Elements) => g[k] = e[<<k, g[k - 1]>>]
    BY <1>9, <1>16
  <2> QED BY <1>3, <1>5, <1>8, <1>15, <1>17, <2>1, RecursionSolved
<1>19. g \in [0 .. n -> Seq(Elements)]
  BY <1>18 DEF Solves
<1>20. PlaceSteps(g, s)
  BY <1>1, <1>2, <1>15, <1>16, <1>19 DEF PlaceSteps
<1> QED BY <1>1, <1>14, <1>20

\* The entry that walk finds for a name.
LEMMA ChildIs ==
  ASSUME FilesOK, NEW d, NEW c \in Names
  PROVE  Child(d, c) = IF d \in Dirs /\ Append(d, EntryOf(c)) \in Dirs \cup DOMAIN files
                       THEN Append(d, EntryOf(c)) ELSE Bad
<1>1. CASE d \notin Dirs
  BY <1>1 DEF Child
<1>2. CASE d \in Dirs
  <2>1. PICK t : t = Append(d, EntryOf(c))
    OBVIOUS
  <2> DEFINE hits == {p \in Entries(d) : name_match(entry_name(Last(p)), c)}
  <2>2. d \in Seq(OnDisk)
    BY <1>2, FatPathAssumption DEF OnDisk
  <2>3. d \in Seq(Elements)
    <3>1. OnDisk \subseteq Elements
      BY DEF OnDisk, Elements
    <3> QED BY <2>2, <3>1, SeqMonotonic
  <2>4. EntryOf(c) \in Elements
    BY EntryOfIs
  <2>5. t \in Seq(Elements) /\ t # <<>> /\ Len(t) = Len(d) + 1 /\ Front(t) = d /\ Last(t) = EntryOf(c)
    <3>1. t \in Seq(Elements) /\ Len(t) = Len(d) + 1
      BY <2>1, <2>3, <2>4
    <3> QED BY <2>1, <2>3, <2>4, <3>1, FrontOfAppend
  <2>6. ASSUME NEW p \in Dirs \cup DOMAIN files, p # <<>>
        PROVE  p \in Seq(OnDisk) /\ Last(p) \in OnDisk
    <3>1. p \in Seq(OnDisk)
      BY FatPathAssumption DEF FilesOK, OnDisk
    <3>2. Len(p) \in Nat /\ Len(p) > 0
      BY <2>6, <3>1
    <3>3. p[Len(p)] \in OnDisk
      BY <3>1, <3>2
    <3> QED BY <3>1, <3>3 DEF Last
  <2>7. ASSUME NEW p \in hits PROVE p = t
    <3>1. p \in Dirs \cup DOMAIN files /\ p # <<>> /\ Front(p) = d /\ name_match(entry_name(Last(p)), c)
      BY DEF Entries
    <3>2. p \in Seq(OnDisk) /\ Last(p) = EntryOf(c)
      BY <2>6, <3>1, MatchIs
    <3>3. p = Append(Front(p), Last(p))
      BY <3>1, <3>2, FrontAndLast
    <3> QED BY <2>1, <3>1, <3>2, <3>3
  <2>8. t \in hits <=> t \in Dirs \cup DOMAIN files
    <3>1. ASSUME t \in Dirs \cup DOMAIN files PROVE name_match(entry_name(Last(t)), c)
      BY <2>5, <2>6, <3>1, MatchIs
    <3> QED BY <2>5, <3>1 DEF Entries
  <2>9. Child(d, c) = IF hits = {} THEN Bad ELSE CHOOSE p \in hits : TRUE
    BY <1>2 DEF Child
  <2>10. CASE t \in Dirs \cup DOMAIN files
    <3>1. t \in hits
      BY <2>8, <2>10
    <3>2. (CHOOSE p \in hits : TRUE) = t
      <4> HIDE DEF hits
      <4> QED BY <2>7, <3>1
    <3> HIDE DEF hits
    <3> QED BY <1>2, <2>1, <2>9, <2>10, <3>1, <3>2
  <2>11. CASE t \notin Dirs \cup DOMAIN files
    <3>1. hits = {}
      <4>1. t \notin hits
        BY <2>8, <2>11
      <4> HIDE DEF hits
      <4> QED BY <2>7, <4>1
    <3> HIDE DEF hits
    <3> QED BY <1>2, <2>1, <2>9, <2>11, <3>1
  <2> QED BY <2>10, <2>11
<1> QED BY <1>1, <1>2

\* One character more of a string.
LEMMA PlaceAppend ==
  ASSUME NEW s \in Strings, NEW c \in Tokens, Append(s, c) \in Strings
  PROVE  Place(Append(s, c)) = IF c = Slash THEN Place(s) ELSE Append(Place(s), EntryOf(c))
<1>1. PICK n : n = Len(s)
  OBVIOUS
<1>2. PICK u : u = Append(s, c)
  OBVIOUS
<1>3. n \in Nat /\ s \in Seq(Tokens)
  BY <1>1 DEF Strings
<1>4. Len(u) = n + 1 /\ u[n + 1] = c /\ \A k \in 1 .. n : u[k] = s[k]
  BY <1>1, <1>2, <1>3
<1>5. PICK f : PlaceSteps(f, s) /\ Place(s) = f[n]
  BY <1>1, PlaceIs
<1>6. PICK g : PlaceSteps(g, u) /\ Place(u) = g[n + 1]
  BY <1>2, <1>4, PlaceIs
<1>7. f[0] = <<>> /\ \A k \in 1 .. n : f[k] = IF s[k] = Slash THEN f[k - 1] ELSE Append(f[k - 1], EntryOf(s[k]))
  BY <1>1, <1>5 DEF PlaceSteps
<1>8. g[0] = <<>> /\ \A k \in 1 .. n + 1 : g[k] = IF u[k] = Slash THEN g[k - 1] ELSE Append(g[k - 1], EntryOf(u[k]))
  BY <1>4, <1>6 DEF PlaceSteps
<1>9. g[n] = f[n]
  <2> DEFINE T == {i \in Nat : i <= n => g[i] = f[i]}
  <2>1. 0 \in T
    BY <1>7, <1>8
  <2>2. ASSUME NEW i \in Nat, i \in T PROVE i + 1 \in T
    <3> SUFFICES ASSUME i + 1 <= n PROVE g[i + 1] = f[i + 1]
      OBVIOUS
    <3>1. g[i] = f[i] /\ u[i + 1] = s[i + 1] /\ i + 1 \in 1 .. n /\ i + 1 \in 1 .. n + 1 /\ (i + 1) - 1 = i
      BY <1>3, <1>4, <2>2
    <3>2. f[i + 1] = IF s[i + 1] = Slash THEN f[i] ELSE Append(f[i], EntryOf(s[i + 1]))
      BY <1>7, <3>1
    <3>3. g[i + 1] = IF u[i + 1] = Slash THEN g[i] ELSE Append(g[i], EntryOf(u[i + 1]))
      BY <1>8, <3>1
    <3> QED BY <3>1, <3>2, <3>3
  <2>3. Nat \subseteq T
    <3> HIDE DEF T
    <3> QED BY <2>1, <2>2, InductionOnSet
  <2> QED BY <1>3, <2>3
<1>10. g[n + 1] = IF c = Slash THEN g[n] ELSE Append(g[n], EntryOf(c))
  <2>1. n + 1 \in 1 .. n + 1 /\ (n + 1) - 1 = n
    BY <1>3
  <2> QED BY <1>4, <1>8, <2>1
<1> QED BY <1>2, <1>5, <1>6, <1>9, <1>10

\* The root is the place of "/".
LEMMA PlaceRoot == <<Slash>> \in Strings /\ Place(<<Slash>>) = <<>>
<1>1. PICK s : s = <<Slash>>
  OBVIOUS
<1>2. s \in Strings /\ Len(s) = 1 /\ s[1] = Slash
  BY <1>1 DEF Strings, Tokens
<1>3. PICK f : PlaceSteps(f, s) /\ Place(s) = f[1]
  BY <1>2, PlaceIs
<1>4. f[0] = <<>> /\ f[1] = f[1 - 1]
  BY <1>2, <1>3 DEF PlaceSteps
<1>5. 1 - 1 = 0
  OBVIOUS
<1> QED BY <1>1, <1>2, <1>3, <1>4, <1>5

\* A slash behind a string leaves its place alone.
LEMMA PlaceSeparated ==
  ASSUME NEW s \in Strings
  PROVE  Place(Separated(s)) = Place(s) /\ Place(s) \in Seq(Elements)
<1>1. Place(s) \in Seq(Elements)
  <2>1. PICK f : PlaceSteps(f, s) /\ Place(s) = f[Len(s)]
    BY PlaceIs
  <2>2. Len(s) \in 0 .. Len(s)
    BY DEF Strings
  <2> QED BY <2>1, <2>2 DEF PlaceSteps
<1>2. CASE Len(s) > 1
  <2>1. Separated(s) = Append(s, Slash)
    BY <1>2 DEF Separated
  <2>2. Append(s, Slash) \in Strings /\ Slash \in Tokens
    BY <2>1, SeparatedString DEF Tokens
  <2> QED BY <1>1, <2>1, <2>2, PlaceAppend
<1>3. CASE ~(Len(s) > 1)
  BY <1>1, <1>3 DEF Separated
<1> QED BY <1>2, <1>3

\* A name behind a string leads one entry further.
LEMMA PlaceJoined ==
  ASSUME NEW s \in Strings, NEW c \in Names
  PROVE  Place(Append(Separated(s), c)) = Append(Place(s), EntryOf(c))
<1>1. c \in Tokens /\ c # Slash
  BY TokenFacts DEF Tokens
<1>2. Separated(s) \in Strings /\ Append(Separated(s), c) \in Strings
  BY SeparatedString, JoinString
<1> QED BY <1>1, <1>2, PlaceAppend, PlaceSeparated

\* What walk may have reached.
Reached == Dirs \cup DOMAIN files \cup {Bad}

\* The run of walk over an absolute path.
WalkSteps(f, s) ==
  /\ f \in [0 .. Len(s) -> Reached] /\ f[0] = <<>>
  /\ \A k \in 1 .. Len(s) : f[k] = IF s[k] = Slash THEN f[k - 1] ELSE Child(f[k - 1], s[k])

\* walk returns the end of such a run.
LEMMA WalkRuns ==
  ASSUME NEW s \in Strings, FilesOK
  PROVE  \E f : /\ WalkSteps(f, s)
               /\ walk(s) = IF f[Len(s)] \in DOMAIN files /\ Last(s) = Slash THEN Bad ELSE f[Len(s)]
<1>1. PICK n : n = Len(s)
  OBVIOUS
<1>2. PICK a : a = <<>>
  OBVIOUS
<1>3. n \in Nat /\ s \in Seq(Tokens) /\ \A k \in 1 .. n : s[k] \in Tokens
  BY <1>1 DEF Strings
<1>4. a = <<>>
  BY <1>2
<1>5. a \in Reached
  BY <1>2, FatPathAssumption DEF Reached
<1> DEFINE h == [q \in (1 .. n) \X Reached |-> (IF s[q[1]] = Slash THEN q[2] ELSE Child(q[2], s[q[1]]))]
<1>6. h \in [(1 .. n) \X Reached -> Reached]
  <2>1. ASSUME NEW k \in 1 .. n, NEW x \in Reached
        PROVE  (IF s[k] = Slash THEN x ELSE Child(x, s[k])) \in Reached
    <3>1. CASE s[k] = Slash
      BY <3>1
    <3>2. CASE s[k] # Slash
      <4>1. s[k] \in Names
        BY <1>3, <3>2 DEF Tokens
      <4>2. Child(x, s[k]) \in Reached
        BY <4>1, ChildIs DEF Reached
      <4> QED BY <3>2, <4>2
    <3> QED BY <3>1, <3>2
  <2> QED BY <2>1
<1>7. PICK e : e = h
  OBVIOUS
<1>8. e \in [(1 .. n) \X Reached -> Reached]
  BY <1>6, <1>7
<1>9. ASSUME NEW k \in 1 .. n, NEW x \in Reached PROVE e[<<k, x>>] = (IF s[k] = Slash THEN x ELSE Child(x, s[k]))
  BY <1>7
<1> HIDE DEF h
<1>10. PICK f : Solves(f, n, Reached, a, e)
  BY <1>3, <1>5, <1>8, RecursionExists
<1> DEFINE P(g) == g = [k \in 0 .. n |-> IF k = 0 THEN <<>> ELSE (IF s[k] = Slash THEN g[k - 1] ELSE Child(g[k - 1], s[k]))]
<1>11. P(f)
  <2>1. f \in [0 .. n -> Reached] /\ f[0] = a /\ \A k \in 1 .. n : f[k] = e[<<k, f[k - 1]>>]
    BY <1>10 DEF Solves
  <2>2. ASSUME NEW k \in 1 .. n PROVE f[k] = (IF s[k] = Slash THEN f[k - 1] ELSE Child(f[k - 1], s[k]))
    <3>1. f[k - 1] \in Reached
      BY <1>3, <2>1
    <3> QED BY <1>9, <2>1, <3>1
  <2>3. ASSUME NEW k \in 0 .. n PROVE f[k] = IF k = 0 THEN <<>> ELSE (IF s[k] = Slash THEN f[k - 1] ELSE Child(f[k - 1], s[k]))
    <3>1. CASE k = 0
      BY <1>4, <2>1, <3>1
    <3>2. CASE k # 0
      <4>1. k \in 1 .. n
        BY <1>3, <3>2
      <4> QED BY <2>2, <3>2, <4>1
    <3> QED BY <3>1, <3>2
  <2>4. f = [k \in 0 .. n |-> f[k]]
    BY <2>1
  <2> QED BY <2>3, <2>4
<1>12. PICK g : g = CHOOSE x : P(x)
  OBVIOUS
<1>13. P(g)
  <2> HIDE DEF P
  <2> QED BY <1>11, <1>12
<1>14. walk(s) = IF g[n] \in DOMAIN files /\ Last(s) = Slash THEN Bad ELSE g[n]
  BY <1>1, <1>12 DEF walk
<1>15. g[0] = a
  <2>1. 0 \in 0 .. n
    BY <1>3
  <2> QED BY <1>4, <1>13, <2>1
<1>16. ASSUME NEW k \in 1 .. n PROVE g[k] = (IF s[k] = Slash THEN g[k - 1] ELSE Child(g[k - 1], s[k]))
  <2>1. k \in 0 .. n /\ k # 0
    BY <1>3
  <2> QED BY <1>13, <2>1
<1>17. g = [k \in 0 .. n |-> g[k]]
  BY <1>13
<1>18. Solves(g, n, Reached, a, e)
  <2>1. \A k \in 1 .. n : g[k - 1] \in Reached => g[k] = e[<<k, g[k - 1]>>]
    BY <1>9, <1>16
  <2> QED BY <1>3, <1>5, <1>8, <1>15, <1>17, <2>1, RecursionSolved
<1>19. g \in [0 .. n -> Reached]
  BY <1>18 DEF Solves
<1>20. WalkSteps(g, s)
  BY <1>1, <1>2, <1>15, <1>16, <1>19 DEF WalkSteps
<1> QED BY <1>1, <1>14, <1>20

\* The refusal is mistaken for no directory and no file.
LEMMA BadIsNoPlace == FilesOK => Bad \notin Dirs \cup DOMAIN files
<1>1. Bad \notin Seq(OnDisk)
  <2>1. Len(Bad) = 1 /\ Bad[1] = <<"-1", NoExt>>
    BY DEF Bad
  <2>2. Bad[1] \notin OnDisk
    BY <2>1 DEF OnDisk
  <2> QED BY <2>1, <2>2, ElementOfSeq
<1> QED BY <1>1, FatPathAssumption DEF FilesOK, OnDisk

\* walk follows a string to the place it names, if it exists.
LEMMA WalkIs ==
  ASSUME NEW s \in Strings, FilesOK
  PROVE  walk(s) = IF Place(s) \in Dirs \/ (Place(s) \in DOMAIN files /\ Last(s) # Slash)
                   THEN Place(s) ELSE Bad
<1>1. PICK n : n = Len(s)
  OBVIOUS
<1>2. n \in Nat /\ \A k \in 1 .. n : s[k] \in Tokens
  BY <1>1 DEF Strings
<1>3. PICK f : WalkSteps(f, s) /\ walk(s) = IF f[n] \in DOMAIN files /\ Last(s) = Slash THEN Bad ELSE f[n]
  BY <1>1, WalkRuns
<1>4. PICK p : PlaceSteps(p, s) /\ Place(s) = p[n]
  BY <1>1, PlaceIs
<1> DEFINE Found(x) == IF x \in Dirs \cup DOMAIN files THEN x ELSE Bad
           T == {k \in Nat : k <= n => f[k] = Found(p[k])}
<1>5. 0 \in T
  <2>1. f[0] = <<>> /\ p[0] = <<>> /\ <<>> \in Dirs
    BY <1>3, <1>4, FatPathAssumption DEF WalkSteps, PlaceSteps
  <2> QED BY <2>1
<1>6. ASSUME NEW k \in Nat, k \in T PROVE k + 1 \in T
  <2> SUFFICES ASSUME k + 1 <= n PROVE f[k + 1] = Found(p[k + 1])
    OBVIOUS
  <2>1. f[k] = Found(p[k]) /\ k + 1 \in 1 .. n /\ (k + 1) - 1 = k /\ k \in 0 .. n
    BY <1>2, <1>6
  <2>2. f[k + 1] = IF s[k + 1] = Slash THEN f[k] ELSE Child(f[k], s[k + 1])
    BY <1>1, <1>3, <2>1 DEF WalkSteps
  <2>3. p[k + 1] = IF s[k + 1] = Slash THEN p[k] ELSE Append(p[k], EntryOf(s[k + 1]))
    BY <1>1, <1>4, <2>1 DEF PlaceSteps
  <2>4. p[k] \in Seq(Elements)
    BY <1>1, <1>4, <2>1 DEF PlaceSteps
  <2>5. CASE s[k + 1] = Slash
    BY <2>1, <2>2, <2>3, <2>5
  <2>6. CASE s[k + 1] # Slash
    <3>1. PICK c \in Names : c = s[k + 1]
      BY <1>2, <2>1, <2>6 DEF Tokens
    <3>2. PICK q : q = Append(p[k], EntryOf(c))
      OBVIOUS
    <3>3. EntryOf(c) \in Elements
      BY EntryOfIs
    <3>4. q # <<>> /\ Front(q) = p[k]
      BY <2>4, <3>2, <3>3, FrontOfAppend
    <3>5. Child(f[k], c) = IF f[k] \in Dirs /\ Append(f[k], EntryOf(c)) \in Dirs \cup DOMAIN files
                           THEN Append(f[k], EntryOf(c)) ELSE Bad
      BY ChildIs
    <3>6. CASE p[k] \in Dirs
      <4>1. f[k] = p[k]
        BY <2>1, <3>6
      <4> QED BY <2>2, <2>3, <2>6, <3>1, <3>2, <3>5, <3>6, <4>1
    <3>7. CASE p[k] \notin Dirs
      <4>1. f[k] \notin Dirs
        BY <2>1, <3>7, BadIsNoPlace
      <4>2. q \notin Dirs \cup DOMAIN files
        <5>1. \A d \in Dirs : d # <<>> => Front(d) \in Dirs
          BY FatPathAssumption
        <5>2. \A d \in DOMAIN files : Front(d) \in Dirs
          BY DEF FilesOK
        <5> QED BY <3>4, <3>7, <5>1, <5>2
      <4>3. f[k + 1] = Bad
        BY <2>2, <2>6, <3>1, <3>5, <4>1
      <4>4. p[k + 1] = q
        BY <2>3, <2>6, <3>1, <3>2
      <4> QED BY <4>2, <4>3, <4>4
    <3> QED BY <3>6, <3>7
  <2> QED BY <2>5, <2>6
<1>7. Nat \subseteq T
  <2> HIDE DEF T
  <2> QED BY <1>5, <1>6, InductionOnSet
<1>8. f[n] = Found(p[n])
  BY <1>2, <1>7
<1>9. \A q \in DOMAIN files : q \notin Dirs
  BY DEF FilesOK
<1> QED BY <1>3, <1>4, <1>8, <1>9, BadIsNoPlace

\* Only the root's string names the root directory.
LEMMA PlaceEmpty ==
  ASSUME NEW s \in Strings, Place(s) = <<>>
  PROVE  s = <<Slash>>
<1>1. PICK n : n = Len(s)
  OBVIOUS
<1>2. n \in Nat /\ n > 0 /\ s \in Seq(Tokens) /\ s[1] = Slash
  BY <1>1 DEF Strings
<1>3. n > 1 => s[2] # Slash
  BY <1>1 DEF Strings
<1>4. PICK p : PlaceSteps(p, s) /\ Place(s) = p[n]
  BY <1>1, PlaceIs
<1>5. CASE n > 1
  <2> DEFINE T == {k \in Nat : k + 2 <= n => p[k + 2] # <<>>}
  <2>1. \A k \in 1 .. n : /\ p[k] = IF s[k] = Slash THEN p[k - 1] ELSE Append(p[k - 1], EntryOf(s[k]))
                          /\ p[k - 1] \in Seq(Elements)
    BY <1>1, <1>2, <1>4 DEF PlaceSteps
  <2>2. ASSUME NEW k \in 1 .. n, s[k] # Slash PROVE p[k] # <<>>
    <3>1. s[k] \in Names
      BY <1>1, <1>2, <2>2 DEF Tokens
    <3>2. EntryOf(s[k]) \in Elements
      BY <3>1, EntryOfIs
    <3>3. p[k] = Append(p[k - 1], EntryOf(s[k])) /\ p[k - 1] \in Seq(Elements)
      BY <2>1, <2>2
    <3> QED BY <3>2, <3>3, FrontOfAppend
  <2>3. 0 \in T
    <3>1. 2 \in 1 .. n /\ s[2] # Slash
      BY <1>2, <1>3, <1>5
    <3> QED BY <2>2, <3>1
  <2>4. ASSUME NEW k \in Nat, k \in T PROVE k + 1 \in T
    <3> SUFFICES ASSUME (k + 1) + 2 <= n PROVE p[(k + 1) + 2] # <<>>
      OBVIOUS
    <3>1. PICK j : j = (k + 1) + 2
      OBVIOUS
    <3>2. j \in 1 .. n /\ j - 1 = k + 2 /\ k + 2 <= n
      BY <1>2, <3>1
    <3>3. p[j - 1] # <<>>
      BY <2>4, <3>2
    <3>4. CASE s[j] = Slash
      BY <2>1, <3>1, <3>2, <3>3, <3>4
    <3>5. CASE s[j] # Slash
      BY <2>2, <3>1, <3>2, <3>5
    <3> QED BY <3>4, <3>5
  <2>5. Nat \subseteq T
    <3> HIDE DEF T
    <3> QED BY <2>3, <2>4, InductionOnSet
  <2>6. n - 2 \in T
    BY <1>2, <1>5, <2>5
  <2>7. p[n] # <<>>
    <3>1. n - 2 + 2 = n /\ n - 2 + 2 <= n
      BY <1>2
    <3> QED BY <2>6, <3>1
  <2> QED BY <1>4, <2>7
<1>6. CASE n = 1
  <2>1. PICK r : r = <<Slash>>
    OBVIOUS
  <2>2. Len(r) = 1 /\ r[1] = Slash /\ r \in Seq(Tokens)
    BY <2>1 DEF Tokens
  <2>3. \A i \in 1 .. Len(s) : s[i] = r[i]
    BY <1>1, <1>2, <1>6, <2>2
  <2> QED BY <1>1, <1>2, <1>6, <2>1, <2>2, <2>3, SeqEqual
<1> QED BY <1>2, <1>5, <1>6, Positive, Zenon

-----------------------------------------------------------------------------
\* A string that was made by joining m names, one after the other.
Tower(base, x, m) ==
  \E h \in [0 .. m -> Strings] :
    /\ h[0] = base /\ h[m] = x
    /\ \A i \in 1 .. m : \E c \in Names : h[i] = Append(Separated(h[i - 1]), c)

\* A tower of no names.
LEMMA TowerBase ==
  ASSUME NEW base \in Strings
  PROVE  Tower(base, base, 0) /\ \A x : Tower(base, x, 0) => x = base
<1>1. PICK h : h = [i \in 0 .. 0 |-> base]
  OBVIOUS
<1>2. h \in [0 .. 0 -> Strings] /\ h[0] = base
  BY <1>1
<1>3. \A i \in 1 .. 0 : FALSE
  OBVIOUS
<1>4. Tower(base, base, 0)
  BY <1>2, <1>3 DEF Tower
<1>5. \A x : Tower(base, x, 0) => x = base
  BY DEF Tower
<1> QED BY <1>4, <1>5

\* One name more.
LEMMA TowerPush ==
  ASSUME NEW base \in Strings, NEW x, NEW m \in Nat, Tower(base, x, m), NEW c \in Names
  PROVE  Tower(base, Append(Separated(x), c), m + 1) /\ x \in Strings
<1>1. PICK h \in [0 .. m -> Strings] :
          /\ h[0] = base /\ h[m] = x
          /\ \A i \in 1 .. m : \E d \in Names : h[i] = Append(Separated(h[i - 1]), d)
  BY DEF Tower
<1>2. x \in Strings
  BY <1>1
<1>3. PICK y : y = Append(Separated(x), c)
  OBVIOUS
<1>4. y \in Strings
  BY <1>2, <1>3, JoinString
<1>5. PICK g : g = [i \in 0 .. m + 1 |-> IF i = m + 1 THEN y ELSE h[i]]
  OBVIOUS
<1>6. g \in [0 .. m + 1 -> Strings] /\ g[0] = base /\ g[m + 1] = y
  BY <1>1, <1>4, <1>5
<1>7. ASSUME NEW i \in 1 .. m + 1 PROVE \E d \in Names : g[i] = Append(Separated(g[i - 1]), d)
  <2>1. CASE i = m + 1
    <3>1. g[i] = y /\ g[i - 1] = x
      BY <1>1, <1>5, <2>1
    <3> QED BY <1>3, <3>1
  <2>2. CASE i # m + 1
    <3>1. i \in 1 .. m /\ g[i] = h[i] /\ g[i - 1] = h[i - 1]
      BY <1>5, <2>2
    <3> QED BY <1>1, <3>1
  <2> QED BY <2>1, <2>2
<1> QED BY <1>2, <1>3, <1>6, <1>7 DEF Tower

\* ".." takes the last name off a tower and nothing else.
LEMMA TowerPop ==
  ASSUME NEW base \in Strings, NEW x, NEW m \in Nat, Tower(base, x, m), m > 0
  PROVE  \E y \in Strings : \E c \in Names : x = Append(Separated(y), c) /\ Tower(base, y, m - 1)
<1>1. PICK h \in [0 .. m -> Strings] :
          /\ h[0] = base /\ h[m] = x
          /\ \A i \in 1 .. m : \E d \in Names : h[i] = Append(Separated(h[i - 1]), d)
  BY DEF Tower
<1>2. PICK k \in Nat : k = m - 1
  OBVIOUS
<1>3. m \in 1 .. m /\ k \in 0 .. m
  BY <1>2
<1>4. PICK c \in Names : x = Append(Separated(h[k]), c)
  BY <1>1, <1>2, <1>3
<1>5. h[k] \in Strings
  BY <1>1, <1>3
<1>6. PICK g : g = [i \in 0 .. k |-> h[i]]
  OBVIOUS
<1>7. g \in [0 .. k -> Strings] /\ g[0] = base /\ g[k] = h[k]
  BY <1>1, <1>2, <1>6
<1>8. ASSUME NEW i \in 1 .. k PROVE \E d \in Names : g[i] = Append(Separated(g[i - 1]), d)
  <2>1. i \in 1 .. m /\ g[i] = h[i] /\ g[i - 1] = h[i - 1]
    BY <1>2, <1>6
  <2> QED BY <1>1, <2>1
<1>9. Tower(base, h[k], k)
  BY <1>7, <1>8 DEF Tower
<1> QED BY <1>2, <1>4, <1>5, <1>9

-----------------------------------------------------------------------------
\* The count of names or of ".." after one component more.
LEMMA CountStep ==
  ASSUME NEW cs, NEW k \in Nat, NEW S
  PROVE  /\ CountOf(cs, 0, S) = 0
         /\ CountOf(cs, k, S) \in Nat
         /\ CountOf(cs, k + 1, S) = CountOf(cs, k, S) + (IF cs[k + 1] \in S THEN 1 ELSE 0)
<1> DEFINE A(n) == {i \in 1 .. n : cs[i] \in S}
<1>1. \A n \in Nat : IsFiniteSet(A(n))
  <2>1. ASSUME NEW n \in Nat PROVE IsFiniteSet(A(n))
    <3>1. IsFiniteSet(1 .. n)
      BY FS_Interval
    <3>2. A(n) \subseteq 1 .. n
      OBVIOUS
    <3> HIDE DEF A
    <3> QED BY <3>1, <3>2, FS_Subset
  <2> QED BY <2>1
<1>2. A(0) = {}
  OBVIOUS
<1>3. A(k + 1) = IF cs[k + 1] \in S THEN A(k) \cup {k + 1} ELSE A(k)
  OBVIOUS
<1>4. k + 1 \notin A(k)
  OBVIOUS
<1>5. Cardinality(A(0)) = 0
  BY <1>2, FS_EmptySet
<1>6. Cardinality(A(k)) \in Nat
  <2> HIDE DEF A
  <2> QED BY <1>1, FS_CardinalityType
<1>7. Cardinality(A(k + 1)) = Cardinality(A(k)) + (IF cs[k + 1] \in S THEN 1 ELSE 0)
  <2> HIDE DEF A
  <2>1. CASE cs[k + 1] \in S
    <3>1. Cardinality(A(k) \cup {k + 1}) = Cardinality(A(k)) + 1
      BY <1>1, <1>4, FS_AddElement
    <3> QED BY <1>3, <2>1, <3>1
  <2>2. CASE cs[k + 1] \notin S
    BY <1>3, <1>6, <2>2
  <2> QED BY <2>1, <2>2
<1>8. CountOf(cs, 0, S) = Cardinality(A(0)) /\ CountOf(cs, k, S) = Cardinality(A(k))
      /\ CountOf(cs, k + 1, S) = Cardinality(A(k + 1))
  BY DEF CountOf
<1> HIDE DEF A
<1> QED BY <1>5, <1>6, <1>7, <1>8

\* The elements of the places that components mean.
Denotations == Elements \cup {EntryOf(TooLong)}

\* What one component means.
LEMMA DenotedIs ==
  ASSUME NEW d \in Seq(Denotations), NEW c \in Components
  PROVE  /\ Denoted(d, c) \in Seq(Denotations)
         /\ c \in {Nothing, Dot} => Denoted(d, c) = d
         /\ c = DotDot => Denoted(d, c) = IF d = <<>> THEN <<>> ELSE Front(d)
         /\ c \in Names \cup {TooLong} => Denoted(d, c) = Append(d, EntryOf(c))
<1>1. CASE c \in {Nothing, Dot}
  <2>1. c # DotDot /\ c \notin Names \cup {TooLong}
    BY <1>1, TokenFacts
  <2>2. Denoted(d, c) = d
    BY <1>1, <2>1 DEF Denoted
  <2> QED BY <2>1, <2>2
<1>2. CASE c = DotDot
  <2>1. c \notin {Nothing, Dot} /\ c \notin Names \cup {TooLong}
    BY <1>2, TokenFacts
  <2>2. Denoted(d, c) = IF d = <<>> THEN <<>> ELSE Front(d)
    BY <1>2, <2>1 DEF Denoted
  <2>3. d # <<>> => Front(d) \in Seq(Denotations)
    BY FrontAndLast
  <2> QED BY <1>2, <2>1, <2>2, <2>3
<1>3. CASE c \in Names \cup {TooLong}
  <2>1. c \notin {Nothing, Dot, DotDot}
    BY <1>3, TokenFacts
  <2>2. Denoted(d, c) = Append(d, EntryOf(c))
    BY <2>1 DEF Denoted
  <2>3. EntryOf(c) \in Denotations
    BY <1>3, EntryOfIs DEF Denotations
  <2>4. Append(d, EntryOf(c)) \in Seq(Denotations)
    BY <2>3
  <2> QED BY <2>1, <2>2, <2>4
<1> QED BY <1>1, <1>2, <1>3 DEF Components

\* The run of the meaning of a path over its components.
MeantSteps(f, path) ==
  LET n == Len(path.comps)
  IN  /\ f \in [0 .. n -> Seq(Denotations)] /\ f[0] = IF path.abs THEN <<>> ELSE cwd_clus
      /\ \A k \in 1 .. n : f[k] = Denoted(f[k - 1], path.comps[k])

\* Meant is the end of such a run, if it exists.
LEMMA MeantIs ==
  ASSUME NEW path \in Paths, cwd_clus \in Dirs
  PROVE  \E f : /\ MeantSteps(f, path)
                /\ Meant(path) = IF f[Len(path.comps)] \in Dirs \cup DOMAIN files
                                 THEN f[Len(path.comps)] ELSE Bad
<1>1. PICK n : n = Len(path.comps)
  OBVIOUS
<1>2. PICK a : a = IF path.abs THEN <<>> ELSE cwd_clus
  OBVIOUS
<1> DEFINE cs == path.comps
<1>3. n \in Nat /\ \A k \in 1 .. n : cs[k] \in Components
  BY <1>1, PathComps
<1>4. a = IF path.abs THEN <<>> ELSE cwd_clus
  BY <1>2
<1>5. a \in Seq(Denotations)
  <2>1. cwd_clus \in Seq(OnDisk)
    BY FatPathAssumption DEF OnDisk
  <2>2. OnDisk \subseteq Denotations
    BY DEF OnDisk, Elements, Denotations
  <2>3. cwd_clus \in Seq(Denotations)
    BY <2>1, <2>2, SeqMonotonic
  <2> QED BY <1>2, <2>3
<1> HIDE DEF cs
<1> DEFINE h == [q \in (1 .. n) \X Seq(Denotations) |-> Denoted(q[2], cs[q[1]])]
<1>6. h \in [(1 .. n) \X Seq(Denotations) -> Seq(Denotations)]
  BY <1>3, DenotedIs
<1>7. PICK e : e = h
  OBVIOUS
<1>8. e \in [(1 .. n) \X Seq(Denotations) -> Seq(Denotations)]
  BY <1>6, <1>7
<1>9. ASSUME NEW k \in 1 .. n, NEW x \in Seq(Denotations) PROVE e[<<k, x>>] = Denoted(x, cs[k])
  BY <1>7
<1> HIDE DEF h
<1>10. PICK f : Solves(f, n, Seq(Denotations), a, e)
  BY <1>3, <1>5, <1>8, RecursionExists
<1> DEFINE P(g) == g = [k \in 0 .. n |-> IF k = 0 THEN (IF path.abs THEN <<>> ELSE cwd_clus) ELSE Denoted(g[k - 1], cs[k])]
<1>11. P(f)
  <2>1. f \in [0 .. n -> Seq(Denotations)] /\ f[0] = a /\ \A k \in 1 .. n : f[k] = e[<<k, f[k - 1]>>]
    BY <1>10 DEF Solves
  <2>2. ASSUME NEW k \in 1 .. n PROVE f[k] = Denoted(f[k - 1], cs[k])
    <3>1. f[k - 1] \in Seq(Denotations)
      BY <1>3, <2>1
    <3> QED BY <1>9, <2>1, <3>1
  <2>3. ASSUME NEW k \in 0 .. n PROVE f[k] = IF k = 0 THEN (IF path.abs THEN <<>> ELSE cwd_clus) ELSE Denoted(f[k - 1], cs[k])
    <3>1. CASE k = 0
      BY <1>4, <2>1, <3>1
    <3>2. CASE k # 0
      <4>1. k \in 1 .. n
        BY <1>3, <3>2
      <4> QED BY <2>2, <3>2, <4>1
    <3> QED BY <3>1, <3>2
  <2>4. f = [k \in 0 .. n |-> f[k]]
    BY <2>1
  <2> QED BY <2>3, <2>4
<1>12. PICK g : g = CHOOSE x : P(x)
  OBVIOUS
<1>13. P(g)
  <2> HIDE DEF P
  <2> QED BY <1>11, <1>12
<1>14. Meant(path) = IF g[n] \in Dirs \cup DOMAIN files THEN g[n] ELSE Bad
  BY <1>1, <1>12 DEF Meant, cs
<1>15. g[0] = a
  <2>1. 0 \in 0 .. n
    BY <1>3
  <2> QED BY <1>4, <1>13, <2>1
<1>16. ASSUME NEW k \in 1 .. n PROVE g[k] = Denoted(g[k - 1], cs[k])
  <2>1. k \in 0 .. n /\ k # 0
    BY <1>3
  <2> QED BY <1>13, <2>1
<1>17. g = [k \in 0 .. n |-> g[k]]
  BY <1>13
<1>18. Solves(g, n, Seq(Denotations), a, e)
  <2>1. \A k \in 1 .. n : g[k - 1] \in Seq(Denotations) => g[k] = e[<<k, g[k - 1]>>]
    BY <1>9, <1>16
  <2> QED BY <1>3, <1>5, <1>8, <1>15, <1>17, <2>1, RecursionSolved
<1>19. g \in [0 .. n -> Seq(Denotations)]
  BY <1>18 DEF Solves
<1>20. MeantSteps(g, path)
  BY <1>1, <1>2, <1>15, <1>16, <1>19 DEF MeantSteps, cs
<1> QED BY <1>1, <1>14, <1>20

\* The inductive invariant of the file commands: the working directory is a
\* string that abspath makes, and leads to the cluster kept with it; files are
\* in directories.
PathInv ==
  /\ cwd_path \in Strings /\ Len(cwd_path) <= PathMax /\ cwd_clus \in Dirs /\ FilesOK
  /\ ~overrun => Len(cwd_path) < PathMax /\ Place(cwd_path) = cwd_clus

\* How long a string abspath makes.
LEMMA AbspathLen ==
  ASSUME PathInv, NEW path \in Paths, abspath(path) # Bad
  PROVE  /\ abspath(path) \in Strings /\ Len(abspath(path)) <= PathMax
         /\ ~Overruns(path) => Len(abspath(path)) < PathMax
<1>0. cwd_path \in Strings /\ PathMax \in Nat
  BY FatPathAssumption DEF PathInv
<1>1. PICK n : n = Len(path.comps)
  OBVIOUS
<1>2. PICK cs : cs = path.comps
  OBVIOUS
<1>3. n \in Nat /\ DOMAIN cs = 1 .. n /\ \A k \in 1 .. n : cs[k] \in Components
  BY <1>1, <1>2, PathComps
<1>4. PICK f : Steps(f, path) /\ abspath(path) = f[n]
  BY <1>0, <1>1, AbspathIs
<1>5. f \in [0 .. n -> PathStrings] /\ f[0] = Origin(path) /\ \A k \in 1 .. n : f[k] = Joined(f[k - 1], cs[k])
  BY <1>1, <1>2, <1>4 DEF Steps
<1>6. PICK o \in Strings : o = Origin(path) /\ Len(o) <= PathMax
  BY <1>0, OriginString
<1> DEFINE Q(k) == f[k] # Bad => \/ Len(f[k]) < PathMax
                                 \/ f[k] = o /\ \A j \in 1 .. k : cs[j] \in {Nothing, Dot}
           T == {k \in Nat : k <= n => Q(k)}
<1>7. 0 \in T
  BY <1>5, <1>6
<1>8. ASSUME NEW k \in Nat, k \in T PROVE k + 1 \in T
  <2> SUFFICES ASSUME k + 1 <= n, f[k + 1] # Bad PROVE Q(k + 1)
    OBVIOUS
  <2>1. PICK c \in Components : c = cs[k + 1]
    BY <1>3
  <2>2. f[k] \in PathStrings /\ f[k + 1] = Joined(f[k], c)
    <3>1. k + 1 \in 1 .. n /\ k \in 0 .. n /\ (k + 1) - 1 = k
      BY <1>3
    <3> QED BY <1>5, <2>1, <3>1
  <2>3. PICK x : x = f[k]
    OBVIOUS
  <2>4. x # Bad /\ x \in Strings
    BY <2>2, <2>3, JoinedString DEF PathStrings
  <2>5. \/ Len(x) < PathMax
        \/ x = o /\ \A j \in 1 .. k : cs[j] \in {Nothing, Dot}
    BY <1>3, <1>8, <2>3, <2>4
  <2>6. Len(x) \in Nat /\ Len(x) > 0 /\ Len(x) <= PathMax
    <3>1. Len(x) \in Nat /\ Len(x) > 0
      BY <2>4 DEF Strings
    <3> QED BY <1>0, <1>6, <2>5, <3>1
  <2>7. CASE c \in {Nothing, Dot}
    <3>1. f[k + 1] = x
      BY <2>2, <2>3, <2>7, JoinedString, TokenFacts
    <3>2. ASSUME \A j \in 1 .. k : cs[j] \in {Nothing, Dot}
          PROVE  \A j \in 1 .. k + 1 : cs[j] \in {Nothing, Dot}
      BY <2>1, <2>7, <3>2
    <3> QED BY <2>5, <3>1, <3>2
  <2>8. CASE c = DotDot
    <3>1. f[k + 1] = Up(x)
      BY <2>2, <2>3, <2>8, JoinedString, TokenFacts
    <3>2. Len(Up(x)) \in 1 .. Len(x) /\ (Len(x) > 1 => Len(Up(x)) < Len(x))
      BY <2>4, UpString
    <3>3. PathMax > 1
      BY FatPathAssumption
    <3>4. Len(Up(x)) < PathMax
      BY <1>0, <2>6, <3>2, <3>3
    <3> QED BY <3>1, <3>4
  <2>9. CASE c \notin {Nothing, Dot, DotDot}
    <3>1. f[k + 1] = Append(Separated(x), c) /\ Len(Separated(x)) + 1 < PathMax /\ c \in Names
      BY <2>2, <2>3, <2>9, JoinedString
    <3>2. Len(f[k + 1]) = Len(Separated(x)) + 1
      BY <2>4, <3>1, JoinString
    <3> QED BY <3>1, <3>2
  <2> QED BY <2>7, <2>8, <2>9
<1>9. Nat \subseteq T
  <2> HIDE DEF T
  <2> QED BY <1>7, <1>8, InductionOnSet
<1>10. \/ Len(f[n]) < PathMax
       \/ f[n] = o /\ \A j \in 1 .. n : cs[j] \in {Nothing, Dot}
  BY <1>3, <1>4, <1>9
<1>11. f[n] \in Strings
  <2>1. n \in 0 .. n
    BY <1>3
  <2> QED BY <1>4, <1>5, <2>1 DEF PathStrings
<1>12. Len(f[n]) \in Nat
  BY <1>11 DEF Strings
<1>13. Len(f[n]) <= PathMax
  BY <1>0, <1>6, <1>10, <1>12
<1>14. ASSUME ~Overruns(path) PROVE Len(f[n]) < PathMax
  <2>1. SUFFICES ASSUME ~(Len(f[n]) < PathMax) PROVE FALSE
    OBVIOUS
  <2>2. f[n] = o /\ \A j \in 1 .. n : cs[j] \in {Nothing, Dot}
    BY <1>10, <2>1
  <2>3. Len(o) >= PathMax
    <3>1. PICK l \in Nat : l = Len(o)
      BY <1>12, <2>2
    <3>2. ~(l < PathMax)
      BY <2>1, <2>2, <3>1
    <3>3. l >= PathMax
      BY <1>0, <3>2
    <3> QED BY <3>1, <3>3
  <2>4. \A k \in DOMAIN cs : cs[k] \in Names \cup {Nothing, Dot}
    BY <1>3, <2>2
  <2>5. Overruns(path)
    BY <1>2, <1>6, <2>3, <2>4 DEF Overruns
  <2> QED BY <1>14, <2>5
<1> QED BY <1>4, <1>11, <1>13, <1>14

\* walk follows a tower on a directory to the place it names.
LEMMA TowerWalk ==
  ASSUME FilesOK, NEW o \in Strings, Place(o) \in Dirs, NEW x, NEW m \in Nat, Tower(o, x, m)
  PROVE  walk(x) = IF Place(x) \in Dirs \cup DOMAIN files THEN Place(x) ELSE Bad
<1>1. CASE m = 0
  <2>1. x = o
    BY <1>1, TowerBase
  <2> QED BY <2>1, WalkIs
<1>2. CASE m # 0
  <2>1. PICK y \in Strings, d \in Names : x = Append(Separated(y), d)
    BY <1>2, TowerPop
  <2>2. x \in Strings
    BY <2>1, JoinString
  <2>3. Separated(y) \in Seq(Tokens) /\ d \in Tokens
    BY SeparatedString DEF Strings, Tokens
  <2>4. Last(x) = d
    BY <2>1, <2>3, FrontOfAppend
  <2>5. Last(x) # Slash
    BY <2>4, TokenFacts
  <2> QED BY <2>2, <2>5, WalkIs
<1> QED BY <1>1, <1>2

\* A string that abspath makes without climbing above its origin.
LEMMA AbspathInside ==
  ASSUME PathInv, ~overrun, NEW path \in Paths, Inside(path), abspath(path) # Bad
  PROVE  walk(abspath(path)) = Meant(path)
<1>0. cwd_path \in Strings /\ cwd_clus \in Dirs /\ FilesOK /\ Len(cwd_path) < PathMax /\ Place(cwd_path) = cwd_clus
  BY DEF PathInv
<1>1. PICK n : n = Len(path.comps)
  OBVIOUS
<1>2. PICK cs : cs = path.comps
  OBVIOUS
<1>3. n \in Nat /\ DOMAIN cs = 1 .. n /\ \A k \in 1 .. n : cs[k] \in Components
  BY <1>1, <1>2, PathComps
<1>4. PICK f : Steps(f, path) /\ abspath(path) = f[n]
  BY <1>0, <1>1, AbspathIs
<1>5. f \in [0 .. n -> PathStrings] /\ f[0] = Origin(path) /\ \A k \in 1 .. n : f[k] = Joined(f[k - 1], cs[k])
  BY <1>1, <1>2, <1>4 DEF Steps
<1>6. PICK at : MeantSteps(at, path) /\ Meant(path) = IF at[n] \in Dirs \cup DOMAIN files THEN at[n] ELSE Bad
  BY <1>0, <1>1, MeantIs
<1>7. /\ at \in [0 .. n -> Seq(Denotations)] /\ at[0] = IF path.abs THEN <<>> ELSE cwd_clus
      /\ \A k \in 1 .. n : at[k] = Denoted(at[k - 1], cs[k])
  BY <1>1, <1>2, <1>6 DEF MeantSteps
<1>8. PICK o \in Strings : o = Origin(path)
  BY <1>0, OriginString
<1>9. Place(o) = at[0] /\ Place(o) \in Dirs
  <2>1. CASE path.abs
    <3>1. o = <<Slash>> /\ at[0] = <<>>
      BY <1>0, <1>7, <1>8, <2>1, OriginString
    <3>2. <<>> \in Dirs
      BY FatPathAssumption
    <3> QED BY <3>1, <3>2, PlaceRoot
  <2>2. CASE ~path.abs
    <3>1. o = Separated(cwd_path)
      BY <1>0, <1>8, <2>2, OriginString
    <3> QED BY <1>0, <1>7, <2>2, <3>1, PlaceSeparated
  <2> QED BY <2>1, <2>2
<1>10. CASE path.abs \/ cwd_clus = <<>>
  \* From the root nothing climbs.
  <2>1. o = <<Slash>>
    <3>1. CASE path.abs
      BY <1>0, <1>8, <3>1, OriginString
    <3>2. CASE ~path.abs
      <4>1. o = Separated(cwd_path)
        BY <1>0, <1>8, <3>2, OriginString
      <4>2. cwd_path = <<Slash>>
        BY <1>0, <1>10, <3>2, PlaceEmpty
      <4>3. Len(<<Slash>>) = 1
        OBVIOUS
      <4> QED BY <4>1, <4>2, <4>3 DEF Separated
    <3> QED BY <3>1, <3>2
  <2>2. Up(o) = o /\ Place(o) = <<>>
    <3>1. Up(o) \in Strings /\ Len(Up(o)) \in 1 .. Len(o) /\ Len(o) = 1
      BY <1>8, <2>1, UpString
    <3>2. Len(Up(o)) = 1 /\ Up(o)[1] = Slash /\ Up(o) \in Seq(Tokens) /\ o \in Seq(Tokens) /\ o[1] = Slash
      BY <3>1 DEF Strings
    <3>3. \A i \in 1 .. Len(o) : Up(o)[i] = o[i]
      BY <3>1, <3>2
    <3>4. Up(o) = o
      BY <3>1, <3>2, <3>3, SeqEqual
    <3> QED BY <2>1, <3>4, PlaceRoot
  <2> DEFINE Q(k) == f[k] # Bad => Place(f[k]) = at[k] /\ \E m \in Nat : Tower(o, f[k], m)
             T == {k \in Nat : k <= n => Q(k)}
  <2>3. 0 \in T
    <3>1. Tower(o, o, 0)
      BY TowerBase
    <3> QED BY <1>5, <1>8, <1>9, <3>1
  <2>4. ASSUME NEW k \in Nat, k \in T PROVE k + 1 \in T
    <3> SUFFICES ASSUME k + 1 <= n, f[k + 1] # Bad PROVE Q(k + 1)
      OBVIOUS
    <3>1. PICK c \in Components : c = cs[k + 1]
      BY <1>3
    <3>2. f[k] \in PathStrings /\ f[k + 1] = Joined(f[k], c) /\ at[k + 1] = Denoted(at[k], c) /\ at[k] \in Seq(Denotations)
      <4>1. k + 1 \in 1 .. n /\ k \in 0 .. n /\ (k + 1) - 1 = k
        BY <1>3
      <4> QED BY <1>5, <1>7, <3>1, <4>1
    <3>3. PICK x : x = f[k]
      OBVIOUS
    <3>4. x # Bad /\ x \in Strings
      BY <3>2, <3>3, JoinedString DEF PathStrings
    <3>5. k <= n
      BY <1>3
    <3>6. Place(x) = at[k] /\ \E m \in Nat : Tower(o, x, m)
      BY <2>4, <3>3, <3>4, <3>5
    <3>7. PICK m \in Nat : Tower(o, x, m)
      BY <3>6
    <3>8. CASE c \in {Nothing, Dot}
      <4>1. f[k + 1] = x
        BY <3>2, <3>3, <3>8, JoinedString, TokenFacts
      <4>2. at[k + 1] = at[k]
        BY <3>2, <3>8, DenotedIs
      <4> QED BY <3>6, <4>1, <4>2
    <3>9. CASE c = DotDot
      <4>1. f[k + 1] = Up(x)
        BY <3>2, <3>3, <3>9, JoinedString, TokenFacts
      <4>2. at[k + 1] = IF at[k] = <<>> THEN <<>> ELSE Front(at[k])
        BY <3>2, <3>9, DenotedIs
      <4>3. CASE m = 0
        <5>1. x = o
          BY <3>7, <4>3, TowerBase
        <5> QED BY <2>2, <3>6, <4>1, <4>2, <5>1
      <4>4. CASE m # 0
        <5>1. PICK y \in Strings, d \in Names : x = Append(Separated(y), d) /\ Tower(o, y, m - 1)
          BY <3>7, <4>4, TowerPop
        <5>2. Up(x) = y /\ Place(x) = Append(Place(y), EntryOf(d))
          BY <5>1, UpJoin, PlaceJoined
        <5>3. Place(y) \in Seq(Elements) /\ EntryOf(d) \in Elements
          BY PlaceSeparated, EntryOfIs
        <5>4. at[k] # <<>> /\ Front(at[k]) = Place(y)
          BY <3>6, <5>2, <5>3, FrontOfAppend
        <5>5. m - 1 \in Nat
          BY <4>4
        <5> QED BY <4>1, <4>2, <5>1, <5>2, <5>4, <5>5
      <4> QED BY <4>3, <4>4
    <3>10. CASE c \notin {Nothing, Dot, DotDot}
      <4>1. f[k + 1] = Append(Separated(x), c) /\ c \in Names
        BY <3>2, <3>3, <3>10, JoinedString
      <4>2. at[k + 1] = Append(at[k], EntryOf(c))
        BY <3>2, <4>1, DenotedIs
      <4>3. Tower(o, f[k + 1], m + 1) /\ m + 1 \in Nat
        BY <3>7, <4>1, TowerPush
      <4>4. Place(f[k + 1]) = Append(Place(x), EntryOf(c))
        BY <3>4, <4>1, PlaceJoined
      <4> QED BY <3>6, <4>2, <4>3, <4>4
    <3> QED BY <3>8, <3>9, <3>10
  <2>5. Nat \subseteq T
    <3> HIDE DEF T
    <3> QED BY <2>3, <2>4, InductionOnSet
  <2> HIDE DEF Q
  <2>6. Q(n)
    BY <1>3, <2>5
  <2>7. Place(f[n]) = at[n] /\ \E m \in Nat : Tower(o, f[n], m)
    BY <1>4, <2>6 DEF Q
  <2>8. walk(f[n]) = IF Place(f[n]) \in Dirs \cup DOMAIN files THEN Place(f[n]) ELSE Bad
    BY <1>0, <1>9, <2>7, TowerWalk
  <2> QED BY <1>4, <1>6, <2>7, <2>8
<1>11. CASE ~path.abs /\ cwd_clus # <<>>
  <2>1. \A k \in 1 .. n : CountOf(cs, k, {DotDot}) <= CountOf(cs, k, Names)
    BY <1>2, <1>3, <1>11 DEF Inside
  <2> DEFINE Q(k) == f[k] # Bad =>
               /\ Place(f[k]) = at[k]
               /\ \E m \in Nat : Tower(o, f[k], m) /\ m + CountOf(cs, k, {DotDot}) = CountOf(cs, k, Names)
             T == {k \in Nat : k <= n => Q(k)}
  <2>3. 0 \in T
    <3>1. Tower(o, o, 0)
      BY TowerBase
    <3>2. CountOf(cs, 0, {DotDot}) = 0 /\ CountOf(cs, 0, Names) = 0
      BY CountStep
    <3>3. 0 + CountOf(cs, 0, {DotDot}) = CountOf(cs, 0, Names)
      BY <3>2
    <3> QED BY <1>5, <1>8, <1>9, <3>1, <3>3
  <2>4. ASSUME NEW k \in Nat, k \in T PROVE k + 1 \in T
    <3> SUFFICES ASSUME k + 1 <= n, f[k + 1] # Bad PROVE Q(k + 1)
      OBVIOUS
    <3>1. PICK c \in Components : c = cs[k + 1]
      BY <1>3
    <3>2. f[k] \in PathStrings /\ f[k + 1] = Joined(f[k], c) /\ at[k + 1] = Denoted(at[k], c) /\ at[k] \in Seq(Denotations)
      <4>1. k + 1 \in 1 .. n /\ k \in 0 .. n /\ (k + 1) - 1 = k
        BY <1>3
      <4> QED BY <1>5, <1>7, <3>1, <4>1
    <3>3. PICK x : x = f[k]
      OBVIOUS
    <3>4. x # Bad /\ x \in Strings
      BY <3>2, <3>3, JoinedString DEF PathStrings
    <3>5. k <= n
      BY <1>3
    <3>6. Place(x) = at[k]
      BY <2>4, <3>3, <3>4, <3>5
    <3>7. PICK m \in Nat : Tower(o, x, m) /\ m + CountOf(cs, k, {DotDot}) = CountOf(cs, k, Names)
      BY <2>4, <3>3, <3>4, <3>5
    <3>70. PICK u \in Nat, v \in Nat : u = CountOf(cs, k, {DotDot}) /\ v = CountOf(cs, k, Names)
      BY CountStep
    <3>71. /\ CountOf(cs, k + 1, {DotDot}) = u + (IF c \in {DotDot} THEN 1 ELSE 0)
           /\ CountOf(cs, k + 1, Names) = v + (IF c \in Names THEN 1 ELSE 0)
      BY <3>1, <3>70, CountStep
    <3>72. m + u = v
      BY <3>7, <3>70
    <3>8. CASE c \in {Nothing, Dot}
      <4>1. f[k + 1] = x
        BY <3>2, <3>3, <3>8, JoinedString, TokenFacts
      <4>2. at[k + 1] = at[k]
        BY <3>2, <3>8, DenotedIs
      <4>3. c \notin Names /\ c \notin {DotDot}
        BY <3>8, TokenFacts
      <4>4. m + CountOf(cs, k + 1, {DotDot}) = CountOf(cs, k + 1, Names)
        <5>1. CountOf(cs, k + 1, {DotDot}) = u + 0 /\ CountOf(cs, k + 1, Names) = v + 0
          BY <3>71, <4>3
        <5>2. m + (u + 0) = v + 0
          BY <3>72
        <5> QED BY <5>1, <5>2, Zenon
      <4> QED BY <3>6, <3>7, <4>1, <4>2, <4>4
    <3>9. CASE c = DotDot
      <4>1. f[k + 1] = Up(x)
        BY <3>2, <3>3, <3>9, JoinedString, TokenFacts
      <4>2. at[k + 1] = IF at[k] = <<>> THEN <<>> ELSE Front(at[k])
        BY <3>2, <3>9, DenotedIs
      <4>3. c \notin Names /\ c \in {DotDot}
        BY <3>9, TokenFacts
      <4>4. CountOf(cs, k + 1, {DotDot}) = u + 1 /\ CountOf(cs, k + 1, Names) = v
        BY <3>71, <4>3
      <4>5. u + 1 <= v
        <5>1. k + 1 \in 1 .. n
          BY <1>3
        <5> QED BY <2>1, <4>4, <5>1
      <4>6. m > 0 /\ m - 1 \in Nat /\ (m - 1) + (u + 1) = v
        BY <3>72, <4>5
      <4>7. PICK y \in Strings, d \in Names : x = Append(Separated(y), d) /\ Tower(o, y, m - 1)
        BY <3>7, <4>6, TowerPop
      <4>8. Up(x) = y /\ Place(x) = Append(Place(y), EntryOf(d))
        BY <4>7, UpJoin, PlaceJoined
      <4>9. Place(y) \in Seq(Elements) /\ EntryOf(d) \in Elements
        BY PlaceSeparated, EntryOfIs
      <4>10. at[k] # <<>> /\ Front(at[k]) = Place(y)
        BY <3>6, <4>8, <4>9, FrontOfAppend
      <4>11. Tower(o, f[k + 1], m - 1) /\ Place(f[k + 1]) = at[k + 1]
        BY <4>1, <4>2, <4>7, <4>8, <4>10
      <4>12. (m - 1) + CountOf(cs, k + 1, {DotDot}) = CountOf(cs, k + 1, Names)
        BY <4>4, <4>6
      <4> QED BY <4>6, <4>11, <4>12
    <3>10. CASE c \notin {Nothing, Dot, DotDot}
      <4>1. f[k + 1] = Append(Separated(x), c) /\ c \in Names
        BY <3>2, <3>3, <3>10, JoinedString
      <4>2. at[k + 1] = Append(at[k], EntryOf(c))
        BY <3>2, <4>1, DenotedIs
      <4>3. Tower(o, f[k + 1], m + 1) /\ m + 1 \in Nat
        BY <3>7, <4>1, TowerPush
      <4>4. Place(f[k + 1]) = Append(Place(x), EntryOf(c))
        BY <3>4, <4>1, PlaceJoined
      <4>5. c \notin {DotDot}
        BY <3>10
      <4>6. (m + 1) + CountOf(cs, k + 1, {DotDot}) = CountOf(cs, k + 1, Names)
        <5>1. CountOf(cs, k + 1, {DotDot}) = u + 0 /\ CountOf(cs, k + 1, Names) = v + 1
          BY <3>71, <4>1, <4>5
        <5> QED BY <3>72, <5>1
      <4> QED BY <3>6, <4>2, <4>3, <4>4, <4>6
    <3> QED BY <3>8, <3>9, <3>10
  <2>5. Nat \subseteq T
    <3> HIDE DEF T
    <3> QED BY <2>3, <2>4, InductionOnSet
  <2> HIDE DEF Q
  <2>6. Q(n)
    BY <1>3, <2>5
  <2>7. Place(f[n]) = at[n] /\ \E m \in Nat : Tower(o, f[n], m)
    BY <1>4, <2>6 DEF Q
  <2>8. walk(f[n]) = IF Place(f[n]) \in Dirs \cup DOMAIN files THEN Place(f[n]) ELSE Bad
    BY <1>0, <1>9, <2>7, TowerWalk
  <2> QED BY <1>4, <1>6, <2>7, <2>8
<1> QED BY <1>10, <1>11

\* What to83 makes of a name can be an entry on the disk, and is the one
\* that walk finds unless the name ends in a dot.
LEMMA DiskNames ==
  ASSUME NEW c \in Names, to83(c) # Bad
  PROVE  to83(c) \in OnDisk /\ (c[2] # "" => to83(c) = EntryOf(c))
<1>1. PICK x : x = IF c[2] = NoExt THEN "" ELSE Upper[c[2]]
  OBVIOUS
<1>2. to83(c) = <<Upper[c[1]], x>>
  BY <1>1 DEF to83
<1>3. "" \in Parts /\ "" # NoExt
  BY FatPathAssumption DEF NoExt
<1>4. x \in Parts /\ x # "." /\ x # NoExt
  BY <1>1, <1>3, NameParts
<1>5. to83(c) \in OnDisk
  <2>1. PICK u \in Parts : u = Upper[c[1]]
    BY NameParts
  <2>2. PICK S : S = Parts \ {".", NoExt}
    OBVIOUS
  <2>3. x \in S
    BY <1>4, <2>2
  <2>4. OnDisk = Parts \X S
    BY <2>2 DEF OnDisk
  <2>5. <<u, x>> \in OnDisk
    BY <2>3, <2>4
  <2>6. to83(c) = <<u, x>>
    BY <1>2, <2>1
  <2> QED BY <2>5, <2>6
<1>6. ASSUME c[2] # "" PROVE to83(c) = EntryOf(c)
  <2>1. EntryOf(c) = <<Upper[c[1]], EntryOf(c)[2]>>
    BY DEF EntryOf
  <2>2. EntryOf(c)[2] = x
    BY <1>1, <1>6, EntryOfIs
  <2> QED BY <1>2, <2>1, <2>2
<1> QED BY <1>5, <1>6

\* fat_write takes a path apart at the slash in front of its last name.
LEMMA SaveIs ==
  ASSUME PathInv, NEW path \in Paths, SavePlace(path) # Bad
  PROVE  \E s \in Strings, c \in Names :
            /\ abspath(path) = Append(s, c) /\ abspath(path) \in Strings
            /\ Place(s) \in Dirs /\ to83(c) # Bad
            /\ SavePlace(path) = Append(Place(s), to83(c)) /\ SavePlace(path) \notin Dirs
<1>1. PICK abs : abs = abspath(path)
  OBVIOUS
<1>2. abs # Bad
  BY <1>1 DEF SavePlace
<1>3. abs \in Strings
  BY <1>1, <1>2, AbspathLen
<1>4. PICK n : n = Len(abs)
  OBVIOUS
<1>5. abs \in Seq(Tokens) /\ n \in Nat /\ n > 0 /\ abs[1] = Slash
  BY <1>3, <1>4 DEF Strings
<1>6. \A i \in 2 .. n : abs[i] # Slash => abs[i - 1] = Slash
  BY <1>3, <1>4 DEF Strings
<1> DEFINE ends(i) == abs[i] = Slash /\ \A j \in i + 1 .. n : abs[j] # Slash
<1>7. \E i \in 1 .. n : ends(i)
  <2>1. PICK S : S = {i \in 1 .. n : abs[i] = Slash}
    OBVIOUS
  <2>2. S \subseteq 1 .. n /\ 1 \in S
    BY <1>5, <2>1
  <2>3. PICK m \in S : \A k \in S : k <= m
    BY <1>5, <2>2, MaxExists
  <2>4. m \in 1 .. n /\ abs[m] = Slash
    BY <2>1, <2>3
  <2>5. ASSUME NEW j \in m + 1 .. n, abs[j] = Slash PROVE FALSE
    <3>1. j \in S /\ j > m
      BY <1>5, <2>1, <2>4, <2>5
    <3> QED BY <2>3, <2>4, <3>1
  <2> QED BY <2>4, <2>5
<1>8. PICK last : last = CHOOSE i \in 1 .. n : ends(i)
  OBVIOUS
<1>9. last \in 1 .. n /\ ends(last)
  <2> HIDE DEF ends
  <2> QED BY <1>7, <1>8
<1>10. PICK dir : dir = SaveDir(abs, last)
  OBVIOUS
<1>11. PICK name : name = to83(Leaf(abs, last))
  OBVIOUS
<1>12. SavePlace(path) = IF dir \notin Dirs \/ name = Bad THEN Bad
                         ELSE IF Append(dir, name) \in Dirs THEN Bad ELSE Append(dir, name)
  BY <1>1, <1>2, <1>4, <1>8, <1>10, <1>11 DEF SavePlace
<1>13. dir \in Dirs /\ name # Bad /\ Append(dir, name) \notin Dirs /\ SavePlace(path) = Append(dir, name)
  BY <1>12
<1>14. last # n
  <2>1. ASSUME last = n PROVE FALSE
    <3>1. Leaf(abs, last) = Nothing
      BY <1>4, <2>1 DEF Leaf
    <3>2. to83(Nothing) = Bad
      BY DEF to83, Nothing
    <3> QED BY <1>11, <1>13, <3>1, <3>2
  <2> QED BY <2>1
<1>15. n = last + 1
  <2>1. ASSUME last + 2 <= n PROVE FALSE
    <3>1. last + 2 \in 2 .. n /\ (last + 2) - 1 = last + 1 /\ last + 1 \in last + 1 .. n /\ last + 2 \in last + 1 .. n
      BY <1>5, <1>9, <2>1
    <3>2. abs[last + 2] # Slash /\ abs[last + 1] # Slash
      BY <1>9, <3>1
    <3> QED BY <1>6, <3>1, <3>2
  <2> QED BY <1>5, <1>9, <1>14, <2>1
<1>16. PICK s : s = SubSeq(abs, 1, last)
  OBVIOUS
<1>17. s \in Strings
  BY <1>3, <1>4, <1>9, <1>16, PrefixString
<1>18. PICK c : c = abs[n]
  OBVIOUS
<1>19. c \in Names
  <2>1. n \in last + 1 .. n /\ n \in 1 .. n
    BY <1>5, <1>15
  <2>2. c # Slash
    BY <1>9, <1>18, <2>1
  <2>3. c \in Tokens
    BY <1>4, <1>5, <1>18, <2>1
  <2> QED BY <2>2, <2>3 DEF Tokens
<1>20. abs = Append(s, c)
  <2>1. abs # <<>>
    BY <1>4, <1>5
  <2>2. n - 1 = last
    BY <1>5, <1>9, <1>15
  <2>3. Front(abs) = s /\ Last(abs) = c
    BY <1>4, <1>16, <1>18, <2>2 DEF Front, Last
  <2> QED BY <1>5, <2>1, <2>3, FrontAndLast
<1>21. Leaf(abs, last) = c
  BY <1>4, <1>14, <1>15, <1>18 DEF Leaf
<1>22. dir = walk(s)
  BY <1>10, <1>16 DEF SaveDir
<1>23. FilesOK
  BY DEF PathInv
<1>24. Place(s) = dir
  BY <1>13, <1>17, <1>22, <1>23, WalkIs, BadIsNoPlace
<1> QED BY <1>1, <1>3, <1>11, <1>13, <1>17, <1>19, <1>20, <1>21, <1>24

\* fat_read looks for a file where fat_write has saved it.
LEMMA PathSaved == PathInv => SavedIsFound
<1> SUFFICES ASSUME PathInv, NEW path \in Paths, SavePlace(path) \in DOMAIN files, Last(abspath(path))[2] # ""
             PROVE  Resolved(path) = SavePlace(path)
  BY DEF SavedIsFound
<1>1. FilesOK
  BY DEF PathInv
<1>2. SavePlace(path) # Bad
  BY <1>1, BadIsNoPlace
<1>3. PICK s \in Strings, c \in Names :
            /\ abspath(path) = Append(s, c) /\ abspath(path) \in Strings
            /\ Place(s) \in Dirs /\ to83(c) # Bad
            /\ SavePlace(path) = Append(Place(s), to83(c)) /\ SavePlace(path) \notin Dirs
  BY <1>2, SaveIs
<1>4. c \in Tokens /\ c # Slash
  BY TokenFacts DEF Tokens
<1>5. Last(abspath(path)) = c
  <2>1. s \in Seq(Tokens)
    BY DEF Strings
  <2>2. Last(Append(s, c)) = c
    BY <1>4, <2>1, FrontOfAppend
  <2> QED BY <1>3, <2>2
<1>6. to83(c) = EntryOf(c)
  BY <1>3, <1>5, DiskNames
<1>7. Place(abspath(path)) = SavePlace(path)
  BY <1>3, <1>4, <1>6, PlaceAppend
<1>8. walk(abspath(path)) = SavePlace(path)
  BY <1>1, <1>3, <1>4, <1>5, <1>7, WalkIs
<1>9. abspath(path) # Bad
  BY <1>3, TokenFacts
<1> QED BY <1>8, <1>9 DEF Resolved, Lead

\* What the invariant says of the strings: abspath and walk lead where a path
\* means to lead, and the prompt, its cluster and "ls" agree.
LEMMA PathAgrees == PathInv => PathTypeOK /\ ResolvesInside /\ CwdAgrees
<1> SUFFICES ASSUME PathInv PROVE PathTypeOK /\ ResolvesInside /\ CwdAgrees
  OBVIOUS
<1>1. PathTypeOK
  <2>1. cwd_path \in Seq(Names \cup {Slash})
    BY DEF PathInv, Strings, Tokens
  <2> QED BY <2>1 DEF PathInv, FilesOK, PathTypeOK
<1>2. ResolvesInside
  BY AbspathInside DEF ResolvesInside
<1>3. ASSUME ~overrun PROVE walk(cwd_path) = cwd_clus
  BY <1>3, WalkIs DEF PathInv
<1>4. ASSUME ~overrun, NEW here, NEW empty,
             here = [abs |-> FALSE, comps |-> <<Dot>>], empty = [here EXCEPT !.comps = <<>>]
      PROVE  fat_list(here) = fat_list(empty)
  <2>1. empty = [abs |-> FALSE, comps |-> <<>>] /\ here.comps = <<Dot>> /\ ~here.abs
    BY <1>4
  <2>2. cwd_path \in Strings /\ FilesOK /\ Place(cwd_path) = cwd_clus /\ cwd_clus \in Dirs /\ Len(cwd_path) < PathMax
    BY <1>4 DEF PathInv
  <2>3. PICK o : o = Separated(cwd_path)
    OBVIOUS
  <2>4. o \in Strings /\ Place(o) = cwd_clus
    BY <2>2, <2>3, SeparatedString, PlaceSeparated
  <2>5. Origin(here) = o /\ Origin(empty) = o
    <3>1. SubSeq(cwd_path, 1, Len(cwd_path)) = cwd_path
      BY <2>2, SubSeqFull DEF Strings
    <3> QED BY <2>1, <2>2, <2>3, <3>1 DEF Origin
  <2>6. abspath(empty) = o
    <3>1. PICK m : m = Len(empty.comps)
      OBVIOUS
    <3>2. m = 0
      BY <2>1, <3>1
    <3> DEFINE P(g) == g = [k \in 0 .. m |-> IF k = 0 THEN Origin(empty) ELSE Joined(g[k - 1], empty.comps[k])]
    <3>3. P([k \in 0 .. 0 |-> o])
      BY <2>5, <3>2
    <3>4. PICK g : g = CHOOSE x : P(x)
      OBVIOUS
    <3>5. P(g)
      <4> HIDE DEF P
      <4> QED BY <3>3, <3>4
    <3>6. abspath(empty) = g[m]
      BY <3>1, <3>4 DEF abspath
    <3>7. g[0] = o
      BY <2>5, <3>2, <3>5
    <3> QED BY <3>2, <3>6, <3>7
  <2>7. abspath(here) = o
    <3>1. PICK m : m = Len(here.comps)
      OBVIOUS
    <3>2. m = 1 /\ here.comps[1] = Dot
      BY <2>1, <3>1
    <3> DEFINE P(g) == g = [k \in 0 .. m |-> IF k = 0 THEN Origin(here) ELSE Joined(g[k - 1], here.comps[k])]
    <3>3. Joined(o, Dot) = o
      BY <2>4, TokenFacts DEF Joined
    <3>4. PICK f : f = [k \in 0 .. m |-> o]
      OBVIOUS
    <3>5. P(f)
      <4>1. ASSUME NEW k \in 0 .. m PROVE f[k] = IF k = 0 THEN Origin(here) ELSE Joined(f[k - 1], here.comps[k])
        <5>1. CASE k = 0
          BY <2>5, <3>4, <5>1
        <5>2. CASE k # 0
          <6>1. k = 1 /\ f[k] = o /\ f[k - 1] = o
            BY <3>2, <3>4, <5>2
          <6> QED BY <3>2, <3>3, <6>1
        <5> QED BY <5>1, <5>2
      <4>2. f = [k \in 0 .. m |-> f[k]]
        BY <3>4
      <4> QED BY <4>1, <4>2
    <3>6. PICK g : g = CHOOSE x : P(x)
      OBVIOUS
    <3>7. P(g)
      <4> HIDE DEF P
      <4> QED BY <3>5, <3>6
    <3>8. abspath(here) = g[m]
      BY <3>1, <3>6 DEF abspath
    <3>9. g[0] = o
      BY <2>5, <3>2, <3>7
    <3>10. g[1] = Joined(g[1 - 1], Dot)
      BY <3>2, <3>7
    <3>11. 1 - 1 = 0
      OBVIOUS
    <3> QED BY <3>2, <3>3, <3>8, <3>9, <3>10, <3>11
  <2>8. walk(o) = cwd_clus
    BY <2>2, <2>4, WalkIs
  <2>9. o # Bad
    BY <2>4, TokenFacts
  <2>10. ~IsEmpty(here) /\ IsEmpty(empty)
    BY <2>1 DEF IsEmpty
  <2>11. Resolved(here) = cwd_clus
    BY <2>7, <2>8, <2>9 DEF Resolved, Lead
  <2> QED BY <2>6, <2>7, <2>9, <2>10, <2>11 DEF fat_list
<1>5. CwdAgrees
  BY <1>3, <1>4 DEF CwdAgrees
<1> QED BY <1>1, <1>2, <1>5

-----------------------------------------------------------------------------
\* fat_mount starts in the root directory of an empty volume.
LEMMA PathInitial == PathInit => PathInv
<1> SUFFICES ASSUME PathInit PROVE PathInv
  OBVIOUS
<1>1. cwd_path = <<Slash>> /\ cwd_clus = <<>> /\ DOMAIN files = {}
  BY DEF PathInit, AtRoot
<1>2. Len(cwd_path) = 1
  BY <1>1
<1>3. PathMax \in Nat /\ PathMax > 1 /\ <<>> \in Dirs
  BY FatPathAssumption
<1>4. FilesOK
  BY <1>1 DEF FilesOK
<1>5. Len(cwd_path) < PathMax /\ Len(cwd_path) <= PathMax
  BY <1>2, <1>3
<1> QED BY <1>1, <1>3, <1>4, <1>5, PlaceRoot DEF PathInv

\* fat_chdir keeps string and cluster together, or changes neither.
LEMMA ChdirStep ==
  ASSUME PathInv, ~overrun, NEW path \in Paths, fat_chdir(path)
  PROVE  PathInv'
<1>1. PICK t : t = Target(path)
  OBVIOUS
<1>2. t \in Paths
  BY <1>1 DEF Target, Paths
<1>3. files' = files /\ overrun' = (overrun \/ Overruns(t))
  BY <1>1 DEF fat_chdir
<1>4. FilesOK' /\ FilesOK
  BY <1>3 DEF PathInv, FilesOK
<1>5. CASE Resolved(t) \in Dirs
  <2>1. cwd_path' = abspath(t) /\ cwd_clus' = Resolved(t)
    BY <1>1, <1>5 DEF fat_chdir, NewCwd
  <2>2. abspath(t) # Bad
    BY <1>4, <1>5, BadIsNoPlace DEF Resolved, Lead
  <2>3. abspath(t) \in Strings /\ Len(abspath(t)) <= PathMax /\ (~Overruns(t) => Len(abspath(t)) < PathMax)
    BY <1>2, <2>2, AbspathLen
  <2>4. Resolved(t) = walk(abspath(t))
    BY <2>2 DEF Resolved, Lead
  <2>5. Place(abspath(t)) = Resolved(t)
    BY <1>4, <1>5, <2>3, <2>4, WalkIs, BadIsNoPlace
  <2> QED BY <1>3, <1>4, <1>5, <2>1, <2>3, <2>5 DEF PathInv
<1>6. CASE Resolved(t) \notin Dirs
  <2>1. cwd_path' = cwd_path /\ cwd_clus' = cwd_clus
    BY <1>1, <1>6 DEF fat_chdir
  <2> QED BY <1>3, <1>4, <2>1 DEF PathInv
<1> QED BY <1>5, <1>6

\* fat_write adds files to directories only.
LEMMA WriteStep ==
  ASSUME PathInv, ~overrun, NEW path \in Paths, NEW v, fat_write(path, v)
  PROVE  PathInv'
<1>1. cwd_path' = cwd_path /\ cwd_clus' = cwd_clus
  BY DEF fat_write
<1>2. FilesOK
  BY DEF PathInv
<1>3. FilesOK'
  <2>1. PICK p : p = SavePlace(path)
    OBVIOUS
  <2>2. CASE p = Bad
    <3>1. files' = files
      BY <2>1, <2>2 DEF fat_write
    <3> QED BY <1>2, <3>1 DEF FilesOK
  <2>3. CASE p # Bad
    <3>1. DOMAIN files' = DOMAIN files \cup {p}
      BY <2>1, <2>3 DEF fat_write
    <3>2. PICK s \in Strings, c \in Names :
            Place(s) \in Dirs /\ to83(c) # Bad /\ p = Append(Place(s), to83(c)) /\ p \notin Dirs
      BY <2>1, <2>3, SaveIs
    <3>3. Place(s) \in Seq(OnDisk)
      BY <3>2, FatPathAssumption DEF OnDisk
    <3>4. to83(c) \in OnDisk
      BY <3>2, DiskNames
    <3>5. p \in Seq(OnDisk)
      BY <3>2, <3>3, <3>4
    <3>6. p # <<>> /\ Front(p) = Place(s)
      BY <3>2, <3>3, <3>4, FrontOfAppend
    <3> QED BY <1>2, <3>1, <3>2, <3>5, <3>6 DEF FilesOK
  <2> QED BY <2>2, <2>3
<1> QED BY <1>1, <1>3 DEF PathInv

\* Every file command keeps the invariant.
LEMMA PathStep == PathInv /\ PathNext => PathInv'
<1> SUFFICES ASSUME PathInv, PathNext PROVE PathInv'
  OBVIOUS
<1>1. ~overrun
  BY DEF PathNext
<1>2. CASE fat_mount
  <2>1. cwd_path' = <<Slash>> /\ cwd_clus' = <<>> /\ files' = files
    BY <1>2 DEF fat_mount
  <2>2. Len(<<Slash>>) = 1
    OBVIOUS
  <2>3. PathMax \in Nat /\ PathMax > 1 /\ <<>> \in Dirs
    BY FatPathAssumption
  <2>4. FilesOK'
    BY <2>1 DEF PathInv, FilesOK
  <2>5. Len(cwd_path') < PathMax /\ Len(cwd_path') <= PathMax
    BY <2>1, <2>2, <2>3
  <2> QED BY <2>1, <2>3, <2>4, <2>5, PlaceRoot DEF PathInv
<1>3. CASE \E path \in Paths : fat_query(path)
  BY <1>1, <1>3 DEF fat_query, PathInv, FilesOK
<1>4. CASE \E path \in Paths : fat_chdir(path)
  BY <1>1, <1>4, ChdirStep
<1>5. CASE \E path \in Paths : \E v \in Contents : fat_write(path, v)
  BY <1>1, <1>5, WriteStep
<1> QED BY <1>2, <1>3, <1>4, <1>5 DEF PathNext, SYS_CHDIR, SYS_LISTDIR, SYS_FREAD, SYS_FWRITE

\* A step of another session keeps it.
LEMMA PathStutter == PathInv /\ UNCHANGED pathvars => PathInv'
  BY DEF PathInv, FilesOK, pathvars
-----------------------------------------------------------------------------
(* Numbers and the command moon.                                           *)

\* The run of a loop that reads the digits ds.
ValueRun(f, ds, b) ==
  /\ f \in [0 .. Len(ds) -> Nat] /\ f[0] = 0
  /\ \A k \in 1 .. Len(ds) : f[k] = f[k - 1] * b + ds[k]

\* ValueOf is the end of such a run.
LEMMA ValueIs ==
  ASSUME NEW ds \in Seq(Nat), NEW b \in Nat
  PROVE  \E f : ValueRun(f, ds, b) /\ ValueOf(ds, b) = f[Len(ds)]
<1>1. PICK n : n = Len(ds)
  OBVIOUS
<1>2. PICK a : a = 0
  OBVIOUS
<1>3. n \in Nat /\ \A k \in 1 .. n : ds[k] \in Nat
  BY <1>1
<1>4. a = 0
  BY <1>2
<1>5. a \in Nat
  BY <1>2
<1>55. ASSUME NEW k \in 1 .. n, NEW x \in Nat PROVE x * b + ds[k] \in Nat
  <2>1. ds[k] \in Nat
    BY <1>3
  <2> QED BY <2>1
<1> DEFINE h == [q \in (1 .. n) \X Nat |-> q[2] * b + ds[q[1]]]
<1>6. h \in [(1 .. n) \X Nat -> Nat]
  BY <1>55
<1>7. PICK e : e = h
  OBVIOUS
<1>8. e \in [(1 .. n) \X Nat -> Nat]
  BY <1>6, <1>7
<1>9. ASSUME NEW k \in 1 .. n, NEW x \in Nat PROVE e[<<k, x>>] = x * b + ds[k]
  BY <1>7
<1> HIDE DEF h
<1>10. PICK f : Solves(f, n, Nat, a, e)
  BY <1>3, <1>5, <1>8, RecursionExists
<1> DEFINE P(g) == g = [k \in 0 .. n |-> IF k = 0 THEN 0 ELSE g[k - 1] * b + ds[k]]
<1>11. P(f)
  <2>1. f \in [0 .. n -> Nat] /\ f[0] = a /\ \A k \in 1 .. n : f[k] = e[<<k, f[k - 1]>>]
    BY <1>10 DEF Solves
  <2>2. ASSUME NEW k \in 1 .. n PROVE f[k] = f[k - 1] * b + ds[k]
    <3>1. f[k - 1] \in Nat
      BY <1>3, <2>1
    <3> QED BY <1>9, <2>1, <3>1
  <2>3. ASSUME NEW k \in 0 .. n PROVE f[k] = IF k = 0 THEN 0 ELSE f[k - 1] * b + ds[k]
    <3>1. CASE k = 0
      BY <1>4, <2>1, <3>1
    <3>2. CASE k # 0
      <4>1. k \in 1 .. n
        BY <1>3, <3>2
      <4> QED BY <2>2, <3>2, <4>1
    <3> QED BY <3>1, <3>2
  <2>4. f = [k \in 0 .. n |-> f[k]]
    BY <2>1
  <2> QED BY <2>3, <2>4
<1>12. PICK g : g = CHOOSE x : P(x)
  OBVIOUS
<1>13. P(g)
  <2> HIDE DEF P
  <2> QED BY <1>11, <1>12
<1>14. ValueOf(ds, b) = g[n]
  BY <1>1, <1>12 DEF ValueOf
<1>15. g[0] = a
  <2>1. 0 \in 0 .. n
    BY <1>3
  <2> QED BY <1>4, <1>13, <2>1
<1>16. ASSUME NEW k \in 1 .. n PROVE g[k] = g[k - 1] * b + ds[k]
  <2>1. k \in 0 .. n /\ k # 0
    BY <1>3
  <2> QED BY <1>13, <2>1
<1>17. g = [k \in 0 .. n |-> g[k]]
  BY <1>13
<1>18. Solves(g, n, Nat, a, e)
  <2>1. \A k \in 1 .. n : g[k - 1] \in Nat => g[k] = e[<<k, g[k - 1]>>]
    BY <1>9, <1>16
  <2> QED BY <1>3, <1>5, <1>8, <1>15, <1>17, <2>1, RecursionSolved
<1>19. g \in [0 .. n -> Nat]
  BY <1>18 DEF Solves
<1>20. ValueRun(g, ds, b)
  BY <1>1, <1>2, <1>15, <1>16, <1>19 DEF ValueRun
<1> QED BY <1>1, <1>14, <1>20

\* The quotients u, u / b, ... of emit_dec and put_dec.
Quotients(f, u, b) ==
  f \in [0 .. u + 1 -> Nat] /\ f[0] = u /\ \A k \in 1 .. u + 1 : f[k] = f[k - 1] \div b

\* They end in zero before a number of digits that has nothing to do with the
\* buffer, and the digits are their remainders.
LEMMA NumeralIs ==
  ASSUME NEW u \in Nat, NEW b \in Nat, b > 1
  PROVE  \E f, m :
            /\ Quotients(f, u, b) /\ m \in 1 .. u + 1 /\ f[m] = 0 /\ (\A i \in 1 .. m - 1 : f[i] # 0)
            /\ Numeral(u, b) = [k \in 1 .. m |-> f[m - k] % b]
<1>1. PICK n : n = u + 1
  OBVIOUS
<1>2. PICK a : a = u
  OBVIOUS
<1>3. n \in Nat
  BY <1>1
<1>4. a = u
  BY <1>2
<1>5. a \in Nat
  BY <1>2
<1>55. \A x \in Nat : x \div b \in Nat
  BY SMT
<1> DEFINE h == [q \in (1 .. n) \X Nat |-> q[2] \div b]
<1>6. h \in [(1 .. n) \X Nat -> Nat]
  BY <1>55
<1>7. PICK e : e = h
  OBVIOUS
<1>8. e \in [(1 .. n) \X Nat -> Nat]
  BY <1>6, <1>7
<1>9. ASSUME NEW k \in 1 .. n, NEW x \in Nat PROVE e[<<k, x>>] = x \div b
  BY <1>7
<1> HIDE DEF h
<1>10. PICK f : Solves(f, n, Nat, a, e)
  BY <1>3, <1>5, <1>8, RecursionExists
<1> DEFINE P(g) == g = [k \in 0 .. n |-> IF k = 0 THEN u ELSE g[k - 1] \div b]
<1>11. P(f)
  <2>1. f \in [0 .. n -> Nat] /\ f[0] = a /\ \A k \in 1 .. n : f[k] = e[<<k, f[k - 1]>>]
    BY <1>10 DEF Solves
  <2>2. ASSUME NEW k \in 1 .. n PROVE f[k] = f[k - 1] \div b
    <3>1. f[k - 1] \in Nat
      BY <1>3, <2>1
    <3> QED BY <1>9, <2>1, <3>1
  <2>3. ASSUME NEW k \in 0 .. n PROVE f[k] = IF k = 0 THEN u ELSE f[k - 1] \div b
    <3>1. CASE k = 0
      BY <1>4, <2>1, <3>1
    <3>2. CASE k # 0
      <4>1. k \in 1 .. n
        BY <1>3, <3>2
      <4> QED BY <2>2, <3>2, <4>1
    <3> QED BY <3>1, <3>2
  <2>4. f = [k \in 0 .. n |-> f[k]]
    BY <2>1
  <2> QED BY <2>3, <2>4
<1>12. PICK g : g = CHOOSE x : P(x)
  OBVIOUS
<1>13. P(g)
  <2> HIDE DEF P
  <2> QED BY <1>11, <1>12
<1>14. Numeral(u, b) = [k \in 1 .. (CHOOSE i \in 1 .. n : g[i] = 0 /\ \A j \in 1 .. i - 1 : g[j] # 0) |-> g[(CHOOSE i \in 1 .. n : g[i] = 0 /\ \A j \in 1 .. i - 1 : g[j] # 0) - k] % b]
  <2> DEFINE G == CHOOSE x : x = [k \in 0 .. u + 1 |-> IF k = 0 THEN u ELSE x[k - 1] \div b]
             M(y) == CHOOSE i \in 1 .. u + 1 : y[i] = 0 /\ \A j \in 1 .. i - 1 : y[j] # 0
  <2>1. g = G
    BY <1>1, <1>12
  <2>2. Numeral(u, b) = [k \in 1 .. M(G) |-> G[M(G) - k] % b]
    BY DEF Numeral
  <2>3. Numeral(u, b) = [k \in 1 .. M(g) |-> g[M(g) - k] % b]
    <3> HIDE DEF G
    <3> QED BY <2>1, <2>2, Zenon
  <2> QED BY <1>1, <2>3, Zenon
<1>15. g[0] = a
  <2>1. 0 \in 0 .. n
    BY <1>3
  <2> QED BY <1>4, <1>13, <2>1
<1>16. ASSUME NEW k \in 1 .. n PROVE g[k] = g[k - 1] \div b
  <2>1. k \in 0 .. n /\ k # 0
    BY <1>3
  <2> QED BY <1>13, <2>1
<1>17. g = [k \in 0 .. n |-> g[k]]
  BY <1>13
<1>18. Solves(g, n, Nat, a, e)
  <2>1. \A k \in 1 .. n : g[k - 1] \in Nat => g[k] = e[<<k, g[k - 1]>>]
    BY <1>9, <1>16
  <2> QED BY <1>3, <1>5, <1>8, <1>15, <1>17, <2>1, RecursionSolved
<1>19. g \in [0 .. n -> Nat]
  BY <1>18 DEF Solves
<1>20. Quotients(g, u, b)
  BY <1>1, <1>2, <1>15, <1>16, <1>19 DEF Quotients
<1>21. ASSUME NEW x \in Nat PROVE x > 0 => x \div b < x
  <2>1. x = b * (x \div b) + (x % b) /\ x \div b \in Nat /\ x % b \in 0 .. b - 1
    BY SMT
  <2>2. PICK q \in Nat : q = x \div b
    BY <2>1
  <2>3. b * q >= 2 * q
    BY SMT
  <2> QED BY <2>1, <2>2, <2>3
<1> DEFINE T == {k \in Nat : k <= n => g[k] = 0 \/ g[k] + k <= u}
<1>22. 0 \in T
  BY <1>2, <1>15
<1>23. ASSUME NEW k \in Nat, k \in T PROVE k + 1 \in T
  <2> SUFFICES ASSUME k + 1 <= n PROVE g[k + 1] = 0 \/ g[k + 1] + (k + 1) <= u
    OBVIOUS
  <2>1. k + 1 \in 1 .. n /\ (k + 1) - 1 = k /\ k \in 0 .. n
    BY <1>3
  <2>2. PICK x \in Nat : x = g[k]
    BY <1>19, <2>1
  <2>3. g[k + 1] = x \div b
    BY <1>16, <2>1, <2>2
  <2>4. x = 0 \/ x + k <= u
    BY <1>3, <1>23, <2>2
  <2>5. CASE x = 0
    <3>1. 0 \div b = 0
      BY SMT
    <3> QED BY <2>3, <2>5, <3>1
  <2>6. CASE x # 0
    <3>1. PICK y \in Nat : y = x \div b
      BY <1>55
    <3>2. y < x
      BY <1>21, <2>6, <3>1
    <3> QED BY <2>3, <2>4, <2>6, <3>1, <3>2
  <2> QED BY <2>5, <2>6
<1>24. Nat \subseteq T
  <2> HIDE DEF T
  <2> QED BY <1>22, <1>23, InductionOnSet
<1>25. g[n] = 0
  <2>1. g[n] = 0 \/ g[n] + n <= u
    BY <1>3, <1>24
  <2>2. n \in 0 .. n
    BY <1>3
  <2>3. g[n] \in Nat
    BY <1>19, <2>2
  <2> QED BY <1>1, <2>1, <2>3
<1> DEFINE Q(i) == g[i] = 0 /\ \A j \in 1 .. i - 1 : g[j] # 0
<1>26. \E i \in 1 .. n : Q(i)
  <2> SUFFICES ASSUME \A i \in 1 .. n : ~Q(i) PROVE FALSE
    OBVIOUS
  <2> DEFINE U == {k \in Nat : k <= n => \A j \in 1 .. k : g[j] # 0}
  <2>1. 0 \in U
    OBVIOUS
  <2>2. ASSUME NEW k \in Nat, k \in U PROVE k + 1 \in U
    <3> SUFFICES ASSUME k + 1 <= n PROVE \A j \in 1 .. k + 1 : g[j] # 0
      OBVIOUS
    <3>1. \A j \in 1 .. k : g[j] # 0
      BY <1>3, <2>2
    <3>2. k + 1 \in 1 .. n /\ (k + 1) - 1 = k
      BY <1>3
    <3>3. ~Q(k + 1)
      <4> HIDE DEF Q
      <4> QED BY <3>2
    <3>4. g[k + 1] # 0
      BY <3>1, <3>2, <3>3
    <3> QED BY <3>1, <3>4
  <2>3. Nat \subseteq U
    <3> HIDE DEF U
    <3> QED BY <2>1, <2>2, InductionOnSet
  <2>4. n \in U /\ n \in 1 .. n
    BY <1>1, <1>3, <2>3
  <2> QED BY <1>3, <1>25, <2>4
<1>27. PICK m : m = CHOOSE i \in 1 .. n : Q(i)
  OBVIOUS
<1>28. m \in 1 .. n /\ Q(m)
  <2> HIDE DEF Q
  <2> QED BY <1>26, <1>27
<1>29. Numeral(u, b) = [k \in 1 .. m |-> g[m - k] % b]
  BY <1>14, <1>27
<1> QED BY <1>1, <1>20, <1>28, <1>29

\* What emit_dec and put_dec write is digits, and stands for the number.
LEMMA NumeralReads ==
  ASSUME NEW u \in Nat, NEW b \in Nat, b > 1
  PROVE  /\ Numeral(u, b) \in Seq(0 .. b - 1) /\ Len(Numeral(u, b)) > 0
         /\ ValueOf(Numeral(u, b), b) = u
<1>1. PICK f, m :
            /\ Quotients(f, u, b) /\ m \in 1 .. u + 1 /\ f[m] = 0 /\ (\A i \in 1 .. m - 1 : f[i] # 0)
            /\ Numeral(u, b) = [k \in 1 .. m |-> f[m - k] % b]
  BY NumeralIs
<1>2. PICK ds : ds = Numeral(u, b)
  OBVIOUS
<1>3. m \in Nat /\ m > 0
  BY <1>1
<1>4. \A k \in 0 .. m : f[k] \in Nat
  BY <1>1, <1>3 DEF Quotients
<1>5. \A x \in Nat : x % b \in 0 .. b - 1 /\ x = (x \div b) * b + (x % b)
  <2> TAKE x \in Nat
  <2>1. x % b \in 0 .. b - 1 /\ x \div b \in Nat
    BY SMT
  <2>2. x = b * (x \div b) + (x % b)
    BY SMT
  <2> QED BY <2>1, <2>2
<1>6. \A k \in 1 .. m : f[m - k] \in Nat /\ f[m - k] % b \in 0 .. b - 1
  <2> TAKE k \in 1 .. m
  <2>1. m - k \in 0 .. m
    BY <1>3
  <2>2. PICK x \in Nat : x = f[m - k]
    BY <1>4, <2>1
  <2> QED BY <1>5, <2>2
<1>7. ds \in Seq(0 .. b - 1) /\ Len(ds) = m
  <2>1. ds \in [1 .. m -> 0 .. b - 1]
    BY <1>1, <1>2, <1>6
  <2> QED BY <1>3, <2>1
<1>8. ds \in Seq(Nat)
  <2>1. 0 .. b - 1 \subseteq Nat
    OBVIOUS
  <2> QED BY <1>7, <2>1, SeqMonotonic
<1>9. PICK v : ValueRun(v, ds, b) /\ ValueOf(ds, b) = v[m]
  BY <1>7, <1>8, ValueIs
<1> DEFINE T == {k \in Nat : k <= m => v[k] = f[m - k]}
<1>10. 0 \in T
  <2>1. m - 0 = m
    BY <1>3
  <2> QED BY <1>1, <1>9, <2>1 DEF ValueRun
<1>11. ASSUME NEW k \in Nat, k \in T PROVE k + 1 \in T
  <2> SUFFICES ASSUME k + 1 <= m PROVE v[k + 1] = f[m - (k + 1)]
    OBVIOUS
  <2>1. PICK j \in Nat : j = m - (k + 1)
    BY <1>3
  <2>2. k + 1 \in 1 .. m /\ (k + 1) - 1 = k /\ j + 1 = m - k /\ j + 1 \in 1 .. u + 1 /\ (j + 1) - 1 = j
    BY <1>1, <1>3, <2>1
  <2>3. v[k + 1] = v[k] * b + ds[k + 1]
    BY <1>7, <1>9, <2>2 DEF ValueRun
  <2>4. ds[k + 1] = f[j] % b
    BY <1>1, <1>2, <2>1, <2>2
  <2>5. v[k] = f[j + 1]
    BY <1>3, <1>11, <2>2
  <2>6. f[j + 1] = f[j] \div b
    BY <1>1, <2>2 DEF Quotients
  <2>7. j \in 0 .. m
    BY <1>3, <2>1
  <2>8. PICK x \in Nat : x = f[j]
    BY <1>4, <2>7
  <2>9. v[k + 1] = (x \div b) * b + (x % b)
    BY <2>3, <2>4, <2>5, <2>6, <2>8
  <2> QED BY <1>5, <2>1, <2>8, <2>9
<1>12. Nat \subseteq T
  <2> HIDE DEF T
  <2> QED BY <1>10, <1>11, InductionOnSet
<1>13. v[m] = f[m - m] /\ m - m = 0
  BY <1>3, <1>12
<1>14. v[m] = u
  BY <1>1, <1>13 DEF Quotients
<1> QED BY <1>2, <1>3, <1>7, <1>9, <1>14

\* A number below the base has one digit.
LEMMA NumeralOne ==
  ASSUME NEW b \in Nat, b > 1, NEW u \in 0 .. b - 1
  PROVE  Numeral(u, b) = <<u>>
<1>0. u \in Nat
  OBVIOUS
<1>1. PICK f, m :
            /\ Quotients(f, u, b) /\ m \in 1 .. u + 1 /\ f[m] = 0 /\ (\A i \in 1 .. m - 1 : f[i] # 0)
            /\ Numeral(u, b) = [k \in 1 .. m |-> f[m - k] % b]
  BY <1>0, NumeralIs
<1>2. u \div b = 0 /\ u % b = u
  BY SMT
<1>3. f[0] = u
  BY <1>1 DEF Quotients
<1>4. f[1] = 0
  <2>1. 1 \in 1 .. u + 1 /\ 1 - 1 = 0
    OBVIOUS
  <2>2. f[1] = f[1 - 1] \div b
    BY <1>1, <2>1 DEF Quotients
  <2> QED BY <1>2, <1>3, <2>1, <2>2
<1>5. m = 1
  BY <1>1, <1>4
<1>6. PICK ds : ds = [k \in 1 .. 1 |-> u]
  OBVIOUS
<1>7. \A k \in 1 .. m : f[m - k] % b = u
  <2> TAKE k \in 1 .. m
  <2>1. m - k = 0
    BY <1>5
  <2> QED BY <1>2, <1>3, <2>1
<1>8. Numeral(u, b) = ds
  BY <1>1, <1>5, <1>6, <1>7
<1>9. ds = <<u>>
  BY <1>6
<1> QED BY <1>8, <1>9

\* The largest number of 32 bits has ten decimal digits.
LEMMA NumeralTen ==
  ASSUME NEW u, IsU32(u)
  PROVE  Len(Numeral(u, 10)) <= 10
<1>1. u \in Nat
  BY DEF IsU32
<1>16. u \div 65536 < 65536
  BY DEF IsU32
<1> DEFINE b == 10
<1>15. b \in Nat /\ b > 1
  OBVIOUS
<1> HIDE DEF b
<1>2. PICK f, m :
            /\ Quotients(f, u, b) /\ m \in 1 .. u + 1 /\ f[m] = 0 /\ (\A i \in 1 .. m - 1 : f[i] # 0)
            /\ Numeral(u, b) = [k \in 1 .. m |-> f[m - k] % b]
  BY <1>1, <1>15, NumeralIs
<1>3. Len(Numeral(u, 10)) = m
  <2>1. Numeral(u, b) \in Seq(0 .. b - 1)
    BY <1>1, <1>15, NumeralReads
  <2>2. DOMAIN Numeral(u, b) = 1 .. m /\ m \in Nat
    BY <1>2
  <2>3. Len(Numeral(u, b)) = m
    BY <2>1, <2>2
  <2> QED BY <2>3 DEF b
<1>4. SUFFICES ASSUME m > 10 PROVE FALSE
  BY <1>2, <1>3
<1>5. u < 4294967296
  BY <1>1, <1>16
<1>6. f[0] = u /\ \A k \in 1 .. 10 : f[k] \in Nat /\ f[k] = f[k - 1] \div 10
  <2>1. \A k \in 1 .. 10 : k \in 1 .. u + 1 /\ k \in 0 .. u + 1
    BY <1>1, <1>2, <1>4
  <2>2. f \in [0 .. u + 1 -> Nat] /\ f[0] = u /\ \A k \in 1 .. u + 1 : f[k] = f[k - 1] \div 10
    BY <1>2 DEF Quotients, b
  <2> QED BY <2>1, <2>2
<1>7. \A x \in Nat : x \div 10 \in Nat /\ 10 * (x \div 10) <= x
  OBVIOUS
<1>8. f[1] = f[0] \div 10 /\ f[2] = f[1] \div 10 /\ f[3] = f[2] \div 10 /\ f[4] = f[3] \div 10 /\ f[5] = f[4] \div 10
  BY <1>6
<1>9. f[6] = f[5] \div 10 /\ f[7] = f[6] \div 10 /\ f[8] = f[7] \div 10 /\ f[9] = f[8] \div 10 /\ f[10] = f[9] \div 10
  BY <1>6
<1>10. f[1] < 429496730
  BY <1>1, <1>5, <1>6, <1>7, <1>8
<1>11. f[3] < 4294968
  BY <1>6, <1>7, <1>8, <1>10
<1>12. f[5] < 42950
  BY <1>6, <1>7, <1>8, <1>11
<1>13. f[7] < 430
  BY <1>6, <1>7, <1>9, <1>12
<1>14. f[10] = 0
  BY <1>6, <1>7, <1>9, <1>13
<1> QED BY <1>2, <1>4, <1>14

\* The conversion to a signed type keeps a number below half its range, and
\* makes a number of it.
LEMMA CastIs ==
  ASSUME NEW half \in Nat, half > 0, NEW v \in Int
  PROVE  Cast(v, half) \in Int /\ (0 <= v /\ v < half => Cast(v, half) = v)
<1>1. PICK w \in Nat : w = 2 * half
  OBVIOUS
<1>2. PICK x \in Int : x = v + half
  OBVIOUS
<1>3. w > 0 /\ x % w \in 0 .. w - 1
  BY <1>1
<1>4. 0 <= x /\ x < w => x % w = x
  BY <1>3
<1>5. Cast(v, half) = (x % w) - half
  BY <1>1, <1>2 DEF Cast
<1>6. 0 <= v /\ v < half => x % w = x
  BY <1>1, <1>2, <1>4
<1>7. (x % w) - half \in Int
  BY <1>3
<1>8. 0 <= v /\ v < half => (x % w) - half = v
  BY <1>2, <1>6
<1> QED BY <1>5, <1>7, <1>8

\* parse_idx reads an index below 2^31 as what it is.
LEMMA ParseIs ==
  ASSUME NEW text \in Seq(0 .. 9), ValueOf(text, 10) < IntHalf
  PROVE  parse_idx(text) = ValueOf(text, 10) /\ ValueOf(text, 10) \in Nat
<1>1. PICK n : n = Len(text)
  OBVIOUS
<1>2. PICK a : a = 0
  OBVIOUS
<1>3. n \in Nat /\ \A k \in 1 .. n : text[k] \in 0 .. 9
  BY <1>1
<1>4. a = 0
  BY <1>2
<1>5. a \in Int
  BY <1>2
<1>50. IntHalf \in Nat /\ LongHalf \in Nat /\ LongHalf > 0 /\ IntHalf <= LongHalf
  BY MoonAssumption
<1>55. ASSUME NEW k \in 1 .. n, NEW x \in Int PROVE Cast(x * 10 + text[k], LongHalf) \in Int
  <2>1. PICK v \in Int : v = x * 10 + text[k]
    BY <1>3
  <2> QED BY <1>50, <2>1, CastIs
<1> DEFINE h == [q \in (1 .. n) \X Int |-> Cast(q[2] * 10 + text[q[1]], LongHalf)]
<1>6. h \in [(1 .. n) \X Int -> Int]
  BY <1>55
<1>7. PICK e : e = h
  OBVIOUS
<1>8. e \in [(1 .. n) \X Int -> Int]
  BY <1>6, <1>7
<1>9. ASSUME NEW k \in 1 .. n, NEW x \in Int PROVE e[<<k, x>>] = Cast(x * 10 + text[k], LongHalf)
  BY <1>7
<1> HIDE DEF h
<1>10. PICK f : Solves(f, n, Int, a, e)
  BY <1>3, <1>5, <1>8, RecursionExists
<1> DEFINE P(g) == g = [k \in 0 .. n |-> IF k = 0 THEN 0 ELSE Cast(g[k - 1] * 10 + text[k], LongHalf)]
<1>11. P(f)
  <2>1. f \in [0 .. n -> Int] /\ f[0] = a /\ \A k \in 1 .. n : f[k] = e[<<k, f[k - 1]>>]
    BY <1>10 DEF Solves
  <2>2. ASSUME NEW k \in 1 .. n PROVE f[k] = Cast(f[k - 1] * 10 + text[k], LongHalf)
    <3>1. f[k - 1] \in Int
      BY <1>3, <2>1
    <3> QED BY <1>9, <2>1, <3>1
  <2>3. ASSUME NEW k \in 0 .. n PROVE f[k] = IF k = 0 THEN 0 ELSE Cast(f[k - 1] * 10 + text[k], LongHalf)
    <3>1. CASE k = 0
      BY <1>4, <2>1, <3>1
    <3>2. CASE k # 0
      <4>1. k \in 1 .. n
        BY <1>3, <3>2
      <4> QED BY <2>2, <3>2, <4>1
    <3> QED BY <3>1, <3>2
  <2>4. f = [k \in 0 .. n |-> f[k]]
    BY <2>1
  <2> QED BY <2>3, <2>4
<1>12. PICK g : g = CHOOSE x : P(x)
  OBVIOUS
<1>13. P(g)
  <2> HIDE DEF P
  <2> QED BY <1>11, <1>12
<1>14. parse_idx(text) = g[n]
  BY <1>1, <1>12 DEF parse_idx
<1>15. g[0] = a
  <2>1. 0 \in 0 .. n
    BY <1>3
  <2> QED BY <1>4, <1>13, <2>1
<1>16. ASSUME NEW k \in 1 .. n PROVE g[k] = Cast(g[k - 1] * 10 + text[k], LongHalf)
  <2>1. k \in 0 .. n /\ k # 0
    BY <1>3
  <2> QED BY <1>13, <2>1
<1>17. g = [k \in 0 .. n |-> g[k]]
  BY <1>13
<1>18. Solves(g, n, Int, a, e)
  <2>1. \A k \in 1 .. n : g[k - 1] \in Int => g[k] = e[<<k, g[k - 1]>>]
    BY <1>9, <1>16
  <2> QED BY <1>3, <1>5, <1>8, <1>15, <1>17, <2>1, RecursionSolved
<1>19. g \in [0 .. n -> Int]
  BY <1>18 DEF Solves
<1>20. text \in Seq(Nat)
  <2>1. 0 .. 9 \subseteq Nat
    OBVIOUS
  <2> QED BY <2>1, SeqMonotonic
<1>21. PICK v : ValueRun(v, text, 10) /\ ValueOf(text, 10) = v[n]
  <2>1. 10 \in Nat
    OBVIOUS
  <2> QED BY <1>1, <1>20, <2>1, ValueIs
<1>22. v \in [0 .. n -> Nat] /\ v[0] = 0 /\ \A k \in 1 .. n : v[k] = v[k - 1] * 10 + text[k]
  BY <1>1, <1>21 DEF ValueRun
<1> DEFINE T == {k \in Nat : k <= n => v[n - k] <= v[n]}
<1>23. 0 \in T
  <2>1. n - 0 = n /\ n \in 0 .. n
    BY <1>3
  <2>2. v[n] \in Nat
    BY <1>22, <2>1
  <2>3. v[n - 0] <= v[n]
    BY <2>1, <2>2
  <2> QED BY <2>3
<1>24. ASSUME NEW k \in Nat, k \in T PROVE k + 1 \in T
  <2> SUFFICES ASSUME k + 1 <= n PROVE v[n - (k + 1)] <= v[n]
    OBVIOUS
  <2>1. PICK j \in Nat : j = n - (k + 1)
    BY <1>3
  <2>2. n - k = j + 1 /\ j + 1 \in 1 .. n /\ j + 1 \in 0 .. n /\ j \in 0 .. n /\ n \in 0 .. n /\ (j + 1) - 1 = j /\ k <= n
    BY <1>3, <2>1
  <2>3. v[j + 1] = v[j] * 10 + text[j + 1] /\ v[j] \in Nat /\ v[n] \in Nat /\ text[j + 1] \in Nat
    <3>1. v[j] \in Nat /\ v[n] \in Nat
      BY <1>22, <2>2
    <3>2. text[j + 1] \in 0 .. 9
      BY <1>3, <2>2
    <3>3. v[j + 1] = v[j] * 10 + text[j + 1]
      BY <1>22, <2>2
    <3> QED BY <3>1, <3>2, <3>3
  <2>4. v[j + 1] <= v[n]
    BY <1>24, <2>2
  <2>5. v[j] <= v[n]
    BY <2>3, <2>4
  <2> QED BY <2>1, <2>5
<1>25. Nat \subseteq T
  <2> HIDE DEF T
  <2> QED BY <1>23, <1>24, InductionOnSet
<1>26. ASSUME NEW k \in 0 .. n PROVE v[k] \in Nat /\ v[k] < LongHalf
  <2>1. PICK j \in Nat : j = n - k
    BY <1>3
  <2>2. n - j = k /\ j <= n /\ n \in 0 .. n
    BY <1>3, <2>1
  <2>3. v[k] <= v[n]
    BY <1>25, <2>2
  <2>4. v[k] \in Nat /\ v[n] \in Nat
    BY <1>22, <2>2
  <2> QED BY <1>21, <1>50, <2>3, <2>4
<1> DEFINE U == {k \in Nat : k <= n => g[k] = v[k]}
<1>27. 0 \in U
  BY <1>2, <1>15, <1>22
<1>28. ASSUME NEW k \in Nat, k \in U PROVE k + 1 \in U
  <2> SUFFICES ASSUME k + 1 <= n PROVE g[k + 1] = v[k + 1]
    OBVIOUS
  <2>1. k + 1 \in 1 .. n /\ (k + 1) - 1 = k /\ k + 1 \in 0 .. n /\ k <= n
    BY <1>3
  <2>2. g[k + 1] = Cast(v[k] * 10 + text[k + 1], LongHalf)
    BY <1>16, <1>28, <2>1
  <2>3. v[k + 1] = v[k] * 10 + text[k + 1]
    BY <1>22, <2>1
  <2>4. PICK x \in Nat : x = v[k + 1] /\ x < LongHalf
    BY <1>26, <2>1
  <2>5. Cast(x, LongHalf) = x
    <3>1. x \in Int /\ 0 <= x
      OBVIOUS
    <3> QED BY <1>50, <2>4, <3>1, CastIs
  <2> QED BY <2>2, <2>3, <2>4, <2>5
<1>29. Nat \subseteq U
  <2> HIDE DEF U
  <2> QED BY <1>27, <1>28, InductionOnSet
<1>30. g[n] = v[n] /\ n \in 0 .. n
  BY <1>3, <1>29
<1> QED BY <1>14, <1>21, <1>26, <1>30

\* SYS_MOUNT hands fs_mount_part an index below 2^31 as it is.
LEMMA MountIs ==
  ASSUME NEW i \in Nat, i < IntHalf
  PROVE  SYS_MOUNT(i) = fs_mount_part(i)
<1>1. IntHalf \in Nat /\ IntHalf > 0
  BY MoonAssumption
<1>2. Cast(i, IntHalf) = i
  BY <1>1, CastIs
<1>3. ~(i < 0)
  OBVIOUS
<1> QED BY <1>2, <1>3 DEF SYS_MOUNT

\* Typing an index keeps TypedIsMounted.
LEMMA IndexTyped ==
  ASSUME NEW text \in Seq(MoonKeys), moon_index(text)
  PROVE  TypedIsMounted'
<1>1. reply'.cmd = "mount" /\ reply'.text = text /\ table' = table
  BY DEF moon_index, MountsAs
<1> SUFFICES ASSUME IsNumber(text), ValueOf(text, 10) < IntHalf
             PROVE  LET n == ValueOf(text, 10)
                    IN  IF part_get(n) /\ table[n + 1].fat THEN reply'.ok /\ mounted_idx' = n
                        ELSE ~reply'.ok /\ mounted_idx' = reply'.was
  BY <1>1 DEF TypedIsMounted, part_get
<1>2. text \in Seq(0 .. 9)
  <2>1. Len(text) \in Nat /\ text \in [1 .. Len(text) -> MoonKeys] /\ DOMAIN text = 1 .. Len(text)
    OBVIOUS
  <2>2. \A k \in 1 .. Len(text) : text[k] \in 0 .. 9
    BY <2>1 DEF IsNumber
  <2>3. text \in [1 .. Len(text) -> 0 .. 9]
    BY <2>1, <2>2
  <2> QED BY <2>1, <2>3
<1>3. PICK n \in Nat : n = ValueOf(text, 10) /\ parse_idx(text) = n
  BY <1>2, ParseIs
<1>4. SYS_MOUNT(n) = fs_mount_part(n)
  BY <1>3, MountIs
<1>5. MountsAs(text, fs_mount_part(n))
  BY <1>3, <1>4 DEF moon_index
<1>6. mounted_idx' = fs_mount_part(n).now /\ reply'.ok = fs_mount_part(n).ok /\ reply'.was = mounted_idx
  BY <1>5 DEF MountsAs
<1>7. CASE part_get(n) /\ table[n + 1].fat
  BY <1>3, <1>6, <1>7 DEF fs_mount_part
<1>8. CASE ~(part_get(n) /\ table[n + 1].fat)
  BY <1>3, <1>6, <1>8 DEF fs_mount_part
<1> QED BY <1>7, <1>8

\* The characters of a list of partitions.
Glyphs == -3 .. 15

\* The lines or words so far, and the characters behind the last of them.
Pieces == [done : Seq(Seq(Glyphs)), last : Seq(Glyphs)]
CutStep(x, c, char) ==
  IF c = char THEN [done |-> Append(x.done, x.last), last |-> <<>>]
  ELSE [x EXCEPT !.last = Append(@, c)]
Cut(text, char) ==
  LET upto[k \in 0 .. Len(text)] ==
        IF k = 0 THEN [done |-> <<>>, last |-> <<>>] ELSE CutStep(upto[k - 1], text[k], char)
  IN  upto[Len(text)]
CutRun(f, text, char) ==
  /\ f \in [0 .. Len(text) -> Pieces] /\ f[0] = [done |-> <<>>, last |-> <<>>]
  /\ \A k \in 1 .. Len(text) : f[k] = CutStep(f[k - 1], text[k], char)

\* A character more ends a piece or belongs to the last one.
LEMMA CutStepIs ==
  ASSUME NEW x \in Pieces, NEW c \in Glyphs, NEW char
  PROVE  /\ CutStep(x, c, char) \in Pieces
         /\ c = char => CutStep(x, c, char).done = Append(x.done, x.last) /\ CutStep(x, c, char).last = <<>>
         /\ c # char => CutStep(x, c, char).done = x.done /\ CutStep(x, c, char).last = Append(x.last, c)
<1>1. x.done \in Seq(Seq(Glyphs)) /\ x.last \in Seq(Glyphs) /\ x = [done |-> x.done, last |-> x.last]
  BY DEF Pieces
<1>2. Append(x.done, x.last) \in Seq(Seq(Glyphs)) /\ Append(x.last, c) \in Seq(Glyphs)
  <2> HIDE DEF Glyphs
  <2> QED BY <1>1
<1>3. CASE c = char
  <2>1. CutStep(x, c, char) = [done |-> Append(x.done, x.last), last |-> <<>>]
    BY <1>3 DEF CutStep
  <2>2. <<>> \in Seq(Glyphs)
    OBVIOUS
  <2> QED BY <1>2, <1>3, <2>1, <2>2 DEF Pieces
<1>4. CASE c # char
  <2>1. CutStep(x, c, char) = [x EXCEPT !.last = Append(x.last, c)]
    BY <1>4 DEF CutStep
  <2>2. CutStep(x, c, char) = [done |-> x.done, last |-> Append(x.last, c)]
    BY <1>1, <2>1
  <2> QED BY <1>1, <1>2, <1>4, <2>2 DEF Pieces
<1> QED BY <1>3, <1>4

\* Split returns the pieces of such a run.
LEMMA CutIs ==
  ASSUME NEW text \in Seq(Glyphs), NEW char
  PROVE  /\ Split(text, char) = Cut(text, char).done
         /\ \E f : CutRun(f, text, char) /\ Cut(text, char) = f[Len(text)]
<1>1. PICK n : n = Len(text)
  OBVIOUS
<1>2. PICK a : a = [done |-> <<>>, last |-> <<>>]
  OBVIOUS
<1>3. n \in Nat /\ \A k \in 1 .. n : text[k] \in Glyphs
  BY <1>1
<1>4. a = [done |-> <<>>, last |-> <<>>]
  BY <1>2
<1>5. a \in Pieces
  BY <1>2 DEF Pieces
<1>55. ASSUME NEW k \in 1 .. n, NEW x \in Pieces PROVE CutStep(x, text[k], char) \in Pieces
  BY <1>3, CutStepIs
<1> DEFINE h == [q \in (1 .. n) \X Pieces |-> CutStep(q[2], text[q[1]], char)]
<1>6. h \in [(1 .. n) \X Pieces -> Pieces]
  BY <1>55
<1>7. PICK e : e = h
  OBVIOUS
<1>8. e \in [(1 .. n) \X Pieces -> Pieces]
  BY <1>6, <1>7
<1>9. ASSUME NEW k \in 1 .. n, NEW x \in Pieces PROVE e[<<k, x>>] = CutStep(x, text[k], char)
  BY <1>7
<1> HIDE DEF h
<1>10. PICK f : Solves(f, n, Pieces, a, e)
  BY <1>3, <1>5, <1>8, RecursionExists
<1> DEFINE P(g) == g = [k \in 0 .. n |-> IF k = 0 THEN [done |-> <<>>, last |-> <<>>] ELSE CutStep(g[k - 1], text[k], char)]
<1>11. P(f)
  <2>1. f \in [0 .. n -> Pieces] /\ f[0] = a /\ \A k \in 1 .. n : f[k] = e[<<k, f[k - 1]>>]
    BY <1>10 DEF Solves
  <2>2. ASSUME NEW k \in 1 .. n PROVE f[k] = CutStep(f[k - 1], text[k], char)
    <3>1. f[k - 1] \in Pieces
      BY <1>3, <2>1
    <3> QED BY <1>9, <2>1, <3>1
  <2>3. ASSUME NEW k \in 0 .. n PROVE f[k] = IF k = 0 THEN [done |-> <<>>, last |-> <<>>] ELSE CutStep(f[k - 1], text[k], char)
    <3>1. CASE k = 0
      BY <1>4, <2>1, <3>1
    <3>2. CASE k # 0
      <4>1. k \in 1 .. n
        BY <1>3, <3>2
      <4> QED BY <2>2, <3>2, <4>1
    <3> QED BY <3>1, <3>2
  <2>4. f = [k \in 0 .. n |-> f[k]]
    BY <2>1
  <2> QED BY <2>3, <2>4
<1>12. PICK g : g = CHOOSE x : P(x)
  OBVIOUS
<1>13. P(g)
  <2> HIDE DEF P
  <2> QED BY <1>11, <1>12
<1>14. Cut(text, char) = g[n]
  BY <1>1, <1>12 DEF Cut
<1>15. g[0] = a
  <2>1. 0 \in 0 .. n
    BY <1>3
  <2> QED BY <1>4, <1>13, <2>1
<1>16. ASSUME NEW k \in 1 .. n PROVE g[k] = CutStep(g[k - 1], text[k], char)
  <2>1. k \in 0 .. n /\ k # 0
    BY <1>3
  <2> QED BY <1>13, <2>1
<1>17. g = [k \in 0 .. n |-> g[k]]
  BY <1>13
<1>18. Solves(g, n, Pieces, a, e)
  <2>1. \A k \in 1 .. n : g[k - 1] \in Pieces => g[k] = e[<<k, g[k - 1]>>]
    BY <1>9, <1>16
  <2> QED BY <1>3, <1>5, <1>8, <1>15, <1>17, <2>1, RecursionSolved
<1>19. g \in [0 .. n -> Pieces]
  BY <1>18 DEF Solves
<1>20. CutRun(g, text, char)
  BY <1>1, <1>2, <1>15, <1>16, <1>19 DEF CutRun
<1>21. Split(text, char) = g[n].done
  BY <1>1, <1>12 DEF Split, CutStep
<1> QED BY <1>1, <1>14, <1>20, <1>21

\* Nothing is cut of an empty text.
LEMMA CutEmpty ==
  ASSUME NEW char
  PROVE  Cut(<<>>, char) = [done |-> <<>>, last |-> <<>>]
<1>1. <<>> \in Seq(Glyphs) /\ Len(<<>>) = 0
  OBVIOUS
<1>2. PICK f : CutRun(f, <<>>, char) /\ Cut(<<>>, char) = f[0]
  BY <1>1, CutIs
<1> QED BY <1>2 DEF CutRun

\* One character more of a text.
LEMMA CutAppend ==
  ASSUME NEW s \in Seq(Glyphs), NEW c \in Glyphs, NEW char
  PROVE  Cut(s, char) \in Pieces /\ Cut(Append(s, c), char) = CutStep(Cut(s, char), c, char)
<1>1. PICK n : n = Len(s)
  OBVIOUS
<1>2. PICK u : u = Append(s, c)
  OBVIOUS
<1>3. n \in Nat
  BY <1>1
<1>4. u \in Seq(Glyphs) /\ Len(u) = n + 1 /\ u[n + 1] = c /\ \A k \in 1 .. n : u[k] = s[k]
  <2> HIDE DEF Glyphs
  <2> QED BY <1>1, <1>2, <1>3
<1>5. PICK f : CutRun(f, s, char) /\ Cut(s, char) = f[n]
  BY <1>1, CutIs
<1>6. PICK g : CutRun(g, u, char) /\ Cut(u, char) = g[n + 1]
  BY <1>4, CutIs
<1>7. f \in [0 .. n -> Pieces] /\ f[0] = [done |-> <<>>, last |-> <<>>]
      /\ \A k \in 1 .. n : f[k] = CutStep(f[k - 1], s[k], char)
  BY <1>1, <1>5 DEF CutRun
<1>8. g[0] = [done |-> <<>>, last |-> <<>>] /\ \A k \in 1 .. n + 1 : g[k] = CutStep(g[k - 1], u[k], char)
  BY <1>4, <1>6 DEF CutRun
<1>9. g[n] = f[n]
  <2> DEFINE T == {i \in Nat : i <= n => g[i] = f[i]}
  <2>1. 0 \in T
    BY <1>7, <1>8
  <2>2. ASSUME NEW i \in Nat, i \in T PROVE i + 1 \in T
    <3> SUFFICES ASSUME i + 1 <= n PROVE g[i + 1] = f[i + 1]
      OBVIOUS
    <3>1. g[i] = f[i] /\ u[i + 1] = s[i + 1] /\ i + 1 \in 1 .. n /\ i + 1 \in 1 .. n + 1 /\ (i + 1) - 1 = i
      BY <1>3, <1>4, <2>2
    <3>2. f[i + 1] = CutStep(f[i], s[i + 1], char)
      BY <1>7, <3>1
    <3>3. g[i + 1] = CutStep(g[i], u[i + 1], char)
      BY <1>8, <3>1
    <3> QED BY <3>1, <3>2, <3>3
  <2>3. Nat \subseteq T
    <3> HIDE DEF T
    <3> QED BY <2>1, <2>2, InductionOnSet
  <2> QED BY <1>3, <2>3
<1>10. g[n + 1] = CutStep(g[n], c, char)
  <2>1. n + 1 \in 1 .. n + 1 /\ (n + 1) - 1 = n
    BY <1>3
  <2> QED BY <1>4, <1>8, <2>1
<1>11. n \in 0 .. n
  BY <1>3
<1> QED BY <1>2, <1>5, <1>6, <1>7, <1>9, <1>10, <1>11

\* Joining strings is associative.
LEMMA GlyphsAssociate == \A p, q, r \in Seq(Glyphs) : (p \o q) \o r = p \o (q \o r)
  BY ConcatAssociative

\* A word without the separator is added to the last piece.
LEMMA CutWord ==
  ASSUME NEW s \in Seq(Glyphs), NEW w \in Seq(Glyphs), NEW char, \A k \in 1 .. Len(w) : w[k] # char
  PROVE  /\ s \o w \in Seq(Glyphs)
         /\ Cut(s \o w, char).done = Cut(s, char).done /\ Cut(s \o w, char).last = Cut(s, char).last \o w
<1>1. PICK n : n = Len(w)
  OBVIOUS
<1> DEFINE pre(k) == SubSeq(w, 1, k)
           Q(k) == /\ Cut(s \o pre(k), char).done = Cut(s, char).done
                   /\ Cut(s \o pre(k), char).last = Cut(s, char).last \o pre(k)
           T == {k \in Nat : k <= n => Q(k)}
<1>2. n \in Nat /\ \A k \in 1 .. n : w[k] \in Glyphs /\ w[k] # char
  BY <1>1
<1>3. Cut(s, char) \in Pieces
  <2>1. 0 \in Glyphs
    BY DEF Glyphs
  <2> QED BY <2>1, CutAppend
<1>4. Cut(s, char).last \in Seq(Glyphs)
  BY <1>3 DEF Pieces
<1>5. 0 \in T
  <2>1. pre(0) = <<>>
    OBVIOUS
  <2>2. s \o <<>> = s
    BY ConcatEmptySeq
  <2>3. Cut(s, char).last \o <<>> = Cut(s, char).last
    BY <1>4, ConcatEmptySeq
  <2> QED BY <2>1, <2>2, <2>3
<1>6. ASSUME NEW k \in Nat, k \in T PROVE k + 1 \in T
  <2> HIDE DEF Q
  <2> SUFFICES ASSUME k + 1 <= n PROVE Q(k + 1)
    OBVIOUS
  <2>1. k + 1 \in 1 .. n /\ k <= n
    BY <1>2
  <2>2. PICK p, q : p = pre(k) /\ q = pre(k + 1)
    OBVIOUS
  <2>3. PICK c \in Glyphs : c = w[k + 1] /\ c # char
    BY <1>2, <2>1
  <2>4. p \in Seq(Glyphs) /\ q \in Seq(Glyphs) /\ Len(p) = k /\ Len(q) = k + 1
        /\ (\A i \in 1 .. k : p[i] = w[i]) /\ \A i \in 1 .. k + 1 : q[i] = w[i]
    <3> HIDE DEF Glyphs
    <3> QED BY <1>1, <1>2, <2>1, <2>2
  <2>5. q = Append(p, c)
    <3>1. PICK r : r = Append(p, c)
      OBVIOUS
    <3>2. r \in Seq(Glyphs) /\ Len(r) = k + 1 /\ r[k + 1] = c /\ \A i \in 1 .. k : r[i] = p[i]
      <4> HIDE DEF Glyphs
      <4> QED BY <2>4, <3>1
    <3>3. \A i \in 1 .. k + 1 : r[i] = q[i]
      BY <2>3, <2>4, <3>2
    <3>4. r = q
      BY <2>4, <3>2, <3>3, SeqEqual
    <3> QED BY <3>1, <3>4
  <2>6. ASSUME NEW t \in Seq(Glyphs) PROVE t \o q = Append(t \o p, c) /\ t \o p \in Seq(Glyphs)
    <3> HIDE DEF Glyphs
    <3>1. t \o p \in Seq(Glyphs)
      BY <2>4
    <3>2. <<c>> \in Seq(Glyphs)
      BY <2>3
    <3>3. q = p \o <<c>>
      BY <2>4, <2>5, AppendIsConcat
    <3>4. (t \o p) \o <<c>> = t \o (p \o <<c>>)
      <4>1. PICK e \in Seq(Glyphs) : e = <<c>>
        BY <3>2
      <4>2. (t \o p) \o e = t \o (p \o e)
        BY <2>4, GlyphsAssociate, Zenon
      <4> QED BY <4>1, <4>2, Zenon
    <3>5. Append(t \o p, c) = (t \o p) \o <<c>>
      BY <3>1, AppendIsConcat
    <3> QED BY <3>1, <3>3, <3>4, <3>5
  <2>7. PICK x : x = Cut(s \o p, char)
    OBVIOUS
  <2>8. x.done = Cut(s, char).done /\ x.last = Cut(s, char).last \o p
    BY <1>6, <2>1, <2>2, <2>7 DEF Q
  <2>9. x \in Pieces /\ Cut(s \o q, char) = CutStep(x, c, char)
    <3>1. PICK y \in Seq(Glyphs) : y = s \o p /\ s \o q = Append(y, c)
      BY <2>6
    <3>2. Cut(y, char) \in Pieces /\ Cut(Append(y, c), char) = CutStep(Cut(y, char), c, char)
      BY CutAppend
    <3> QED BY <2>7, <3>1, <3>2
  <2>10. Cut(s \o q, char).done = x.done /\ Cut(s \o q, char).last = Append(x.last, c)
    BY <2>3, <2>9, CutStepIs
  <2>11. Cut(s, char).last \o q = Append(x.last, c)
    BY <1>4, <2>6, <2>8
  <2> QED BY <2>2, <2>8, <2>10, <2>11 DEF Q
<1>7. Nat \subseteq T
  <2> HIDE DEF T
  <2> QED BY <1>5, <1>6, InductionOnSet
<1>8. pre(n) = w
  BY <1>1
<1>9. n \in T /\ n <= n
  <2> HIDE DEF T
  <2> QED BY <1>2, <1>7
<1>10. s \o w \in Seq(Glyphs)
  <2> HIDE DEF Glyphs
  <2> QED OBVIOUS
<1> QED BY <1>8, <1>9, <1>10

\* The separator ends the last piece.
LEMMA CutEnd ==
  ASSUME NEW s \in Seq(Glyphs), NEW char \in Glyphs
  PROVE  /\ s \o <<char>> \in Seq(Glyphs)
         /\ Cut(s \o <<char>>, char).done = Append(Cut(s, char).done, Cut(s, char).last)
         /\ Cut(s \o <<char>>, char).last = <<>>
<1>1. s \o <<char>> = Append(s, char)
  BY AppendIsConcat
<1>2. Append(s, char) \in Seq(Glyphs)
  <2> HIDE DEF Glyphs
  <2> QED OBVIOUS
<1>3. PICK x \in Pieces : x = Cut(s, char) /\ Cut(Append(s, char), char) = CutStep(x, char, char)
  BY CutAppend
<1>4. CutStep(x, char, char).done = Append(x.done, x.last) /\ CutStep(x, char, char).last = <<>>
  BY CutStepIs
<1> QED BY <1>1, <1>2, <1>3, <1>4

\* The parts of the line for partition i: the digits of the type, what is
\* behind them, and the line without its end.
TypeDigits(i) == <<(table[i + 1].type \div 16) % 16, table[i + 1].type % 16>>
Numbers(i) == <<Sp>> \o emit_dec(table[i + 1].lba) \o <<Sp>> \o emit_dec(table[i + 1].sectors)
PartLine(i) == emit_dec(i) \o Mark(i) \o TypeDigits(i) \o Numbers(i)

\* What a partition table of four entries of 32-bit numbers holds.
LEMMA TableFacts ==
  ASSUME table \in Tables, NEW i \in 0 .. Len(table) - 1
  PROVE  /\ Len(table) \in Nat /\ Len(table) <= 4 /\ i \in 0 .. 3
         /\ table[i + 1].type \in 1 .. 255 /\ IsU32(table[i + 1].lba) /\ IsU32(table[i + 1].sectors)
<1>1. table \in Seq(Range(table)) /\ Len(table) <= 4
  BY MoonAssumption
<1>2. \A j \in DOMAIN table : table[j].type \in 1 .. 255 /\ IsU32(table[j].lba) /\ IsU32(table[j].sectors)
  BY MoonAssumption
<1>3. Len(table) \in Nat /\ DOMAIN table = 1 .. Len(table)
  BY <1>1
<1>4. i + 1 \in DOMAIN table /\ i \in 0 .. 3
  BY <1>1, <1>3
<1> QED BY <1>1, <1>2, <1>3, <1>4

\* What emit_dec writes of a number of 32 bits.
LEMMA Decimal ==
  ASSUME NEW u, IsU32(u)
  PROVE  /\ emit_dec(u) \in Seq(0 .. 9) /\ Len(emit_dec(u)) \in Nat /\ Len(emit_dec(u)) <= 10
         /\ ValueOf(emit_dec(u), 10) = u
<1>1. u \in Nat
  BY DEF IsU32
<1>2. Len(Numeral(u, 10)) <= 10
  BY NumeralTen
<1> DEFINE b == 10
<1>3. b \in Nat /\ b > 1 /\ b - 1 = 9
  OBVIOUS
<1>4. Numeral(u, b) \in Seq(0 .. b - 1) /\ ValueOf(Numeral(u, b), b) = u
  <2> HIDE DEF b
  <2> QED BY <1>1, <1>3, NumeralReads
<1>5. Numeral(u, 10) \in Seq(0 .. 9) /\ ValueOf(Numeral(u, 10), 10) = u
  BY <1>3, <1>4
<1>6. Len(Numeral(u, 10)) \in Nat
  BY <1>5, LenProperties
<1> QED BY <1>2, <1>5, <1>6 DEF emit_dec

\* Digits are no separators.
LEMMA DigitsPlain ==
  ASSUME NEW w \in Seq(0 .. 9)
  PROVE  w \in Seq(Glyphs) /\ w \in Seq(Glyphs \ {Sp}) /\ w \in Seq(Glyphs \ {Nl})
<1>1. 0 .. 9 \subseteq Glyphs /\ 0 .. 9 \subseteq Glyphs \ {Sp} /\ 0 .. 9 \subseteq Glyphs \ {Nl}
  BY DEF Glyphs, Sp, Nl
<1> QED BY <1>1, SeqMonotonic

\* CutWord, for a word whose characters are none of the separator.
LEMMA CutPlain ==
  ASSUME NEW s \in Seq(Glyphs), NEW char \in Glyphs, NEW w \in Seq(Glyphs \ {char})
  PROVE  /\ s \o w \in Seq(Glyphs) /\ w \in Seq(Glyphs)
         /\ Cut(s \o w, char).done = Cut(s, char).done /\ Cut(s \o w, char).last = Cut(s, char).last \o w
<1>1. w \in Seq(Glyphs)
  <2>1. Glyphs \ {char} \subseteq Glyphs
    OBVIOUS
  <2> QED BY <2>1, SeqMonotonic
<1>2. \A k \in 1 .. Len(w) : w[k] # char
  <2>1. \A k \in 1 .. Len(w) : w[k] \in Glyphs \ {char}
    BY ElementOfSeq
  <2> QED BY <2>1
<1> QED BY <1>1, <1>2, CutWord

\* The parts of a line.
LEMMA LineParts ==
  ASSUME table \in Tables, NEW i \in 0 .. Len(table) - 1
  PROVE  /\ emit_dec(i) = <<i>> /\ <<i>> \in Seq(0 .. 9)
         /\ TypeDigits(i) = <<table[i + 1].type \div 16, table[i + 1].type % 16>>
         /\ TypeDigits(i) \in Seq(Glyphs \ {Sp}) /\ TypeDigits(i) \in Seq(Glyphs \ {Nl})
         /\ Len(TypeDigits(i)) = 2
         /\ Mark(i) \in Seq(Glyphs \ {Nl}) /\ Len(Mark(i)) \in 1 .. 2
         /\ Numbers(i) \in Seq(Glyphs \ {Nl}) /\ Len(Numbers(i)) \in Nat /\ Len(Numbers(i)) <= 22
<1>1. i \in 0 .. 3 /\ table[i + 1].type \in 1 .. 255 /\ IsU32(table[i + 1].lba) /\ IsU32(table[i + 1].sectors)
  BY TableFacts
<1>2. emit_dec(i) = <<i>> /\ <<i>> \in Seq(0 .. 9)
  <2> DEFINE b == 10
  <2>1. b \in Nat /\ b > 1 /\ i \in 0 .. b - 1
    BY <1>1
  <2>2. Numeral(i, b) = <<i>>
    <3> HIDE DEF b
    <3> QED BY <2>1, NumeralOne
  <2>3. i \in 0 .. 9
    BY <1>1
  <2>4. emit_dec(i) = <<i>>
    BY <2>2 DEF emit_dec
  <2>5. <<i>> \in Seq(0 .. 9)
    BY <2>3
  <2> QED BY <2>4, <2>5, Zenon
<1>3. PICK x \in 0 .. 15, y \in 0 .. 15 : x = table[i + 1].type \div 16 /\ y = table[i + 1].type % 16
  <2>1. PICK t \in 1 .. 255 : t = table[i + 1].type
    BY <1>1
  <2>2. t \div 16 \in 0 .. 15 /\ t % 16 \in 0 .. 15
    OBVIOUS
  <2> QED BY <2>1, <2>2
<1>4. TypeDigits(i) = <<x, y>>
  <2>1. x % 16 = x
    OBVIOUS
  <2> QED BY <1>3, <2>1 DEF TypeDigits
<1>5. <<x, y>> \in Seq(Glyphs \ {Sp}) /\ <<x, y>> \in Seq(Glyphs \ {Nl}) /\ Len(<<x, y>>) = 2
  <2>1. x \in Glyphs \ {Sp} /\ y \in Glyphs \ {Sp} /\ x \in Glyphs \ {Nl} /\ y \in Glyphs \ {Nl}
    BY DEF Glyphs, Sp, Nl
  <2> QED BY <2>1
<1>6. Mark(i) \in Seq(Glyphs \ {Nl}) /\ Len(Mark(i)) \in 1 .. 2
  <2>1. Sp \in Glyphs \ {Nl} /\ Star \in Glyphs \ {Nl}
    BY DEF Glyphs, Sp, Star, Nl
  <2>2. CASE i = mounted_idx
    <3>1. Mark(i) = <<Star, Sp>>
      BY <2>2 DEF Mark
    <3> QED BY <2>1, <3>1
  <2>3. CASE i # mounted_idx
    <3>1. Mark(i) = <<Sp>>
      BY <2>3 DEF Mark
    <3> QED BY <2>1, <3>1
  <2> QED BY <2>2, <2>3
<1>7. Numbers(i) \in Seq(Glyphs \ {Nl}) /\ Len(Numbers(i)) \in Nat /\ Len(Numbers(i)) <= 22
  <2>1. PICK v, w : v = emit_dec(table[i + 1].lba) /\ w = emit_dec(table[i + 1].sectors)
    OBVIOUS
  <2>2. v \in Seq(0 .. 9) /\ w \in Seq(0 .. 9) /\ Len(v) \in Nat /\ Len(v) <= 10 /\ Len(w) \in Nat /\ Len(w) <= 10
    BY <1>1, <2>1, Decimal
  <2>3. PICK S : S = Glyphs \ {Nl}
    OBVIOUS
  <2>4. v \in Seq(S) /\ w \in Seq(S)
    BY <2>2, <2>3, DigitsPlain
  <2>5. <<Sp>> \in Seq(S) /\ Len(<<Sp>>) = 1
    <3>1. Sp \in S
      BY <2>3 DEF Glyphs, Sp, Nl
    <3> QED BY <3>1
  <2>6. <<Sp>> \o v \in Seq(S) /\ Len(<<Sp>> \o v) = 1 + Len(v)
    BY <2>4, <2>5, ConcatProperties
  <2>7. (<<Sp>> \o v) \o <<Sp>> \in Seq(S) /\ Len((<<Sp>> \o v) \o <<Sp>>) = (1 + Len(v)) + 1
    BY <2>5, <2>6, ConcatProperties
  <2>8. ((<<Sp>> \o v) \o <<Sp>>) \o w \in Seq(S) /\ Len(((<<Sp>> \o v) \o <<Sp>>) \o w) = ((1 + Len(v)) + 1) + Len(w)
    BY <2>4, <2>7, ConcatProperties
  <2>9. Numbers(i) = ((<<Sp>> \o v) \o <<Sp>>) \o w
    BY <2>1 DEF Numbers
  <2>10. ((1 + Len(v)) + 1) + Len(w) \in Nat /\ ((1 + Len(v)) + 1) + Len(w) <= 22
    BY <2>2
  <2> QED BY <2>3, <2>8, <2>9, <2>10
<1> QED BY <1>2, <1>3, <1>4, <1>5, <1>6, <1>7

\* What fits is written.
LEMMA EmitIs ==
  ASSUME NEW buf \in Seq(Glyphs), NEW w \in Seq(Glyphs), NEW cap \in Nat, Len(buf) + Len(w) <= cap
  PROVE  /\ buf # Full /\ emit_chars(buf, cap, w) = buf \o w
         /\ buf \o w \in Seq(Glyphs) /\ Len(buf \o w) = Len(buf) + Len(w)
<1>1. buf # Full
  <2> SUFFICES ASSUME buf = Full PROVE FALSE
    OBVIOUS
  <2>1. Len(buf) = 1 /\ buf[1] = -99
    BY DEF Full
  <2>2. 1 \in 1 .. Len(buf)
    BY <2>1
  <2>3. buf[1] \in Glyphs
    BY <2>2, ElementOfSeq
  <2> QED BY <2>1, <2>3 DEF Glyphs
<1>2. Len(buf) \in Nat /\ Len(w) \in Nat
  BY LenProperties
<1>3. ~(Len(buf) + Len(w) > cap)
  BY <1>2
<1>4. emit_chars(buf, cap, w) = buf \o w
  BY <1>1, <1>3 DEF emit_chars
<1> QED BY <1>1, <1>4, ConcatProperties

\* Four words, one after the other.
LEMMA FourAppends ==
  ASSUME NEW S, NEW a \in S, NEW b \in S, NEW c \in S, NEW d \in S, NEW u,
         u = Append(Append(Append(Append(<<>>, a), b), c), d)
  PROVE  u[1] = a /\ u[2] = b /\ u[3] = c /\ u[4] = d
<1>1. PICK p : p = Append(<<>>, a)
  OBVIOUS
<1>2. p \in Seq(S) /\ Len(p) = 1 /\ p[1] = a
  BY <1>1
<1>3. PICK q : q = Append(p, b)
  OBVIOUS
<1>4. q \in Seq(S) /\ Len(q) = 2 /\ q[1] = a /\ q[2] = b
  <2>1. q \in Seq(S) /\ Len(q) = Len(p) + 1 /\ (\A k \in 1 .. Len(p) : q[k] = p[k]) /\ q[Len(p) + 1] = b
    <3>1. p \in Seq(S)
      BY <1>2
    <3> QED BY <1>3, <3>1, AppendProperties
  <2>2. 1 \in 1 .. Len(p) /\ Len(p) + 1 = 2
    BY <1>2
  <2> QED BY <1>2, <2>1, <2>2
<1>5. PICK r : r = Append(q, c)
  OBVIOUS
<1>6. r \in Seq(S) /\ Len(r) = 3 /\ r[1] = a /\ r[2] = b /\ r[3] = c
  <2>1. r \in Seq(S) /\ Len(r) = Len(q) + 1 /\ (\A k \in 1 .. Len(q) : r[k] = q[k]) /\ r[Len(q) + 1] = c
    <3>1. q \in Seq(S)
      BY <1>4
    <3> QED BY <1>5, <3>1, AppendProperties
  <2>2. 1 \in 1 .. Len(q) /\ 2 \in 1 .. Len(q) /\ Len(q) + 1 = 3
    BY <1>4
  <2> QED BY <1>4, <2>1, <2>2
<1>7. u = Append(r, d)
  BY <1>1, <1>3, <1>5
<1>8. (\A k \in 1 .. Len(r) : u[k] = r[k]) /\ u[Len(r) + 1] = d
  BY <1>6, <1>7, AppendProperties
<1>9. 1 \in 1 .. Len(r) /\ 2 \in 1 .. Len(r) /\ 3 \in 1 .. Len(r) /\ Len(r) + 1 = 4
  BY <1>6
<1> QED BY <1>6, <1>8, <1>9

\* The star goes with the number, the space behind it separates.
LEMMA StarSpace ==
  ASSUME NEW S, NEW a \in S, NEW b \in S, NEW c \in S
  PROVE  <<a>> \o <<b, c>> = <<a, b>> \o <<c>>
<1>1. PICK p, q, r, s : p = <<a>> /\ q = <<b, c>> /\ r = <<a, b>> /\ s = <<c>>
  OBVIOUS
<1>2. p \in Seq(S) /\ Len(p) = 1 /\ p[1] = a /\ s \in Seq(S) /\ Len(s) = 1 /\ s[1] = c
  BY <1>1
<1>3. q \in Seq(S) /\ Len(q) = 2 /\ q[1] = b /\ q[2] = c
  BY <1>1
<1>4. r \in Seq(S) /\ Len(r) = 2 /\ r[1] = a /\ r[2] = b
  BY <1>1
<1>5. PICK u, v : u = p \o q /\ v = r \o s
  OBVIOUS
<1>6. u \in Seq(S) /\ Len(u) = 3 /\ u[1] = a /\ u[2] = b /\ u[3] = c
  <2>1. u \in Seq(S) /\ Len(u) = Len(p) + Len(q)
        /\ \A k \in 1 .. Len(p) + Len(q) : u[k] = IF k <= Len(p) THEN p[k] ELSE q[k - Len(p)]
    BY <1>2, <1>3, <1>5, ConcatProperties
  <2>2. Len(p) = 1 /\ Len(q) = 2
    BY <1>2, <1>3, <1>5
  <2>3. Len(u) = 3 /\ \A k \in 1 .. 3 : u[k] = IF k <= 1 THEN p[k] ELSE q[k - 1]
    BY <2>1, <2>2
  <2>4. u[1] = p[1] /\ u[2] = q[1] /\ u[3] = q[2]
    BY <2>3
  <2> QED BY <1>2, <1>3, <1>5, <2>1, <2>3, <2>4
<1>7. v \in Seq(S) /\ Len(v) = 3 /\ v[1] = a /\ v[2] = b /\ v[3] = c
  <2>1. v \in Seq(S) /\ Len(v) = Len(r) + Len(s)
        /\ \A k \in 1 .. Len(r) + Len(s) : v[k] = IF k <= Len(r) THEN r[k] ELSE s[k - Len(r)]
    BY <1>2, <1>4, <1>5, ConcatProperties
  <2>2. Len(r) = 2 /\ Len(s) = 1
    BY <1>2, <1>4, <1>5
  <2>3. Len(v) = 3 /\ \A k \in 1 .. 3 : v[k] = IF k <= 2 THEN r[k] ELSE s[k - 2]
    BY <2>1, <2>2
  <2>4. v[1] = r[1] /\ v[2] = r[2] /\ v[3] = s[1]
    BY <2>3
  <2> QED BY <1>2, <1>4, <1>5, <2>1, <2>3, <2>4
<1>8. \A k \in 1 .. 3 : k = 1 \/ k = 2 \/ k = 3
  OBVIOUS
<1>9. \A k \in 1 .. Len(u) : u[k] = v[k]
  BY <1>6, <1>7, <1>8
<1>10. u = v
  BY <1>6, <1>7, <1>9, SeqEqual
<1> QED BY <1>1, <1>5, <1>10

\* A line behind a list that leaves room for it: what Row writes, and what
\* the list is read as.
LEMMA RowIs ==
  ASSUME table \in Tables, NEW i \in 0 .. Len(table) - 1, NEW buf \in Seq(Glyphs), NEW cap \in Nat,
         Len(buf) + 28 <= cap, Cut(buf, Nl).last = <<>>
  PROVE  /\ Row(buf, cap, i) \in Seq(Glyphs) /\ Len(Row(buf, cap, i)) <= Len(buf) + 28
         /\ Cut(Row(buf, cap, i), Nl).done = Append(Cut(buf, Nl).done, PartLine(i))
         /\ Cut(Row(buf, cap, i), Nl).last = <<>>
<1>1. PICK a, m, t, x : a = emit_dec(i) /\ m = Mark(i) /\ t = TypeDigits(i) /\ x = Numbers(i)
  OBVIOUS
<1>2. Nl \in Glyphs /\ Sp \in Glyphs
  BY DEF Nl, Sp, Glyphs
<1>3. a \in Seq(0 .. 9) /\ Len(a) = 1
  <2>1. a = <<i>> /\ <<i>> \in Seq(0 .. 9)
    BY <1>1, LineParts
  <2>2. Len(<<i>>) = 1
    OBVIOUS
  <2> QED BY <2>1, <2>2
<1>4. PICK S : S = Glyphs \ {Nl}
  OBVIOUS
<1>5. a \in Seq(S) /\ m \in Seq(S) /\ t \in Seq(S) /\ x \in Seq(S)
  BY <1>1, <1>3, <1>4, LineParts, DigitsPlain
<1>6. Len(m) \in 1 .. 2 /\ Len(t) = 2 /\ Len(x) \in Nat /\ Len(x) <= 22
  BY <1>1, LineParts
<1>7. a \in Seq(Glyphs) /\ m \in Seq(Glyphs) /\ t \in Seq(Glyphs) /\ x \in Seq(Glyphs)
  <2>1. S \subseteq Glyphs
    BY <1>4
  <2> QED BY <1>5, <2>1, SeqMonotonic
<1>8. PICK n \in Nat : n = Len(buf) /\ n + 28 <= cap
  BY LenProperties
<1>80. PICK lm \in 1 .. 2, lx \in Nat : lm = Len(m) /\ lx = Len(x) /\ lx <= 22
  BY <1>6
<1>81. lm \in Nat /\ lm <= 2 /\ lx \in Nat /\ lx <= 22
  BY <1>80
<1>82. n + 28 <= cap
  BY <1>8
<1>9. PICK b1 : b1 = buf \o a
  OBVIOUS
<1>10. b1 = emit_chars(buf, cap, a) /\ b1 \in Seq(Glyphs) /\ Len(b1) = n + 1
  <2>1. Len(buf) + Len(a) <= cap
    BY <1>3, <1>8
  <2> QED BY <1>3, <1>7, <1>8, <1>9, <2>1, EmitIs
<1>11. PICK b2 : b2 = b1 \o m
  OBVIOUS
<1>12. b2 = emit_chars(b1, cap, m) /\ b2 \in Seq(Glyphs) /\ Len(b2) = n + 1 + lm
  <2>1. Len(b1) + Len(m) <= cap /\ Len(b1) + Len(m) = n + 1 + lm
    <3>1. Len(b1) = n + 1 /\ Len(m) = lm
      BY <1>10, <1>80
    <3>2. (n + 1) + lm <= cap /\ (n + 1) + lm = n + 1 + lm
      BY <1>81, <1>82
    <3> QED BY <3>1, <3>2, Zenon
  <2>2. emit_chars(b1, cap, m) = b1 \o m /\ b1 \o m \in Seq(Glyphs) /\ Len(b1 \o m) = Len(b1) + Len(m)
    BY <1>7, <1>10, <2>1, EmitIs, Zenon
  <2> QED BY <1>11, <2>1, <2>2, Zenon
<1>13. PICK b3 : b3 = b2 \o t
  OBVIOUS
<1>14. b2 # Full /\ b3 = emit_chars(b2, cap, t) /\ b3 \in Seq(Glyphs) /\ Len(b3) = n + 3 + lm
  <2>1. Len(b2) + Len(t) <= cap /\ Len(b2) + Len(t) = n + 3 + lm
    <3>1. Len(b2) = n + 1 + lm /\ Len(t) = 2
      BY <1>6, <1>12
    <3>2. (n + 1 + lm) + 2 <= cap /\ (n + 1 + lm) + 2 = n + 3 + lm
      BY <1>81, <1>82
    <3> QED BY <3>1, <3>2, Zenon
  <2>2. b2 # Full /\ emit_chars(b2, cap, t) = b2 \o t /\ b2 \o t \in Seq(Glyphs) /\ Len(b2 \o t) = Len(b2) + Len(t)
    BY <1>7, <1>12, <2>1, EmitIs, Zenon
  <2> QED BY <1>13, <2>1, <2>2, Zenon
<1>15. PICK z : z = x \o <<Nl>>
  OBVIOUS
<1>16. z \in Seq(Glyphs) /\ Len(z) = lx + 1
  <2>1. <<Nl>> \in Seq(Glyphs) /\ Len(<<Nl>>) = 1
    BY <1>2
  <2> QED BY <1>7, <1>15, <1>80, <2>1, ConcatProperties
<1>17. b3 \o z = emit_chars(b3, cap, z) /\ b3 \o z \in Seq(Glyphs) /\ Len(b3 \o z) = n + 4 + lm + lx
  <2>1. Len(b3) + Len(z) <= cap /\ Len(b3) + Len(z) = n + 4 + lm + lx
    <3>1. Len(b3) = n + 3 + lm /\ Len(z) = lx + 1
      BY <1>14, <1>16
    <3>2. (n + 3 + lm) + (lx + 1) <= cap /\ (n + 3 + lm) + (lx + 1) = n + 4 + lm + lx
      BY <1>81, <1>82
    <3> QED BY <3>1, <3>2
  <2>2. emit_chars(b3, cap, z) = b3 \o z /\ b3 \o z \in Seq(Glyphs) /\ Len(b3 \o z) = Len(b3) + Len(z)
    BY <1>14, <1>16, <2>1, EmitIs, Zenon
  <2> QED BY <2>1, <2>2, Zenon
<1>18. Row(buf, cap, i) = b3 \o z
  <2>1. emit_hex(b2, cap, table[i + 1].type) = b3
    BY <1>1, <1>14 DEF emit_hex, TypeDigits
  <2>2. z = <<Sp>> \o emit_dec(table[i + 1].lba) \o <<Sp>> \o emit_dec(table[i + 1].sectors) \o <<Nl>>
    BY <1>1, <1>15 DEF Numbers
  <2>3. Row(buf, cap, i) = emit_chars(emit_hex(b2, cap, table[i + 1].type), cap, z)
    BY <1>1, <1>10, <1>12, <2>2 DEF Row
  <2> QED BY <1>17, <2>1, <2>3
<1>19. Len(b3 \o z) <= Len(buf) + 28
  <2>1. n + 4 + lm + lx <= n + 28
    BY <1>81
  <2> QED BY <1>8, <1>17, <2>1
<1>20. PICK b4 : b4 = b3 \o x
  OBVIOUS
<1>21. b3 \o z = b4 \o <<Nl>>
  <2>1. <<Nl>> \in Seq(Glyphs)
    BY <1>2
  <2>2. PICK e \in Seq(Glyphs) : e = <<Nl>>
    BY <2>1
  <2>3. (b3 \o x) \o e = b3 \o (x \o e)
    <3>1. b3 \in Seq(Glyphs) /\ x \in Seq(Glyphs)
      BY <1>7, <1>14
    <3> QED BY <2>2, <3>1, GlyphsAssociate, Zenon
  <2> QED BY <1>15, <1>20, <2>2, <2>3
<1>50. a \in Seq(Glyphs \ {Nl}) /\ m \in Seq(Glyphs \ {Nl}) /\ t \in Seq(Glyphs \ {Nl}) /\ x \in Seq(Glyphs \ {Nl})
  BY <1>4, <1>5, Zenon
<1>22. Cut(b1, Nl).done = Cut(buf, Nl).done /\ Cut(b1, Nl).last = <<>> \o a
  <2>1. Cut(buf \o a, Nl).done = Cut(buf, Nl).done /\ Cut(buf \o a, Nl).last = Cut(buf, Nl).last \o a
    BY <1>2, <1>50, CutPlain, Zenon
  <2> QED BY <1>9, <2>1, Zenon
<1>23. <<>> \o a = a
  BY <1>7, ConcatEmptySeq
<1>24. Cut(b2, Nl).done = Cut(b1, Nl).done /\ Cut(b2, Nl).last = Cut(b1, Nl).last \o m
  <2>1. Cut(b1 \o m, Nl).done = Cut(b1, Nl).done /\ Cut(b1 \o m, Nl).last = Cut(b1, Nl).last \o m
    BY <1>2, <1>10, <1>50, CutPlain, Zenon
  <2> QED BY <1>11, <2>1, Zenon
<1>25. Cut(b3, Nl).done = Cut(b2, Nl).done /\ Cut(b3, Nl).last = Cut(b2, Nl).last \o t
  <2>1. Cut(b2 \o t, Nl).done = Cut(b2, Nl).done /\ Cut(b2 \o t, Nl).last = Cut(b2, Nl).last \o t
    BY <1>2, <1>12, <1>50, CutPlain, Zenon
  <2> QED BY <1>13, <2>1, Zenon
<1>26. b4 \in Seq(Glyphs) /\ Cut(b4, Nl).done = Cut(b3, Nl).done /\ Cut(b4, Nl).last = Cut(b3, Nl).last \o x
  <2>1. b3 \o x \in Seq(Glyphs) /\ Cut(b3 \o x, Nl).done = Cut(b3, Nl).done /\ Cut(b3 \o x, Nl).last = Cut(b3, Nl).last \o x
    BY <1>2, <1>14, <1>50, CutPlain, Zenon
  <2> QED BY <1>20, <2>1, Zenon
<1>27. Cut(b4 \o <<Nl>>, Nl).done = Append(Cut(b4, Nl).done, Cut(b4, Nl).last) /\ Cut(b4 \o <<Nl>>, Nl).last = <<>>
  BY <1>2, <1>26, CutEnd
<1>28. Cut(b4, Nl).last = PartLine(i)
  BY <1>1, <1>22, <1>23, <1>24, <1>25, <1>26 DEF PartLine
<1>29. Cut(b4, Nl).done = Cut(buf, Nl).done
  BY <1>22, <1>24, <1>25, <1>26
<1> QED BY <1>17, <1>18, <1>19, <1>21, <1>27, <1>28, <1>29

\* The words of a line.
LEMMA LineWords ==
  ASSUME table \in Tables, NEW i \in 0 .. Len(table) - 1
  PROVE  /\ PartLine(i) \in Seq(Glyphs)
         /\ LET words == Split(Append(PartLine(i), Sp), Sp)
            IN  /\ words[1] = IF i = mounted_idx THEN <<i, Star>> ELSE <<i>>
                /\ words[2] = TypeDigits(i)
                /\ words[3] = emit_dec(table[i + 1].lba) /\ words[4] = emit_dec(table[i + 1].sectors)
<1>1. PICK m, t, v, w : /\ m = Mark(i) /\ t = TypeDigits(i)
                        /\ v = emit_dec(table[i + 1].lba) /\ w = emit_dec(table[i + 1].sectors)
  OBVIOUS
<1>2. Sp \in Glyphs /\ Star \in Glyphs /\ Star # Sp
  BY DEF Sp, Star, Glyphs
<1>3. PICK S : S = Glyphs \ {Sp}
  OBVIOUS
<1>4. emit_dec(i) = <<i>> /\ <<i>> \in Seq(S) /\ <<i>> \in Seq(Glyphs)
  BY <1>3, LineParts, DigitsPlain
<1>5. t \in Seq(S)
  BY <1>1, <1>3, LineParts
<1>6. v \in Seq(S) /\ w \in Seq(S)
  <2>1. IsU32(table[i + 1].lba) /\ IsU32(table[i + 1].sectors)
    BY TableFacts
  <2>2. v \in Seq(0 .. 9) /\ w \in Seq(0 .. 9)
    BY <1>1, <2>1, Decimal
  <2> QED BY <1>3, <2>2, DigitsPlain
<1>7. t \in Seq(Glyphs) /\ v \in Seq(Glyphs) /\ w \in Seq(Glyphs) /\ <<Sp>> \in Seq(Glyphs)
  <2>1. S \subseteq Glyphs
    BY <1>3
  <2>2. <<Sp>> \in Seq(Glyphs)
    BY <1>2
  <2> QED BY <1>5, <1>6, <2>1, <2>2, SeqMonotonic
<1>8. PICK a : a = IF i = mounted_idx THEN <<i, Star>> ELSE <<i>>
  OBVIOUS
<1>9. a \in Seq(S) /\ a \in Seq(Glyphs) /\ <<i>> \o m = a \o <<Sp>>
  <2>1. i \in S /\ Star \in S /\ i \in Glyphs
    <3>1. 1 \in 1 .. Len(<<i>>) /\ <<i>>[1] = i
      OBVIOUS
    <3>2. i \in S
      BY <1>4, <3>1, ElementOfSeq
    <3> QED BY <1>2, <1>3, <3>2
  <2>2. CASE i = mounted_idx
    <3>1. a = <<i, Star>> /\ m = <<Star, Sp>>
      BY <1>1, <1>8, <2>2 DEF Mark
    <3>2. <<i>> \o <<Star, Sp>> = <<i, Star>> \o <<Sp>>
      BY <1>2, <2>1, StarSpace
    <3> QED BY <1>2, <2>1, <3>1, <3>2
  <2>3. CASE i # mounted_idx
    <3>1. a = <<i>> /\ m = <<Sp>>
      BY <1>1, <1>8, <2>3 DEF Mark
    <3> QED BY <2>1, <3>1
  <2> QED BY <2>2, <2>3
<1>31. PICK d1, d2, d3, d4 : /\ d1 = Append(<<>>, a) /\ d2 = Append(d1, t) /\ d3 = Append(d2, v)
                             /\ d4 = Append(d3, w)
  OBVIOUS
\* From the left: the number, the type, the first sector and the size.
<1>10. Cut(<<>>, Sp).done = <<>> /\ Cut(<<>>, Sp).last = <<>> /\ <<>> \in Seq(Glyphs)
  BY CutEmpty
<1>11. \A s \in Seq(Glyphs) : <<>> \o s = s
  BY ConcatEmptySeq
<1>12. Cut(a, Sp).done = <<>> /\ Cut(a, Sp).last = a
  <2>1. <<>> \o a = a
    BY <1>9, <1>11
  <2>2. Cut(<<>> \o a, Sp).done = Cut(<<>>, Sp).done /\ Cut(<<>> \o a, Sp).last = Cut(<<>>, Sp).last \o a
    BY <1>2, <1>3, <1>9, <1>10, CutPlain
  <2> QED BY <1>10, <2>1, <2>2
<1>13. PICK s1 : s1 = a \o <<Sp>>
  OBVIOUS
<1>14. s1 \in Seq(Glyphs) /\ Cut(s1, Sp).done = d1 /\ Cut(s1, Sp).last = <<>>
  BY <1>2, <1>9, <1>12, <1>13, <1>31, CutEnd
<1>15. PICK s2 : s2 = s1 \o t
  OBVIOUS
<1>16. s2 \in Seq(Glyphs) /\ Cut(s2, Sp).done = d1 /\ Cut(s2, Sp).last = t
  <2>1. s2 \in Seq(Glyphs) /\ Cut(s2, Sp).done = d1 /\ Cut(s2, Sp).last = <<>> \o t
    BY <1>2, <1>3, <1>5, <1>14, <1>15, CutPlain
  <2> QED BY <1>7, <1>11, <2>1
<1>17. PICK s3 : s3 = s2 \o <<Sp>>
  OBVIOUS
<1>18. s3 \in Seq(Glyphs) /\ Cut(s3, Sp).done = d2 /\ Cut(s3, Sp).last = <<>>
  BY <1>31, <1>2, <1>16, <1>17, CutEnd
<1>19. PICK s4 : s4 = s3 \o v
  OBVIOUS
<1>20. s4 \in Seq(Glyphs) /\ Cut(s4, Sp).done = d2 /\ Cut(s4, Sp).last = v
  <2>1. s4 \in Seq(Glyphs) /\ Cut(s4, Sp).done = d2 /\ Cut(s4, Sp).last = <<>> \o v
    <3>1. s3 \o v \in Seq(Glyphs) /\ Cut(s3 \o v, Sp).done = Cut(s3, Sp).done /\ Cut(s3 \o v, Sp).last = Cut(s3, Sp).last \o v
      BY <1>2, <1>3, <1>6, <1>18, CutPlain
    <3> QED BY <1>18, <1>19, <3>1, Zenon
  <2> QED BY <1>7, <1>11, <2>1
<1>21. PICK s5 : s5 = s4 \o <<Sp>>
  OBVIOUS
<1>22. s5 \in Seq(Glyphs) /\ Cut(s5, Sp).done = d3 /\ Cut(s5, Sp).last = <<>>
  BY <1>31, <1>2, <1>20, <1>21, CutEnd
<1>23. PICK s6 : s6 = s5 \o w
  OBVIOUS
<1>24. s6 \in Seq(Glyphs) /\ Cut(s6, Sp).done = d3 /\ Cut(s6, Sp).last = w
  <2>1. s6 \in Seq(Glyphs) /\ Cut(s6, Sp).done = d3 /\ Cut(s6, Sp).last = <<>> \o w
    <3>1. s5 \o w \in Seq(Glyphs) /\ Cut(s5 \o w, Sp).done = Cut(s5, Sp).done /\ Cut(s5 \o w, Sp).last = Cut(s5, Sp).last \o w
      BY <1>2, <1>3, <1>6, <1>22, CutPlain
    <3> QED BY <1>22, <1>23, <3>1, Zenon
  <2> QED BY <1>7, <1>11, <2>1
<1>25. PartLine(i) = s6
  <2>1. PICK x1 : x1 = <<Sp>> \o v
    OBVIOUS
  <2>2. PICK x2 : x2 = x1 \o <<Sp>>
    OBVIOUS
  <2>3. x1 \in Seq(Glyphs) /\ x2 \in Seq(Glyphs)
    BY <1>7, <2>1, <2>2, ConcatProperties
  <2>4. Numbers(i) = x2 \o w
    BY <1>1, <2>1, <2>2 DEF Numbers
  <2>5. PartLine(i) = s2 \o (x2 \o w)
    BY <1>1, <1>4, <1>9, <1>13, <1>15, <2>4 DEF PartLine
  <2>6. s2 \o (x2 \o w) = (s2 \o x2) \o w
    <3>1. (s2 \o x2) \o w = s2 \o (x2 \o w)
      <4>1. s2 \in Seq(Glyphs) /\ x2 \in Seq(Glyphs) /\ w \in Seq(Glyphs)
        BY <1>7, <1>16, <2>3, Zenon
      <4> QED BY <4>1, GlyphsAssociate, Zenon
    <3> QED BY <3>1
  <2>7. s2 \o x2 = (s2 \o x1) \o <<Sp>>
    <3>1. PICK e \in Seq(Glyphs) : e = <<Sp>>
      BY <1>7
    <3>2. (s2 \o x1) \o e = s2 \o (x1 \o e)
      BY <1>16, <2>3, <3>1, GlyphsAssociate, Zenon
    <3> QED BY <2>2, <3>1, <3>2
  <2>8. s2 \o x1 = s3 \o v
    <3>1. PICK e \in Seq(Glyphs) : e = <<Sp>>
      BY <1>7
    <3>2. (s2 \o e) \o v = s2 \o (e \o v)
      BY <1>7, <1>16, <3>1, GlyphsAssociate, Zenon
    <3> QED BY <1>17, <2>1, <3>1, <3>2
  <2> QED BY <1>19, <1>21, <1>23, <2>5, <2>6, <2>7, <2>8
<1>26. Cut(s6 \o <<Sp>>, Sp).done = d4 /\ s6 \o <<Sp>> \in Seq(Glyphs)
  BY <1>2, <1>24, <1>31, CutEnd
<1>27. d4[1] = a /\ d4[2] = t /\ d4[3] = v /\ d4[4] = w
  <2>1. d4 = Append(Append(Append(Append(<<>>, a), t), v), w)
    BY <1>31
  <2> QED BY <1>7, <1>9, <2>1, FourAppends
<1>28. Append(s6, Sp) = s6 \o <<Sp>>
  BY <1>2, <1>24, AppendIsConcat
<1>29. Split(s6 \o <<Sp>>, Sp) = Cut(s6 \o <<Sp>>, Sp).done
  BY <1>26, CutIs
<1>30. Split(Append(PartLine(i), Sp), Sp) = d4
  BY <1>25, <1>26, <1>28, <1>29
<1> QED BY <1>1, <1>8, <1>24, <1>25, <1>27, <1>30

\* Full or not, a buffer holds characters.
LEMMA EmitType ==
  ASSUME NEW buf \in Seq(Int), NEW cap, NEW w \in Seq(Int)
  PROVE  emit_chars(buf, cap, w) \in Seq(Int)
<1>1. Full \in Seq(Int)
  BY DEF Full
<1>2. buf \o w \in Seq(Int)
  OBVIOUS
<1> QED BY <1>1, <1>2 DEF emit_chars

\* So does one that Row has been at, whether the line fits or not.
LEMMA RowType ==
  ASSUME table \in Tables, NEW i \in 0 .. Len(table) - 1, NEW buf \in Seq(Int), NEW cap
  PROVE  Row(buf, cap, i) \in Seq(Int)
<1>1. Glyphs \subseteq Int /\ Glyphs \ {Nl} \subseteq Int /\ 0 .. 9 \subseteq Int
  BY DEF Glyphs
<1>2. emit_dec(i) \in Seq(Int) /\ Mark(i) \in Seq(Int) /\ Numbers(i) \in Seq(Int) /\ TypeDigits(i) \in Seq(Int)
  BY <1>1, LineParts, SeqMonotonic
<1>3. PICK b2 : b2 = emit_chars(emit_chars(buf, cap, emit_dec(i)), cap, Mark(i))
  OBVIOUS
<1>4. b2 \in Seq(Int)
  BY <1>2, <1>3, EmitType
<1>5. PICK b3 : b3 = emit_hex(b2, cap, table[i + 1].type)
  OBVIOUS
<1>6. b3 \in Seq(Int)
  <2>1. CASE b2 = Full
    <3>1. PICK y \in Int : y = table[i + 1].type % 16
      <4>1. table[i + 1].type \in 1 .. 255
        BY TableFacts
      <4>2. PICK t \in 1 .. 255 : t = table[i + 1].type
        BY <4>1
      <4>3. t % 16 \in Int
        OBVIOUS
      <4> QED BY <4>2, <4>3
    <3>2. <<y>> \in Seq(Int) /\ Full \in Seq(Int)
      BY DEF Full
    <3>3. b3 = IF cap < 1 THEN Full ELSE <<y>>
      BY <1>5, <2>1, <3>1 DEF emit_hex
    <3> QED BY <3>2, <3>3
  <2>2. CASE b2 # Full
    <3>1. b3 = emit_chars(b2, cap, TypeDigits(i))
      BY <1>5, <2>2 DEF emit_hex, TypeDigits
    <3> QED BY <1>2, <1>4, <3>1, EmitType
  <2> QED BY <2>1, <2>2
<1>7. PICK z : z = Numbers(i) \o <<Nl>>
  OBVIOUS
<1>8. z \in Seq(Int)
  <2>1. Nl \in Int
    BY DEF Nl
  <2>2. <<Nl>> \in Seq(Int)
    BY <2>1
  <2> QED BY <1>2, <1>7, <2>2, ConcatProperties
<1>9. Row(buf, cap, i) = emit_chars(b3, cap, z)
  BY <1>3, <1>5, <1>7 DEF Row, Numbers
<1> QED BY <1>6, <1>8, <1>9, EmitType

\* The list that SYS_PARTLIST writes into a buffer of 28 characters for each
\* partition, line by line.
LEMMA ListIs ==
  ASSUME table \in Tables, NEW cap \in 28 * Len(table) .. CapMax
  PROVE  LET lines == Split(SYS_PARTLIST(cap), Nl)
         IN  /\ Len(lines) = Len(table)
             /\ \A i \in 1 .. Len(table) : lines[i] = PartLine(i - 1)
             /\ DOMAIN lines = 1 .. Len(table)
<1>1. PICK n : n = Len(table)
  OBVIOUS
<1>2. PICK a : a = <<>>
  OBVIOUS
<1>3. n \in Nat /\ n <= 4
  <2>1. table \in Seq(Range(table)) /\ Len(table) <= 4
    BY MoonAssumption
  <2>2. Len(table) \in Nat
    BY <2>1, LenProperties
  <2> QED BY <1>1, <2>1, <2>2
<1>4. a = <<>>
  BY <1>2
<1>5. a \in Seq(Int)
  BY <1>2
<1>50. cap \in Nat /\ 28 * n <= cap /\ cap <= CapMax
  BY <1>1, <1>3 DEF CapMax
<1> DEFINE step(x, k) == IF k > 1 /\ x = Full THEN Full ELSE Row(x, cap, k - 1)
<1>55. ASSUME NEW k \in 1 .. n, NEW x \in Seq(Int) PROVE step(x, k) \in Seq(Int)
  <2>1. k - 1 \in 0 .. Len(table) - 1
    BY <1>1, <1>3
  <2>2. Row(x, cap, k - 1) \in Seq(Int)
    BY <2>1, RowType
  <2>3. Full \in Seq(Int)
    BY DEF Full
  <2> QED BY <2>2, <2>3
<1> HIDE DEF step
<1> DEFINE h == [q \in (1 .. n) \X Seq(Int) |-> step(q[2], q[1])]
<1>6. h \in [(1 .. n) \X Seq(Int) -> Seq(Int)]
  BY <1>55
<1>7. PICK e : e = h
  OBVIOUS
<1>8. e \in [(1 .. n) \X Seq(Int) -> Seq(Int)]
  BY <1>6, <1>7
<1>9. ASSUME NEW k \in 1 .. n, NEW x \in Seq(Int) PROVE e[<<k, x>>] = step(x, k)
  BY <1>7
<1> HIDE DEF h
<1>10. PICK f : Solves(f, n, Seq(Int), a, e)
  BY <1>3, <1>5, <1>8, RecursionExists
<1> DEFINE P(g) == g = [k \in 0 .. n |-> IF k = 0 THEN <<>> ELSE step(g[k - 1], k)]
<1>11. P(f)
  <2>1. f \in [0 .. n -> Seq(Int)] /\ f[0] = a /\ \A k \in 1 .. n : f[k] = e[<<k, f[k - 1]>>]
    BY <1>10 DEF Solves
  <2>2. ASSUME NEW k \in 1 .. n PROVE f[k] = step(f[k - 1], k)
    <3>1. f[k - 1] \in Seq(Int)
      BY <1>3, <2>1
    <3> QED BY <1>9, <2>1, <3>1
  <2>3. ASSUME NEW k \in 0 .. n PROVE f[k] = IF k = 0 THEN <<>> ELSE step(f[k - 1], k)
    <3>1. CASE k = 0
      BY <1>4, <2>1, <3>1
    <3>2. CASE k # 0
      <4>1. k \in 1 .. n
        BY <1>3, <3>2
      <4> QED BY <2>2, <3>2, <4>1
    <3> QED BY <3>1, <3>2
  <2>4. f = [k \in 0 .. n |-> f[k]]
    BY <2>1
  <2> QED BY <2>3, <2>4
<1>12. PICK g : g = CHOOSE x : P(x)
  OBVIOUS
<1>13. P(g)
  <2> HIDE DEF P
  <2> QED BY <1>11, <1>12
<1>14. SYS_PARTLIST(cap) = IF cap > CapMax \/ g[n] = Full THEN E_INVAL ELSE g[n]
  BY <1>1, <1>12 DEF SYS_PARTLIST, step
<1>15. g[0] = a
  <2>1. 0 \in 0 .. n
    BY <1>3
  <2> QED BY <1>4, <1>13, <2>1
<1>16. ASSUME NEW k \in 1 .. n PROVE g[k] = step(g[k - 1], k)
  <2>1. k \in 0 .. n /\ k # 0
    BY <1>3
  <2> QED BY <1>13, <2>1
<1>17. g = [k \in 0 .. n |-> g[k]]
  BY <1>13
<1>18. Solves(g, n, Seq(Int), a, e)
  <2>1. \A k \in 1 .. n : g[k - 1] \in Seq(Int) => g[k] = e[<<k, g[k - 1]>>]
    BY <1>9, <1>16
  <2> QED BY <1>3, <1>5, <1>8, <1>15, <1>17, <2>1, RecursionSolved
<1>19. g \in [0 .. n -> Seq(Int)]
  BY <1>18 DEF Solves
<1> DEFINE Q(k) == /\ g[k] \in Seq(Glyphs) /\ Len(g[k]) <= 28 * k
                   /\ Cut(g[k], Nl).last = <<>> /\ Len(Cut(g[k], Nl).done) = k
                   /\ Cut(g[k], Nl).done \in Seq(Seq(Glyphs))
                   /\ \A i \in 1 .. k : Cut(g[k], Nl).done[i] = PartLine(i - 1)
           T == {k \in Nat : k <= n => Q(k)}
<1>20. 0 \in T
  <2>1. g[0] = <<>>
    BY <1>2, <1>15
  <2>2. Cut(<<>>, Nl).done = <<>> /\ Cut(<<>>, Nl).last = <<>>
    BY CutEmpty
  <2>3. PICK z : z = <<>>
    OBVIOUS
  <2>4. z \in Seq(Glyphs) /\ Len(z) = 0 /\ z \in Seq(Seq(Glyphs)) /\ 28 * 0 = 0
    BY <2>3
  <2>5. g[0] = z /\ Cut(z, Nl).done = z /\ Cut(z, Nl).last = <<>>
    BY <2>1, <2>2, <2>3
  <2>6. Q(0)
    BY <2>4, <2>5
  <2> HIDE DEF Q
  <2> QED BY <2>6
<1>21. ASSUME NEW k \in Nat, k \in T PROVE k + 1 \in T
  <2> HIDE DEF Q
  <2> SUFFICES ASSUME k + 1 <= n PROVE Q(k + 1)
    OBVIOUS
  <2>1. k + 1 \in 1 .. n /\ (k + 1) - 1 = k /\ k <= n
    BY <1>3
  <2>2. k \in 0 .. Len(table) - 1
    BY <1>1, <1>3
  <2>3. Q(k)
    BY <1>21, <2>1
  <2>4. PICK b : b = g[k]
    OBVIOUS
  <2>5. b \in Seq(Glyphs) /\ Len(b) \in Nat /\ Len(b) <= 28 * k /\ Cut(b, Nl).last = <<>>
    BY <2>3, <2>4, LenProperties DEF Q
  <2>6. Len(b) + 28 <= cap
    <3>1. PICK m \in Nat : m = Len(b) /\ m <= 28 * k
      BY <2>5
    <3>2. m + 28 <= cap
      BY <1>3, <1>50, <2>1, <3>1
    <3> QED BY <3>1, <3>2
  <2>7. b # Full
    <3>1. <<>> \in Seq(Glyphs) /\ Len(<<>>) = 0
      OBVIOUS
    <3>2. PICK w \in Seq(Glyphs) : w = <<>> /\ Len(w) = 0
      BY <3>1
    <3>3. Len(b) + Len(w) <= cap
      BY <1>50, <2>5, <2>6, <3>2
    <3> QED BY <1>50, <2>5, <3>2, <3>3, EmitIs
  <2>8. g[k + 1] = Row(b, cap, k)
    <3>1. g[k + 1] = step(b, k + 1)
      BY <1>16, <2>1, <2>4
    <3> QED BY <2>1, <2>7, <3>1 DEF step
  <2>9. PICK r : r = Row(b, cap, k)
    OBVIOUS
  <2>10. /\ r \in Seq(Glyphs) /\ Len(r) <= Len(b) + 28 /\ Cut(r, Nl).last = <<>>
         /\ Cut(r, Nl).done = Append(Cut(b, Nl).done, PartLine(k))
    BY <1>50, <2>2, <2>5, <2>6, <2>9, RowIs
  <2>11. Len(r) <= 28 * (k + 1)
    <3>1. PICK m \in Nat : m = Len(b) /\ m <= 28 * k
      BY <2>5
    <3>2. PICK j \in Nat : j = Len(r) /\ j <= m + 28
      BY <2>10, <3>1, LenProperties
    <3>3. j <= 28 * (k + 1)
      BY <3>1, <3>2
    <3> QED BY <3>2, <3>3
  <2>12. PICK d, w : d = Cut(b, Nl).done /\ w = Cut(r, Nl).done
    OBVIOUS
  <2>13. d \in Seq(Seq(Glyphs)) /\ Len(d) = k /\ \A i \in 1 .. k : d[i] = PartLine(i - 1)
    BY <2>3, <2>4, <2>12 DEF Q
  <2>14. PartLine(k) \in Seq(Glyphs)
    BY <2>2, LineWords
  <2>15. w = Append(d, PartLine(k))
    BY <2>10, <2>12
  <2>16. w \in Seq(Seq(Glyphs)) /\ Len(w) = k + 1 /\ w[k + 1] = PartLine(k) /\ \A i \in 1 .. k : w[i] = d[i]
    <3>1. PICK S : S = Seq(Glyphs)
      OBVIOUS
    <3>2. d \in Seq(S) /\ PartLine(k) \in S
      BY <2>13, <2>14, <3>1
    <3>3. /\ Append(d, PartLine(k)) \in Seq(S) /\ Len(Append(d, PartLine(k))) = Len(d) + 1
          /\ \A i \in 1 .. Len(d) : Append(d, PartLine(k))[i] = d[i]
          /\ Append(d, PartLine(k))[Len(d) + 1] = PartLine(k)
      BY <3>2, AppendProperties
    <3>4. Len(d) = k
      BY <2>13
    <3> QED BY <2>15, <3>1, <3>3, <3>4
  <2>17. ASSUME NEW i \in 1 .. k + 1 PROVE w[i] = PartLine(i - 1)
    <3>1. CASE i = k + 1
      BY <2>1, <2>16, <3>1
    <3>2. CASE i # k + 1
      <4>1. i \in 1 .. k
        BY <3>2
      <4> QED BY <2>13, <2>16, <4>1
    <3> QED BY <3>1, <3>2
  <2>18. g[k + 1] = r
    BY <2>8, <2>9
  <2> QED BY <2>10, <2>11, <2>12, <2>16, <2>17, <2>18 DEF Q
<1>22. Nat \subseteq T
  <2> HIDE DEF T
  <2> QED BY <1>20, <1>21, InductionOnSet
<1>23. Q(n)
  <2>1. n \in T /\ n <= n
    <3> HIDE DEF T
    <3> QED BY <1>3, <1>22
  <2> HIDE DEF Q
  <2> QED BY <2>1
<1>24. g[n] # Full
  <2>1. <<>> \in Seq(Glyphs) /\ Len(<<>>) = 0
    OBVIOUS
  <2>2. PICK w \in Seq(Glyphs) : w = <<>> /\ Len(w) = 0
    BY <2>1
  <2>3. PICK m \in Nat : m = Len(g[n])
    BY <1>23, LenProperties
  <2>4. Len(g[n]) + Len(w) <= m
    BY <2>2, <2>3
  <2> QED BY <1>23, <2>4, EmitIs
<1>25. SYS_PARTLIST(cap) = g[n]
  <2>1. ~(cap > CapMax)
    BY <1>50 DEF CapMax
  <2> QED BY <1>14, <1>24, <2>1
<1>26. PICK d : d = Cut(g[n], Nl).done
  OBVIOUS
<1>27. Split(g[n], Nl) = d
  BY <1>23, <1>26, CutIs
<1>28. d \in Seq(Seq(Glyphs)) /\ Len(d) = n /\ \A i \in 1 .. n : d[i] = PartLine(i - 1)
  BY <1>23, <1>26
<1>29. DOMAIN d = 1 .. n
  BY <1>28, LenProperties
<1> QED BY <1>1, <1>25, <1>27, <1>28, <1>29

\* What the list says in the line of partition i - 1.
SaysTrue(text, i) ==
  LET words == Split(Append(text, Sp), Sp)
      number == IF Last(words[1]) = Star THEN Front(words[1]) ELSE words[1]
      size == ValueOf(words[4], 10)
  IN  /\ SYS_MOUNT(parse_idx(number)) = fs_mount_part(i - 1)
      /\ (Star \in ToSet(words[1])) = (mounted_idx = i - 1)
      /\ words[2] = <<table[i].type \div 16, table[i].type % 16>>
      /\ ValueOf(words[3], 10) = table[i].lba /\ size = table[i].sectors

\* The number of a line, with or without its star.
LEMMA NumberIs ==
  ASSUME NEW i \in 0 .. 3, NEW w, w = (IF i = mounted_idx THEN <<i, Star>> ELSE <<i>>)
  PROVE  /\ (IF Last(w) = Star THEN Front(w) ELSE w) = <<i>>
         /\ (Star \in ToSet(w)) = (mounted_idx = i)
<1>1. Star \in Int /\ i \in Int /\ Star # i
  BY DEF Star
<1>2. CASE i = mounted_idx
  <2>1. w = <<i, Star>>
    BY <1>2
  <2>2. w = Append(<<i>>, Star)
    <3>1. PICK p : p = <<i>>
      OBVIOUS
    <3>2. p \in Seq(Int) /\ Len(p) = 1 /\ p[1] = i
      BY <1>1, <3>1
    <3>3. PICK q : q = Append(p, Star)
      OBVIOUS
    <3>4. q \in Seq(Int) /\ Len(q) = 2 /\ q[1] = i /\ q[2] = Star
      <4>1. p \in Seq(Int)
        BY <3>2
      <4>2. q \in Seq(Int) /\ Len(q) = Len(p) + 1 /\ (\A k \in 1 .. Len(p) : q[k] = p[k]) /\ q[Len(p) + 1] = Star
        BY <1>1, <3>3, <4>1, AppendProperties
      <4>3. 1 \in 1 .. Len(p) /\ Len(p) + 1 = 2
        BY <3>2
      <4> QED BY <3>2, <4>2, <4>3
    <3>5. w \in Seq(Int) /\ Len(w) = 2 /\ w[1] = i /\ w[2] = Star
      BY <1>1, <2>1
    <3>6. \A k \in 1 .. 2 : k = 1 \/ k = 2
      OBVIOUS
    <3>7. \A k \in 1 .. Len(q) : q[k] = w[k]
      BY <3>4, <3>5, <3>6
    <3>8. q = w
      BY <3>4, <3>5, <3>7, SeqEqual
    <3> QED BY <3>1, <3>3, <3>8
  <2>3. <<i>> \in Seq(Int)
    BY <1>1
  <2>4. PICK m \in Nat : m = Len(<<i>>) /\ m = 1
    OBVIOUS
  <2>5. Len(w) = 2 /\ w[2] = Star /\ w[1] = i /\ DOMAIN w = 1 .. 2
    BY <2>1
  <2>6. Last(w) = Star
    BY <2>5 DEF Last
  <2>7. Front(w) = <<i>>
    <3>1. PICK q : q = SubSeq(w, 1, 1)
      OBVIOUS
    <3>2. w \in Seq(Int)
      BY <1>1, <2>1
    <3>3. q \in Seq(Int) /\ Len(q) = 1 /\ q[1] = i
      BY <2>5, <3>1, <3>2
    <3>4. PICK p : p = <<i>>
      OBVIOUS
    <3>5. p \in Seq(Int) /\ Len(p) = 1 /\ p[1] = i
      BY <1>1, <3>4
    <3>6. \A k \in 1 .. Len(q) : q[k] = p[k]
      BY <3>3, <3>5
    <3>7. q = p
      BY <3>3, <3>5, <3>6, SeqEqual
    <3>8. Front(w) = SubSeq(w, 1, Len(w) - 1)
      BY DEF Front
    <3>9. Len(w) - 1 = 1
      BY <2>5
    <3> QED BY <3>1, <3>4, <3>7, <3>8, <3>9
  <2>8. Star \in ToSet(w)
    <3>1. 2 \in DOMAIN w /\ w[2] = Star
      BY <2>5
    <3> QED BY <3>1 DEF ToSet
  <2> QED BY <1>2, <2>6, <2>7, <2>8
<1>3. CASE i # mounted_idx
  <2>1. w = <<i>>
    BY <1>3
  <2>2. Len(w) = 1 /\ w[1] = i /\ DOMAIN w = 1 .. 1
    BY <2>1
  <2>3. Last(w) = i
    BY <2>2 DEF Last
  <2>4. Star \notin ToSet(w)
    <3>1. \A k \in DOMAIN w : w[k] = i
      BY <2>2
    <3> QED BY <1>1, <3>1 DEF ToSet
  <2> QED BY <1>1, <1>3, <2>1, <2>3, <2>4
<1> QED BY <1>2, <1>3

\* A line says what is so.
LEMMA LineTrue ==
  ASSUME table \in Tables, NEW i \in 1 .. Len(table)
  PROVE  SaysTrue(PartLine(i - 1), i)
<1>1. Len(table) \in Nat
  <2>1. table \in Seq(Range(table))
    BY MoonAssumption
  <2> QED BY <2>1, LenProperties
<1>2. PICK j \in 0 .. Len(table) - 1 : j = i - 1 /\ j + 1 = i
  BY <1>1
<1>3. j \in 0 .. 3 /\ IsU32(table[i].lba) /\ IsU32(table[i].sectors)
  BY <1>2, TableFacts
<1>4. PICK words : words = Split(Append(PartLine(j), Sp), Sp)
  OBVIOUS
<1>5. /\ words[1] = (IF j = mounted_idx THEN <<j, Star>> ELSE <<j>>)
      /\ words[2] = TypeDigits(j)
      /\ words[3] = emit_dec(table[i].lba) /\ words[4] = emit_dec(table[i].sectors)
  BY <1>2, <1>4, LineWords
<1>6. PICK number : number = IF Last(words[1]) = Star THEN Front(words[1]) ELSE words[1]
  OBVIOUS
<1>7. number = <<j>> /\ (Star \in ToSet(words[1])) = (mounted_idx = j)
  BY <1>3, <1>5, <1>6, NumberIs
<1>8. SYS_MOUNT(parse_idx(number)) = fs_mount_part(j)
  <2>1. <<j>> = Numeral(j, 10) /\ <<j>> \in Seq(0 .. 9)
    BY <1>2, LineParts DEF emit_dec
  <2>2. ValueOf(<<j>>, 10) = j
    <3> DEFINE b == 10
    <3>1. b \in Nat /\ b > 1 /\ j \in Nat
      BY <1>3
    <3>2. ValueOf(Numeral(j, b), b) = j
      <4> HIDE DEF b
      <4> QED BY <3>1, NumeralReads
    <3> QED BY <2>1, <3>2
  <2>3. IntHalf \in Nat /\ 4 <= IntHalf
    BY MoonAssumption
  <2>4. j \in Nat /\ j < IntHalf
    BY <1>3, <2>3
  <2>5. parse_idx(<<j>>) = j
    BY <2>1, <2>2, <2>4, ParseIs
  <2>6. SYS_MOUNT(j) = fs_mount_part(j)
    BY <2>4, MountIs
  <2> QED BY <1>7, <2>5, <2>6
<1>9. words[2] = <<table[i].type \div 16, table[i].type % 16>>
  BY <1>2, <1>5, LineParts
<1>10. ValueOf(words[3], 10) = table[i].lba /\ ValueOf(words[4], 10) = table[i].sectors
  BY <1>3, <1>5, Decimal
<1> QED BY <1>2, <1>4, <1>6, <1>7, <1>8, <1>9, <1>10 DEF SaysTrue

\* SYS_PARTLIST keeps ListReadsBack.
LEMMA ListShown ==
  ASSUME table \in Tables, NEW cap \in Nat, moon_list(cap)
  PROVE  ListReadsBack'
<1>1. /\ reply'.cmd = "list" /\ reply'.text = SYS_PARTLIST(cap) /\ reply'.cap = cap
      /\ table' = table /\ mounted_idx' = mounted_idx
  BY DEF moon_list
<1>2. CASE cap \in Longest * Len(table) .. CapMax
  <2>1. PICK rows : rows = Split(SYS_PARTLIST(cap), Nl)
    OBVIOUS
  <2>2. Len(rows) = Len(table) /\ DOMAIN rows = 1 .. Len(table) /\ \A i \in 1 .. Len(table) : rows[i] = PartLine(i - 1)
    BY <1>2, <2>1, ListIs DEF Longest
  <2>3. \A i \in DOMAIN rows : SaysTrue(rows[i], i)
    BY <2>2, LineTrue
  <2>4. \A i \in DOMAIN rows : SaysTrue(rows[i], i)'
    BY <1>1, <2>3 DEF SaysTrue, SYS_MOUNT, fs_mount_part, part_get
  <2> QED BY <1>1, <2>1, <2>2, <2>4 DEF ListReadsBack, SaysTrue
<1>3. CASE cap \notin Longest * Len(table) .. CapMax
  BY <1>1, <1>3 DEF ListReadsBack
<1> QED BY <1>2, <1>3

\* The inductive invariant of moon.
MoonInv == table \in Tables /\ TypedIsMounted /\ ListReadsBack

\* Nothing has been typed or listed at first.
LEMMA MoonStart == MoonInit => MoonInv
  BY DEF MoonInit, MoonInv, TypedIsMounted, ListReadsBack

\* A command keeps it.
LEMMA MoonStep == MoonInv /\ [MoonNext]_moonvars => MoonInv'
<1> SUFFICES ASSUME MoonInv, [MoonNext]_moonvars PROVE MoonInv'
  OBVIOUS
<1>1. ASSUME NEW text \in BoundedSeq(MoonKeys, MaxTyped), moon_index(text) PROVE MoonInv'
  <2>1. text \in Seq(MoonKeys)
    <3>1. MaxTyped \in Nat
      BY MoonAssumption
    <3>2. PICK n \in 0 .. MaxTyped : text \in [1 .. n -> MoonKeys]
      BY DEF BoundedSeq, SeqOf
    <3>3. n \in Nat
      BY <3>1
    <3> QED BY <3>2, <3>3
  <2>2. table' = table /\ reply'.cmd = "mount"
    BY <1>1 DEF moon_index, MountsAs
  <2>3. TypedIsMounted'
    BY <1>1, <2>1, IndexTyped
  <2>4. ListReadsBack'
    BY <2>2 DEF ListReadsBack
  <2> QED BY <2>2, <2>3, <2>4 DEF MoonInv
<1>2. CASE moon_unmount
  <2>1. table' = table /\ reply'.cmd = "mount" /\ reply'.text = <<Letter>>
    BY <1>2 DEF moon_unmount, MountsAs
  <2>2. ~IsNumber(<<Letter>>)
    <3>1. 1 \in DOMAIN <<Letter>> /\ <<Letter>>[1] = Letter /\ Letter \notin 0 .. 9
      BY DEF Letter
    <3> QED BY <3>1 DEF IsNumber
  <2>3. TypedIsMounted'
    BY <2>1, <2>2 DEF TypedIsMounted
  <2>4. ListReadsBack'
    BY <2>1 DEF ListReadsBack
  <2> QED BY <2>1, <2>3, <2>4 DEF MoonInv
<1>3. ASSUME NEW cap \in Caps, moon_list(cap) PROVE MoonInv'
  <2>1. cap \in Nat
    BY MoonAssumption
  <2>2. table' = table /\ reply'.cmd = "list"
    BY <1>3 DEF moon_list
  <2>3. TypedIsMounted'
    BY <2>2 DEF TypedIsMounted
  <2>4. ListReadsBack'
    BY <1>3, <2>1, ListShown DEF MoonInv
  <2> QED BY <2>2, <2>3, <2>4 DEF MoonInv
<1>4. CASE UNCHANGED moonvars
  <2>1. table' = table /\ mounted_idx' = mounted_idx /\ reply' = reply
    BY <1>4 DEF moonvars
  <2> QED BY <2>1 DEF MoonInv, TypedIsMounted, ListReadsBack, SYS_MOUNT, fs_mount_part, part_get
<1> QED BY <1>1, <1>2, <1>3, <1>4 DEF MoonNext
-----------------------------------------------------------------------------
(* The calculator.                                                         *)

\* The constants of the calculator.
LEMMA CalcFacts ==
  /\ Half \in Nat /\ Half > 0 /\ CalcMax \in Nat /\ Digits \in Seq(STRING)
  /\ Radix \in Nat /\ Radix > 1 /\ Radix = Len(Digits)
  /\ \A m, n \in 1 .. Radix : Digits[m] = Digits[n] => m = n
  /\ Range(Digits) = {Digits[n] : n \in 1 .. Radix}
BY CalcAssumption DEF Radix, Range

\* A digit is no other character.
LEMMA DigitApart ==
  ASSUME NEW d \in Range(Digits)
  PROVE  d # "+" /\ d # "-" /\ d # "*" /\ d # "/" /\ d # "%" /\ d # "(" /\ d # ")" /\ d # Gap
BY CalcAssumption DEF Operators

\* A digit has one value.
LEMMA DigitIs ==
  /\ \A d \in Range(Digits) : DigitValue(d) \in 0 .. Radix - 1
  /\ \A n \in 0 .. Radix - 1 : Digits[n + 1] \in Range(Digits) /\ DigitValue(Digits[n + 1]) = n
<1>1. ASSUME NEW n \in 1 .. Radix PROVE DigitValue(Digits[n]) = n - 1
  <2> DEFINE Q(k) == Digits[k] = Digits[n]
  <2>1. PICK m : m = CHOOSE k \in 1 .. Radix : Q(k)
    OBVIOUS
  <2>2. m \in 1 .. Radix /\ Q(m)
    <3>1. Q(n)
      OBVIOUS
    <3> HIDE DEF Q
    <3> QED BY <2>1, <3>1
  <2>3. m = n
    BY <2>2, CalcFacts
  <2> QED BY <2>1, <2>3 DEF DigitValue
<1>2. ASSUME NEW d \in Range(Digits) PROVE DigitValue(d) \in 0 .. Radix - 1
  <2>1. PICK n \in 1 .. Radix : d = Digits[n]
    BY CalcFacts
  <2>2. n - 1 \in 0 .. Radix - 1
    BY CalcFacts
  <2> QED BY <1>1, <2>1, <2>2
<1>3. ASSUME NEW n \in 0 .. Radix - 1 PROVE Digits[n + 1] \in Range(Digits) /\ DigitValue(Digits[n + 1]) = n
  <2>1. n + 1 \in 1 .. Radix /\ (n + 1) - 1 = n
    BY CalcFacts
  <2> QED BY <1>1, <2>1, CalcFacts
<1> QED BY <1>2, <1>3

\* The arithmetic of the processor gives longs, the right ones when they
\* exist, and leaves the smallest long where it is when it is negated.
LEMMA WrapIs ==
  ASSUME NEW v \in Int
  PROVE  Wrap(v) \in Longs /\ (v \in Longs => Wrap(v) = v) /\ (v = Half => Wrap(v) = -Half)
<1>1. PICK w \in Nat : w = 2 * Half
  BY CalcFacts
<1>2. PICK x \in Int : x = v + Half
  BY CalcFacts
<1>3. Half \in Nat /\ w > 0 /\ x % w \in 0 .. w - 1
  BY <1>1, CalcFacts
<1>4. (0 <= x /\ x < w => x % w = x) /\ (x = w => x % w = 0)
  BY <1>3
<1>5. Wrap(v) = (x % w) - Half
  BY <1>1, <1>2 DEF Wrap
<1>6. PICK y \in 0 .. w - 1 : y = x % w
  BY <1>3
<1>7. Wrap(v) = y - Half
  BY <1>5, <1>6
<1>8. y - Half \in -Half .. Half - 1
  BY <1>1, <1>3
<1>9. v \in -Half .. Half - 1 => y = v + Half
  BY <1>1, <1>2, <1>3, <1>4, <1>6
<1>10. v = Half => y = 0
  BY <1>1, <1>2, <1>3, <1>4, <1>6
<1> QED BY <1>3, <1>7, <1>8, <1>9, <1>10 DEF Longs

\* A quotient is a long, except the one that raises the divide exception, and
\* a remainder is one.
LEMMA QuotientIs ==
  ASSUME NEW v \in Longs, NEW r \in Longs, r # 0
  PROVE  /\ Quotient(v, r) \in Int /\ Remainder(v, r) \in Int
         /\ (v = -Half /\ r = -1) => Quotient(v, r) = Half
         /\ ~(v = -Half /\ r = -1) => Quotient(v, r) \in Longs /\ Remainder(v, r) \in Longs
<1>1. Half \in Nat /\ Half > 0 /\ v \in Int /\ r \in Int /\ -Half <= v /\ v < Half /\ -Half <= r /\ r < Half
  BY CalcFacts DEF Longs
<1>2. PICK a \in Nat : a = Abs(v)
  BY <1>1 DEF Abs
<1>3. PICK b \in Nat : b = Abs(r)
  BY <1>1 DEF Abs
<1>4. b > 0 /\ a <= Half /\ b <= Half /\ (a = Half => v = -Half) /\ (b = 1 => r = 1 \/ r = -1)
  BY <1>1, <1>2, <1>3 DEF Abs
<1>45. (r + 1 = 0 => b = 1) /\ (v + Half = 0 => a = Half)
  BY <1>1, <1>2, <1>3 DEF Abs
<1>5. PICK q \in Nat : q = a \div b
  <2>1. a \div b \in Nat
    BY <1>4
  <2> QED BY <2>1
<1>6. PICK m \in 0 .. b - 1 : a = b * q + m
  <2>1. a % b \in 0 .. b - 1
    BY <1>4
  <2>2. a = b * (a \div b) + (a % b)
    BY <1>4
  <2> QED BY <1>5, <2>1, <2>2
<1>7. b * q \in Nat /\ q <= b * q
  BY <1>4
<1>8. q <= a /\ (b = 1 => q = a) /\ (b # 1 => 2 * q <= a)
  <2>1. b # 1 => 2 * q <= b * q
    BY <1>4
  <2> QED BY <1>4, <1>6, <1>7, <2>1
<1>9. Quotient(v, r) = IF (v < 0) = (r < 0) THEN q ELSE -q
  BY <1>2, <1>3, <1>5 DEF Quotient
<1>10. Quotient(v, r) \in Int
  BY <1>9
<1>11. (v = -Half /\ r = -1) => Quotient(v, r) = Half
  <2> SUFFICES ASSUME v = -Half, r = -1 PROVE Quotient(v, r) = Half
    OBVIOUS
  <2>1. v < 0 /\ r < 0
    BY <1>1
  <2>2. a = Half /\ b = 1
    BY <1>1, <1>45
  <2> QED BY <1>8, <1>9, <2>1, <2>2
<1>12. ASSUME ~(v = -Half /\ r = -1) PROVE -Half <= Quotient(v, r) /\ Quotient(v, r) < Half
  <2>1. CASE q < Half
    BY <1>1, <1>9, <2>1
  <2>2. CASE q >= Half
    <3>1. q = Half /\ a = Half /\ b = 1
      BY <1>1, <1>4, <1>8, <2>2
    <3>2. v = -Half /\ r = 1
      BY <1>4, <1>12, <3>1
    <3>3. Quotient(v, r) = -q
      BY <1>1, <1>9, <3>2
    <3> QED BY <1>1, <3>1, <3>3
  <2> QED BY <1>1, <2>1, <2>2
<1>13. Remainder(v, r) = IF v < 0 THEN -m ELSE m
  <2>1. PICK x \in Int : x = Quotient(v, r)
    BY <1>10
  <2>2. Remainder(v, r) = v - (r * x)
    BY <2>1 DEF Remainder
  <2>3. (v < 0 => v = -a) /\ (~(v < 0) => v = a) /\ (r < 0 => r = -b) /\ (~(r < 0) => r = b)
    BY <1>1, <1>2, <1>3 DEF Abs
  <2>4. (b * q = (-b) * (-q)) /\ (-(b * q) = (-b) * q) /\ (-(b * q) = b * (-q))
    OBVIOUS
  <2>5. r * x = IF v < 0 THEN -(b * q) ELSE b * q
    <3>1. CASE v < 0 /\ r < 0
      <4>1. x = q /\ r = -b
        BY <1>9, <2>1, <2>3, <3>1
      <4> QED BY <2>4, <3>1, <4>1
    <3>2. CASE v < 0 /\ ~(r < 0)
      <4>1. x = -q /\ r = b
        BY <1>9, <2>1, <2>3, <3>2
      <4> QED BY <2>4, <3>2, <4>1
    <3>3. CASE ~(v < 0) /\ r < 0
      <4>1. x = -q /\ r = -b
        BY <1>9, <2>1, <2>3, <3>3
      <4> QED BY <2>4, <3>3, <4>1
    <3>4. CASE ~(v < 0) /\ ~(r < 0)
      <4>1. x = q /\ r = b
        BY <1>9, <2>1, <2>3, <3>4
      <4> QED BY <2>4, <3>4, <4>1
    <3> QED BY <3>1, <3>2, <3>3, <3>4
  <2>6. PICK z \in Nat : z = b * q
    BY <1>7
  <2>7. a = z + m
    BY <1>6, <2>6
  <2>8. Remainder(v, r) = v - (IF v < 0 THEN -z ELSE z)
    BY <2>2, <2>5, <2>6
  <2> QED BY <1>1, <2>3, <2>7, <2>8
<1>14. Remainder(v, r) \in Int /\ -Half <= Remainder(v, r) /\ Remainder(v, r) < Half
  BY <1>1, <1>4, <1>13
<1> QED BY <1>1, <1>10, <1>11, <1>12, <1>14 DEF Longs

\* The loops that pass over gaps and over digits end.
LEMMA BehindIs ==
  ASSUME NEW text, Len(text) \in Nat, NEW i \in 0 .. Len(text), NEW S
  PROVE  /\ Behind(text, i, S) \in i .. Len(text) /\ ~IsA(text, Behind(text, i, S), S)
         /\ \A k \in i + 1 .. Behind(text, i, S) : text[k] \in S
<1>0. PICK n \in Nat : n = Len(text)
  OBVIOUS
<1>1. i \in Nat /\ i <= n
  BY <1>0
<1> DEFINE Q(j) == ~IsA(text, j, S) /\ \A k \in i + 1 .. j : text[k] \in S
           T == {k \in Nat : i + k <= n /\ (\A m \in i + 1 .. i + k : text[m] \in S) => \E j \in i .. n : Q(j)}
<1>2. ASSUME NEW k \in Nat, i + k <= n, \A m \in i + 1 .. i + k : text[m] \in S, ~IsA(text, i + k, S)
      PROVE  \E j \in i .. n : Q(j)
  <2>1. i + k \in i .. n
    BY <1>0, <1>1, <1>2
  <2> QED BY <1>2, <2>1
<1> DEFINE U == {k \in Nat : k <= n - i => (n - i) - k \in T}
<1>3. 0 \in U
  <2>1. PICK k \in Nat : k = n - i
    BY <1>1
  <2>2. i + k = n /\ (n - i) - 0 = k
    BY <1>1, <2>1
  <2> SUFFICES ASSUME \A m \in i + 1 .. i + k : text[m] \in S PROVE \E j \in i .. n : Q(j)
    BY <2>2
  <2>3. ~IsA(text, i + k, S)
    BY <1>0, <2>2 DEF IsA
  <2> QED BY <1>2, <1>0, <2>1, <2>2, <2>3
<1>4. ASSUME NEW k \in Nat, k \in U PROVE k + 1 \in U
  <2> SUFFICES ASSUME k + 1 <= n - i PROVE (n - i) - (k + 1) \in T
    OBVIOUS
  <2>1. PICK d \in Nat : d = (n - i) - (k + 1)
    BY <1>1
  <2> SUFFICES ASSUME \A m \in i + 1 .. i + d : text[m] \in S PROVE \E j \in i .. n : Q(j)
    BY <2>1
  <2>2. i + d < n /\ (n - i) - k = d + 1 /\ k <= n - i /\ i + (d + 1) = (i + d) + 1 /\ i + (d + 1) <= n
    BY <1>0, <1>1, <2>1
  <2>3. CASE IsA(text, i + d, S)
    <3>1. text[(i + d) + 1] \in S
      BY <2>3 DEF IsA
    <3>2. ASSUME NEW m \in i + 1 .. i + (d + 1) PROVE text[m] \in S
      <4>1. m \in i + 1 .. i + d \/ m = (i + d) + 1
        BY <1>1
      <4> QED BY <2>1, <3>1, <4>1
    <3>3. d + 1 \in T
      BY <1>4, <2>2
    <3> QED BY <2>2, <3>2, <3>3
  <2>4. CASE ~IsA(text, i + d, S)
    BY <1>2, <2>1, <2>2, <2>4
  <2> QED BY <2>3, <2>4
<1>5. Nat \subseteq U
  <2> HIDE DEF U
  <2> QED BY <1>3, <1>4, InductionOnSet
<1>6. 0 \in T
  <2>1. n - i \in Nat /\ (n - i) - (n - i) = 0 /\ n - i <= n - i
    BY <1>0, <1>1
  <2>2. n - i \in U
    BY <1>5, <2>1
  <2> HIDE DEF T
  <2> QED BY <2>1, <2>2
<1>7. \E j \in i .. n : Q(j)
  <2>1. \A m \in i + 1 .. i + 0 : text[m] \in S
    BY <1>1
  <2> QED BY <1>0, <1>1, <1>6, <2>1
<1>8. PICK j : j = CHOOSE x \in i .. n : Q(x)
  OBVIOUS
<1>9. j \in i .. n /\ Q(j)
  <2> HIDE DEF Q
  <2> QED BY <1>7, <1>8
<1>10. Behind(text, i, S) = j
  BY <1>0, <1>8 DEF Behind
<1> QED BY <1>0, <1>9, <1>10

\* They end in one place.
LEMMA BehindOne ==
  ASSUME NEW text, Len(text) \in Nat, NEW i \in 0 .. Len(text), NEW S, NEW j \in i .. Len(text),
         ~IsA(text, j, S), \A k \in i + 1 .. j : text[k] \in S
  PROVE  Behind(text, i, S) = j
<1>1. PICK n \in Nat : n = Len(text)
  OBVIOUS
<1>2. PICK b : b = Behind(text, i, S)
  OBVIOUS
<1>3. b \in i .. n /\ ~IsA(text, b, S) /\ \A k \in i + 1 .. b : text[k] \in S
  BY <1>1, <1>2, BehindIs
<1>4. ~(b < j)
  <2> SUFFICES ASSUME b < j PROVE FALSE
    OBVIOUS
  <2>1. b + 1 \in i + 1 .. j /\ b < n
    BY <1>1, <1>3
  <2> QED BY <1>1, <1>3, <2>1 DEF IsA
<1>5. ~(j < b)
  <2> SUFFICES ASSUME j < b PROVE FALSE
    OBVIOUS
  <2>1. j + 1 \in i + 1 .. b /\ j < n
    BY <1>1, <1>3
  <2> QED BY <1>1, <1>3, <2>1 DEF IsA
<1> QED BY <1>1, <1>2, <1>3, <1>4, <1>5

\* Nothing to pass over, something to pass over, and all passed already.
LEMMA BehindSteps ==
  ASSUME NEW text, Len(text) \in Nat, NEW i \in 0 .. Len(text), NEW S
  PROVE  /\ ~IsA(text, i, S) => Behind(text, i, S) = i
         /\ IsA(text, i, S) => Behind(text, i, S) = Behind(text, i + 1, S)
         /\ Behind(text, Behind(text, i, S), S) = Behind(text, i, S)
<1>1. PICK n \in Nat : n = Len(text)
  OBVIOUS
<1>2. i \in Nat /\ i <= n
  BY <1>1
<1>3. ASSUME NEW m \in 0 .. n, ~IsA(text, m, S) PROVE Behind(text, m, S) = m
  <2>1. m \in m .. n /\ \A k \in m + 1 .. m : text[k] \in S
    OBVIOUS
  <2> QED BY <1>1, <1>3, <2>1, BehindOne
<1>4. PICK b : b = Behind(text, i, S)
  OBVIOUS
<1>5. b \in i .. n /\ ~IsA(text, b, S) /\ \A k \in i + 1 .. b : text[k] \in S
  BY <1>1, <1>4, BehindIs
<1>6. Behind(text, b, S) = b
  <2>1. b \in 0 .. n
    BY <1>1, <1>2, <1>5
  <2> QED BY <1>3, <1>5, <2>1
<1>7. ASSUME IsA(text, i, S) PROVE Behind(text, i + 1, S) = b
  <2>1. b # i
    BY <1>5, <1>7
  <2>2. i + 1 \in 0 .. n /\ b \in i + 1 .. n
    BY <1>1, <1>2, <1>5, <2>1
  <2>3. \A k \in (i + 1) + 1 .. b : text[k] \in S
    BY <1>2, <1>5
  <2> QED BY <1>1, <1>5, <2>2, <2>3, BehindOne
<1>8. ~IsA(text, i, S) => Behind(text, i, S) = i
  BY <1>1, <1>2, <1>3
<1> QED BY <1>4, <1>6, <1>7, <1>8

\* What skip does to the state of the parser.
LEMMA SkipIs ==
  ASSUME NEW text \in Seq(CalcChars), NEW s \in States(text)
  PROVE  /\ skip(text, s) \in States(text) /\ skip(text, s).at \in s.at .. Len(text)
         /\ skip(text, s).at = Behind(text, s.at, {Gap})
         /\ skip(text, s).v = s.v /\ skip(text, s).ok = s.ok /\ skip(text, s).trap = s.trap
         /\ ~IsA(text, skip(text, s).at, {Gap})
         /\ skip(text, skip(text, s)) = skip(text, s)
         /\ ~IsA(text, s.at, {Gap}) => skip(text, s) = s
<1>1. Len(text) \in Nat /\ s.at \in 0 .. Len(text)
  BY DEF States
<1>2. PICK b : b = Behind(text, s.at, {Gap})
  OBVIOUS
<1>3. b \in s.at .. Len(text) /\ ~IsA(text, b, {Gap}) /\ Behind(text, b, {Gap}) = b
  BY <1>1, <1>2, BehindIs, BehindSteps
<1>4. skip(text, s) = [s EXCEPT !.at = b]
  BY <1>2 DEF skip
<1>5. b \in 0 .. Len(text)
  BY <1>1, <1>3
<1>6. skip(text, s) \in States(text) /\ skip(text, s).at = b /\ skip(text, s).v = s.v
        /\ skip(text, s).ok = s.ok /\ skip(text, s).trap = s.trap
  BY <1>4, <1>5 DEF States
<1>7. skip(text, skip(text, s)) = [skip(text, s) EXCEPT !.at = b]
  BY <1>3, <1>6 DEF skip
<1>8. skip(text, skip(text, s)) = skip(text, s)
  BY <1>6, <1>7 DEF States
<1>9. ~IsA(text, s.at, {Gap}) => skip(text, s) = s
  <2>1. ~IsA(text, s.at, {Gap}) => b = s.at
    BY <1>1, <1>2, BehindSteps
  <2> QED BY <1>4, <2>1 DEF States
<1> QED BY <1>2, <1>3, <1>6, <1>8, <1>9

\* One character more, and the error flag.
LEMMA ConsumedIs ==
  ASSUME NEW text \in Seq(CalcChars), NEW s \in States(text)
  PROVE  /\ s.at < Len(text) => Consumed(s) \in States(text)
         /\ Consumed(s).at = s.at + 1 /\ Consumed(s).v = s.v /\ Consumed(s).ok = s.ok /\ Consumed(s).trap = s.trap
         /\ Failed(s) \in States(text)
         /\ Failed(s).at = s.at /\ Failed(s).v = s.v /\ ~Failed(s).ok /\ Failed(s).trap = s.trap
<1>1. Len(text) \in Nat
  OBVIOUS
<1>2. s.at < Len(text) => Consumed(s) \in States(text)
  BY <1>1 DEF States, Consumed
<1>3. Consumed(s).at = s.at + 1 /\ Consumed(s).v = s.v /\ Consumed(s).ok = s.ok /\ Consumed(s).trap = s.trap
  BY DEF States, Consumed
<1>4. Failed(s) \in States(text)
  BY DEF States, Failed
<1>5. Failed(s).at = s.at /\ Failed(s).v = s.v /\ ~Failed(s).ok /\ Failed(s).trap = s.trap
  BY DEF States, Failed
<1> QED BY <1>2, <1>3, <1>4, <1>5

\* The run of parse_num over the digits from i on.
DigitRun(f, text, i, n) ==
  /\ f \in [0 .. n -> Longs] /\ f[0] = 0
  /\ \A k \in 1 .. n : f[k] = Wrap(f[k - 1] * Radix + DigitValue(text[i + k]))

\* parse_num returns the end of such a run.
LEMMA NumIs ==
  ASSUME NEW text \in Seq(CalcChars), NEW s \in States(text)
  PROVE  \E i, b, f :
           /\ i = Behind(text, s.at, {Gap}) /\ b = Behind(text, i, Range(Digits)) /\ DigitRun(f, text, i, b - i)
           /\ parse_num(text, s) = [at |-> b, v |-> f[b - i], ok |-> (s.ok /\ b > i), trap |-> s.trap]
<1>01. PICK i : i = Behind(text, s.at, {Gap})
  OBVIOUS
<1>02. PICK b : b = Behind(text, i, Range(Digits))
  OBVIOUS
<1>1. i \in 0 .. Len(text) /\ skip(text, s).at = i /\ Len(text) \in Nat
  <2>1. skip(text, s) \in States(text) /\ skip(text, s).at = i
    <3>1. skip(text, s) \in States(text)
      BY SkipIs
    <3>2. skip(text, s).at = Behind(text, s.at, {Gap})
      BY DEF skip, States
    <3> QED BY <1>01, <3>1, <3>2
  <2> QED BY <2>1 DEF States
<1>2. PICK n : n = b - i
  OBVIOUS
<1>21. PICK a : a = 0
  OBVIOUS
<1>22. b \in i .. Len(text) /\ \A k \in i + 1 .. b : text[k] \in Range(Digits)
  BY <1>02, <1>1, BehindIs
<1>3. n \in Nat /\ \A k \in 1 .. n : text[i + k] \in Range(Digits)
  <2>2. i \in Nat /\ b \in Nat /\ i <= b
    BY <1>1, <1>22
  <2>1. n \in Nat /\ \A k \in 1 .. n : i + k \in i + 1 .. b
    BY <1>2, <2>2
  <2> QED BY <1>22, <2>1
<1>4. a = 0
  BY <1>21
<1>5. a \in Longs
  BY <1>21, CalcFacts DEF Longs
<1>55. ASSUME NEW k \in 1 .. n, NEW x \in Longs PROVE Wrap(x * Radix + DigitValue(text[i + k])) \in Longs
  <2>1. PICK d \in 0 .. Radix - 1 : d = DigitValue(text[i + k])
    BY <1>3, DigitIs
  <2>2. PICK y \in Int : y = x * Radix + d
    BY CalcFacts DEF Longs
  <2> QED BY <2>1, <2>2, WrapIs
<1> DEFINE h == [q \in (1 .. n) \X Longs |-> Wrap(q[2] * Radix + DigitValue(text[i + q[1]]))]
<1>6. h \in [(1 .. n) \X Longs -> Longs]
  BY <1>55
<1>7. PICK e : e = h
  OBVIOUS
<1>8. e \in [(1 .. n) \X Longs -> Longs]
  BY <1>6, <1>7
<1>9. ASSUME NEW k \in 1 .. n, NEW x \in Longs PROVE e[<<k, x>>] = Wrap(x * Radix + DigitValue(text[i + k]))
  BY <1>7
<1> HIDE DEF h
<1>10. PICK f : Solves(f, n, Longs, a, e)
  BY <1>3, <1>5, <1>8, RecursionExists
<1> DEFINE P(g) == g = [k \in 0 .. n |-> IF k = 0 THEN 0 ELSE Wrap(g[k - 1] * Radix + DigitValue(text[i + k]))]
<1>11. P(f)
  <2>1. f \in [0 .. n -> Longs] /\ f[0] = a /\ \A k \in 1 .. n : f[k] = e[<<k, f[k - 1]>>]
    BY <1>10 DEF Solves
  <2>2. ASSUME NEW k \in 1 .. n PROVE f[k] = Wrap(f[k - 1] * Radix + DigitValue(text[i + k]))
    <3>1. f[k - 1] \in Longs
      BY <1>3, <2>1
    <3> QED BY <1>9, <2>1, <3>1
  <2>3. ASSUME NEW k \in 0 .. n PROVE f[k] = IF k = 0 THEN 0 ELSE Wrap(f[k - 1] * Radix + DigitValue(text[i + k]))
    <3>1. CASE k = 0
      BY <1>4, <2>1, <3>1
    <3>2. CASE k # 0
      <4>1. k \in 1 .. n
        BY <1>3, <3>2
      <4> QED BY <2>2, <3>2, <4>1
    <3> QED BY <3>1, <3>2
  <2>4. f = [k \in 0 .. n |-> f[k]]
    BY <2>1
  <2> QED BY <2>3, <2>4
<1>12. PICK g : g = CHOOSE x : P(x)
  OBVIOUS
<1>13. P(g)
  <2> HIDE DEF P
  <2> QED BY <1>11, <1>12
<1>14. parse_num(text, s) = [at |-> b, v |-> g[n], ok |-> (s.ok /\ b > i), trap |-> s.trap]
  <2>1. PICK t : t = skip(text, s)
    OBVIOUS
  <2>2. i = t.at
    BY <1>1, <2>1
  <2>3. t \in States(text) /\ t.ok = s.ok /\ t.trap = s.trap
    BY <2>1, SkipIs
  <2>4. PICK o \in BOOLEAN : o = (s.ok /\ b > i)
    OBVIOUS
  <2>5. parse_num(text, s) = [at |-> b, v |-> g[n], ok |-> (t.ok /\ b > i), trap |-> t.trap]
    BY <1>02, <1>2, <1>12, <2>1, <2>2 DEF parse_num
  <2>8. parse_num(text, s) = [at |-> b, v |-> g[n], ok |-> o, trap |-> s.trap]
    BY <2>3, <2>4, <2>5
  <2> QED BY <2>4, <2>8
<1>15. g[0] = a
  <2>1. 0 \in 0 .. n
    BY <1>3
  <2> QED BY <1>4, <1>13, <2>1
<1>16. ASSUME NEW k \in 1 .. n PROVE g[k] = Wrap(g[k - 1] * Radix + DigitValue(text[i + k]))
  <2>1. k \in 0 .. n /\ k # 0
    BY <1>3
  <2> QED BY <1>13, <2>1
<1>17. g = [k \in 0 .. n |-> g[k]]
  BY <1>13
<1>18. Solves(g, n, Longs, a, e)
  <2>1. \A k \in 1 .. n : g[k - 1] \in Longs => g[k] = e[<<k, g[k - 1]>>]
    BY <1>9, <1>16
  <2> QED BY <1>3, <1>5, <1>8, <1>15, <1>17, <2>1, RecursionSolved
<1>19. g \in [0 .. n -> Longs]
  BY <1>18 DEF Solves
<1>20. DigitRun(g, text, i, b - i)
  BY <1>2, <1>4, <1>15, <1>16, <1>19 DEF DigitRun
<1> QED BY <1>01, <1>02, <1>2, <1>14, <1>20

\* parse_num keeps its state in the text and the flags.
LEMMA NumState ==
  ASSUME NEW text \in Seq(CalcChars), NEW s \in States(text)
  PROVE  /\ parse_num(text, s) \in States(text) /\ parse_num(text, s).at >= s.at
         /\ parse_num(text, s).trap = s.trap /\ (parse_num(text, s).ok => s.ok)
<1>1. PICK i, b, f :
           /\ i = Behind(text, s.at, {Gap}) /\ b = Behind(text, i, Range(Digits)) /\ DigitRun(f, text, i, b - i)
           /\ parse_num(text, s) = [at |-> b, v |-> f[b - i], ok |-> (s.ok /\ b > i), trap |-> s.trap]
  BY NumIs
<1>4. s.at \in 0 .. Len(text) /\ Len(text) \in Nat
  BY DEF States
<1>5. i \in s.at .. Len(text)
  BY <1>1, <1>4, BehindIs
<1>6. i \in 0 .. Len(text)
  BY <1>4, <1>5
<1>7. b \in i .. Len(text)
  BY <1>1, <1>4, <1>6, BehindIs
<1>8. b \in 0 .. Len(text) /\ b >= s.at /\ b - i \in 0 .. b - i
  BY <1>4, <1>5, <1>7
<1>9. f[b - i] \in Longs
  BY <1>1, <1>8 DEF DigitRun
<1>10. s.ok \in BOOLEAN /\ s.trap \in BOOLEAN
  BY DEF States
<1> QED BY <1>1, <1>8, <1>9, <1>10 DEF States

\* What * / and % do to the state.
LEMMA MultipliedIs ==
  ASSUME NEW text \in Seq(CalcChars), NEW r \in States(text), NEW op, NEW v \in Longs, NEW w \in Longs
  PROVE  /\ Multiplied(r, op, v, w) \in States(text) /\ Multiplied(r, op, v, w).at = r.at
         /\ op = "*" => Multiplied(r, op, v, w) = [r EXCEPT !.v = Wrap(v * w)]
         /\ op # "*" /\ w = 0 => ~Multiplied(r, op, v, w).ok /\ Multiplied(r, op, v, w).trap = r.trap
         /\ op # "*" /\ w # 0 /\ ~(v = -Half /\ w = -1) =>
              Multiplied(r, op, v, w) = [r EXCEPT !.v = IF op = "/" THEN Quotient(v, w) ELSE Remainder(v, w)]
         /\ op # "*" /\ w # 0 /\ v = -Half /\ w = -1 => Multiplied(r, op, v, w) = [r EXCEPT !.trap = TRUE]
<1>1. CASE op = "*"
  <2>1. PICK x \in Longs : x = Wrap(v * w)
    <3>1. PICK y \in Int : y = v * w
      BY CalcFacts DEF Longs
    <3> QED BY <3>1, WrapIs
  <2>2. Multiplied(r, op, v, w) = [r EXCEPT !.v = x]
    BY <1>1, <2>1 DEF Multiplied
  <2> QED BY <1>1, <2>1, <2>2 DEF States
<1>2. CASE op # "*" /\ w = 0
  <2>1. Multiplied(r, op, v, w) = [Failed(r) EXCEPT !.v = v]
    BY <1>2 DEF Multiplied
  <2>2. Failed(r) = [r EXCEPT !.ok = FALSE]
    BY DEF Failed
  <2> QED BY <1>2, <2>1, <2>2 DEF States
<1>3. CASE op # "*" /\ w # 0 /\ ~(v = -Half /\ w = -1)
  <2>1. PICK x \in Longs : x = IF op = "/" THEN Quotient(v, w) ELSE Remainder(v, w)
    <3>1. Quotient(v, w) \in Longs /\ Remainder(v, w) \in Longs
      BY <1>3, QuotientIs
    <3> QED BY <3>1
  <2>2. Multiplied(r, op, v, w) = [r EXCEPT !.v = x]
    BY <1>3, <2>1 DEF Multiplied, Divided
  <2> QED BY <1>3, <2>1, <2>2 DEF States
<1>4. CASE op # "*" /\ w # 0 /\ (v = -Half /\ w = -1)
  <2>1. Multiplied(r, op, v, w) = Divided(r, op, v, w)
    BY <1>4 DEF Multiplied
  <2>2. Divided(r, op, v, w) = [r EXCEPT !.trap = TRUE]
    BY <1>4 DEF Divided
  <2> QED BY <1>4, <2>1, <2>2 DEF States
<1> QED BY <1>1, <1>2, <1>3, <1>4

\* Functions that go on in the text.
Onward(text) == {f \in [States(text) -> States(text)] : \A s \in States(text) : f[s].at >= s.at}

Calls(text, P) ==
  /\ P.factor \in Onward(text) /\ P.term \in Onward(text) /\ P.term_rest \in Onward(text)
  /\ P.expr \in Onward(text) /\ P.expr_rest \in Onward(text)

\* Two tables of functions that agree behind i.
SameBehind(text, P, Q, i) ==
  \A s \in States(text) : s.at > i =>
    /\ P.factor[s] = Q.factor[s] /\ P.term[s] = Q.term[s] /\ P.term_rest[s] = Q.term_rest[s]
    /\ P.expr[s] = Q.expr[s] /\ P.expr_rest[s] = Q.expr_rest[s]

\* What such a function returns.
LEMMA OnwardIs ==
  ASSUME NEW text, NEW f \in Onward(text), NEW s \in States(text)
  PROVE  f[s] \in States(text) /\ f[s].at >= s.at
BY DEF Onward

\* A character that is read, behind the gaps.
LEMMA AtIs ==
  ASSUME NEW text \in Seq(CalcChars), NEW s \in States(text), NEW S, IsA(text, skip(text, s).at, S)
  PROVE  /\ Consumed(skip(text, s)) \in States(text) /\ Consumed(skip(text, s)).at > s.at
         /\ Consumed(skip(text, s)).at = skip(text, s).at + 1
         /\ Consumed(skip(text, s)).v = s.v /\ Consumed(skip(text, s)).ok = s.ok
         /\ Consumed(skip(text, s)).trap = s.trap
<1>1. PICK t \in States(text) : t = skip(text, s)
  BY SkipIs
<1>2. t.at \in s.at .. Len(text) /\ t.v = s.v /\ t.ok = s.ok /\ t.trap = s.trap
  BY <1>1, SkipIs
<1>3. t.at < Len(text)
  BY <1>1 DEF IsA
<1>4. Consumed(t) \in States(text) /\ Consumed(t).at = t.at + 1 /\ Consumed(t).v = t.v
        /\ Consumed(t).ok = t.ok /\ Consumed(t).trap = t.trap
  BY <1>3, ConsumedIs
<1>5. s.at \in Nat /\ t.at \in Nat /\ t.at >= s.at
  BY <1>2 DEF States
<1>6. Consumed(t).at > s.at
  BY <1>4, <1>5
<1> QED BY <1>1, <1>2, <1>4, <1>6

\* parse_factor goes on in the text, and depends only on the calls behind.
LEMMA FactorGoes ==
  ASSUME NEW text \in Seq(CalcChars), NEW P, Calls(text, P), NEW s \in States(text)
  PROVE  /\ parse_factor(text, P, s) \in States(text) /\ parse_factor(text, P, s).at >= s.at
         /\ \A Q : SameBehind(text, P, Q, s.at) => parse_factor(text, Q, s) = parse_factor(text, P, s)
<1>1. PICK t \in States(text) : t = skip(text, s)
  BY SkipIs
<1>2. t.at \in s.at .. Len(text) /\ t.v = s.v /\ t.ok = s.ok /\ t.trap = s.trap
  BY <1>1, SkipIs
<1>3. s.at \in Nat /\ t.at \in Nat /\ t.at >= s.at
  BY <1>2 DEF States
<1>4. CASE t.trap
  <2>1. \A Q : parse_factor(text, Q, s) = t
    BY <1>1, <1>4 DEF parse_factor
  <2> QED BY <1>3, <2>1
<1>5. CASE ~t.trap /\ IsA(text, t.at, {"("})
  <2>1. PICK c : c = Consumed(t)
    OBVIOUS
  <2>2. c \in States(text) /\ c.at > s.at
    BY <1>1, <1>5, <2>1, AtIs
  <2>3. PICK e : e = skip(text, P.expr[c])
    OBVIOUS
  <2>4. P.expr[c] \in States(text) /\ P.expr[c].at >= c.at
    BY <2>2, OnwardIs DEF Calls
  <2>5. e \in States(text) /\ e.at \in P.expr[c].at .. Len(text)
    BY <2>3, <2>4, SkipIs
  <2>6. e.at \in Nat /\ e.at >= s.at
    <3>1. c.at \in Nat /\ P.expr[c].at \in Nat /\ e.at \in Nat
      BY <2>2, <2>4, <2>5 DEF States
    <3> QED BY <1>3, <2>2, <2>4, <2>5, <3>1
  <2>7. ASSUME NEW Q, Q.expr[c] = P.expr[c]
        PROVE  parse_factor(text, Q, s) = IF IsA(text, e.at, {")"}) THEN Consumed(e) ELSE Failed(e)
    <3>1. e = skip(text, Q.expr[Consumed(skip(text, s))])
      BY <1>1, <2>1, <2>3, <2>7
    <3>2. ~skip(text, s).trap /\ IsA(text, skip(text, s).at, {"("})
      BY <1>1, <1>5
    <3>3. ~IsA(text, skip(text, s).at, {"-"})
      BY <3>2 DEF IsA
    <3>4. parse_factor(text, Q, s) = LET f == skip(text, Q.expr[Consumed(skip(text, s))])
                                    IN  IF IsA(text, f.at, {")"}) THEN Consumed(f) ELSE Failed(f)
      BY <3>2, <3>3 DEF parse_factor
    <3> QED BY <3>1, <3>4, Zenon
  <2>8. parse_factor(text, P, s) = IF IsA(text, e.at, {")"}) THEN Consumed(e) ELSE Failed(e)
    BY <2>7
  <2>9. \A Q : SameBehind(text, P, Q, s.at) => Q.expr[c] = P.expr[c]
    BY <2>2 DEF SameBehind
  <2>10. \A Q : SameBehind(text, P, Q, s.at) => parse_factor(text, Q, s) = parse_factor(text, P, s)
    BY <2>7, <2>8, <2>9
  <2>11. CASE IsA(text, e.at, {")"})
    <3>1. e.at < Len(text)
      BY <2>11 DEF IsA
    <3>2. Consumed(e) \in States(text) /\ Consumed(e).at = e.at + 1
      BY <2>5, <3>1, ConsumedIs
    <3>3. Consumed(e).at >= s.at
      BY <1>3, <2>6, <3>2
    <3> QED BY <2>8, <2>10, <2>11, <3>2, <3>3
  <2>12. CASE ~IsA(text, e.at, {")"})
    <3>1. Failed(e) \in States(text) /\ Failed(e).at = e.at
      BY <2>5, ConsumedIs
    <3> QED BY <2>6, <2>8, <2>10, <2>12, <3>1
  <2> QED BY <2>11, <2>12
<1>6. CASE ~t.trap /\ IsA(text, t.at, {"-"})
  <2>1. PICK c : c = Consumed(t)
    OBVIOUS
  <2>2. c \in States(text) /\ c.at > s.at
    BY <1>1, <1>6, <2>1, AtIs
  <2>3. PICK f : f = P.factor[c]
    OBVIOUS
  <2>4. f \in States(text) /\ f.at >= c.at
    BY <2>2, <2>3, OnwardIs DEF Calls
  <2>5. ~IsA(text, t.at, {"("})
    BY <1>6 DEF IsA
  <2>6. ASSUME NEW Q, Q.factor[c] = P.factor[c]
        PROVE  parse_factor(text, Q, s) = [f EXCEPT !.v = Wrap(-@)]
    BY <1>1, <1>6, <2>1, <2>3, <2>5, <2>6 DEF parse_factor
  <2>7. PICK x \in Longs : x = Wrap(-f.v)
    <3>1. -f.v \in Int
      BY <2>4, CalcFacts DEF States, Longs
    <3> QED BY <3>1, WrapIs
  <2>8. parse_factor(text, P, s) = [f EXCEPT !.v = x]
    BY <2>6, <2>7
  <2>9. \A Q : SameBehind(text, P, Q, s.at) => Q.factor[c] = P.factor[c]
    BY <2>2 DEF SameBehind
  <2>10. \A Q : SameBehind(text, P, Q, s.at) => parse_factor(text, Q, s) = parse_factor(text, P, s)
    BY <2>6, <2>7, <2>8, <2>9
  <2>11. [f EXCEPT !.v = x] \in States(text) /\ [f EXCEPT !.v = x].at = f.at
    BY <2>4 DEF States
  <2>12. f.at >= s.at
    <3>1. c.at \in Nat /\ f.at \in Nat
      BY <2>2, <2>4 DEF States
    <3> QED BY <1>3, <2>2, <2>4, <3>1
  <2> QED BY <2>8, <2>10, <2>11, <2>12
<1>7. CASE ~t.trap /\ ~IsA(text, t.at, {"("}) /\ ~IsA(text, t.at, {"-"})
  <2>1. \A Q : parse_factor(text, Q, s) = parse_num(text, t)
    BY <1>1, <1>7 DEF parse_factor
  <2>2. parse_num(text, t) \in States(text) /\ parse_num(text, t).at >= t.at
    BY NumState
  <2>3. parse_num(text, t).at \in Nat
    BY <2>2 DEF States
  <2>4. parse_num(text, t).at >= s.at
    BY <1>3, <2>2, <2>3
  <2> QED BY <2>1, <2>2, <2>4
<1> QED BY <1>4, <1>5, <1>6, <1>7

\* The same for the loop of parse_term.
LEMMA TermRestGoes ==
  ASSUME NEW text \in Seq(CalcChars), NEW P, Calls(text, P), NEW s \in States(text)
  PROVE  /\ term_rest(text, P, s) \in States(text) /\ term_rest(text, P, s).at >= s.at
         /\ \A Q : SameBehind(text, P, Q, s.at) => term_rest(text, Q, s) = term_rest(text, P, s)
<1>1. PICK t \in States(text) : t = skip(text, s)
  BY SkipIs
<1>2. t.at \in s.at .. Len(text) /\ t.v = s.v /\ t.ok = s.ok /\ t.trap = s.trap
  BY <1>1, SkipIs
<1>3. s.at \in Nat /\ t.at \in Nat /\ t.at >= s.at /\ t.v \in Longs
  BY <1>2 DEF States
<1>4. CASE t.trap \/ ~IsA(text, t.at, {"*", "/", "%"})
  <2>1. \A Q : term_rest(text, Q, s) = t
    BY <1>1, <1>4 DEF term_rest
  <2> QED BY <1>3, <2>1
<1>5. CASE ~t.trap /\ IsA(text, t.at, {"*", "/", "%"})
  <2>1. PICK c : c = Consumed(t)
    OBVIOUS
  <2>2. c \in States(text) /\ c.at > s.at
    BY <1>1, <1>5, <2>1, AtIs
  <2>3. PICK r : r = P.factor[c]
    OBVIOUS
  <2>4. r \in States(text) /\ r.at >= c.at
    BY <2>2, <2>3, OnwardIs DEF Calls
  <2>5. r.at \in Nat /\ r.at > s.at /\ r.v \in Longs
    <3>1. c.at \in Nat /\ r.at \in Nat /\ r.v \in Longs
      BY <2>2, <2>4 DEF States
    <3> QED BY <1>3, <2>2, <2>4, <3>1
  <2>6. \A Q : SameBehind(text, P, Q, s.at) => Q.factor[c] = r
    BY <2>2, <2>3 DEF SameBehind
  <2>7. CASE r.trap \/ ~r.ok
    <3>1. ASSUME NEW Q, Q.factor[c] = r PROVE term_rest(text, Q, s) = [r EXCEPT !.v = 0]
      BY <1>1, <1>5, <2>1, <2>7, <3>1 DEF term_rest
    <3>2. [r EXCEPT !.v = 0] \in States(text) /\ [r EXCEPT !.v = 0].at = r.at
      <4>1. 0 \in Longs
        BY CalcFacts DEF Longs
      <4> QED BY <2>4, <4>1 DEF States
    <3>3. r.at >= s.at
      BY <1>3, <2>5
    <3>4. term_rest(text, P, s) = [r EXCEPT !.v = 0]
      BY <2>3, <3>1
    <3> QED BY <2>6, <3>1, <3>2, <3>3, <3>4
  <2>8. CASE ~(r.trap \/ ~r.ok)
    <3>1. PICK m : m = Multiplied(r, text[t.at + 1], t.v, r.v)
      OBVIOUS
    <3>2. m \in States(text) /\ m.at = r.at
      <4>1. PICK op : op = text[t.at + 1]
        OBVIOUS
      <4>2. PICK x \in Longs, y \in Longs : x = t.v /\ y = r.v
        BY <1>3, <2>5
      <4>3. Multiplied(r, op, x, y) \in States(text) /\ Multiplied(r, op, x, y).at = r.at
        BY <2>4, MultipliedIs
      <4> QED BY <3>1, <4>1, <4>2, <4>3
    <3>3. ASSUME NEW Q, Q.factor[c] = r PROVE term_rest(text, Q, s) = Q.term_rest[m]
      BY <1>1, <1>5, <2>1, <2>8, <3>1, <3>3 DEF term_rest
    <3>4. term_rest(text, P, s) = P.term_rest[m]
      BY <2>3, <3>3
    <3>5. P.term_rest[m] \in States(text) /\ P.term_rest[m].at >= m.at
      BY <3>2, OnwardIs DEF Calls
    <3>6. \A Q : SameBehind(text, P, Q, s.at) => Q.term_rest[m] = P.term_rest[m]
      BY <2>5, <3>2 DEF SameBehind
    <3>7. P.term_rest[m].at >= s.at
      <4>1. P.term_rest[m].at \in Nat
        BY <3>5 DEF States
      <4> QED BY <1>3, <2>5, <3>2, <3>5, <4>1
    <3> QED BY <2>6, <3>3, <3>4, <3>5, <3>6, <3>7
  <2> QED BY <2>7, <2>8
<1> QED BY <1>4, <1>5

\* The same for the loop of parse_expr.
LEMMA ExprRestGoes ==
  ASSUME NEW text \in Seq(CalcChars), NEW P, Calls(text, P), NEW s \in States(text)
  PROVE  /\ expr_rest(text, P, s) \in States(text) /\ expr_rest(text, P, s).at >= s.at
         /\ \A Q : SameBehind(text, P, Q, s.at) => expr_rest(text, Q, s) = expr_rest(text, P, s)
<1>1. PICK t \in States(text) : t = skip(text, s)
  BY SkipIs
<1>2. t.at \in s.at .. Len(text) /\ t.v = s.v /\ t.ok = s.ok /\ t.trap = s.trap
  BY <1>1, SkipIs
<1>3. s.at \in Nat /\ t.at \in Nat /\ t.at >= s.at /\ t.v \in Longs
  BY <1>2 DEF States
<1>4. CASE t.trap \/ ~IsA(text, t.at, {"+", "-"})
  <2>1. \A Q : expr_rest(text, Q, s) = t
    BY <1>1, <1>4 DEF expr_rest
  <2> QED BY <1>3, <2>1
<1>5. CASE ~t.trap /\ IsA(text, t.at, {"+", "-"})
  <2>1. PICK c : c = Consumed(t)
    OBVIOUS
  <2>2. c \in States(text) /\ c.at > s.at
    BY <1>1, <1>5, <2>1, AtIs
  <2>3. PICK r : r = P.term[c]
    OBVIOUS
  <2>4. r \in States(text) /\ r.at >= c.at
    BY <2>2, <2>3, OnwardIs DEF Calls
  <2>5. r.at \in Nat /\ r.at > s.at /\ r.v \in Longs
    <3>1. c.at \in Nat /\ r.at \in Nat /\ r.v \in Longs
      BY <2>2, <2>4 DEF States
    <3> QED BY <1>3, <2>2, <2>4, <3>1
  <2>6. \A Q : SameBehind(text, P, Q, s.at) => Q.term[c] = r
    BY <2>2, <2>3 DEF SameBehind
  <2>7. CASE r.trap \/ ~r.ok
    <3>1. ASSUME NEW Q, Q.term[c] = r PROVE expr_rest(text, Q, s) = [r EXCEPT !.v = 0]
      BY <1>1, <1>5, <2>1, <2>7, <3>1 DEF expr_rest
    <3>2. [r EXCEPT !.v = 0] \in States(text) /\ [r EXCEPT !.v = 0].at = r.at
      <4>1. 0 \in Longs
        BY CalcFacts DEF Longs
      <4> QED BY <2>4, <4>1 DEF States
    <3>3. r.at >= s.at
      BY <1>3, <2>5
    <3>4. expr_rest(text, P, s) = [r EXCEPT !.v = 0]
      BY <2>3, <3>1
    <3> QED BY <2>6, <3>1, <3>2, <3>3, <3>4
  <2>8. CASE ~(r.trap \/ ~r.ok)
    <3>1. PICK m : m = [r EXCEPT !.v = Wrap(IF text[t.at + 1] = "+" THEN t.v + @ ELSE t.v - @)]
      OBVIOUS
    <3>2. m \in States(text) /\ m.at = r.at
      <4>1. PICK y \in Int : y = IF text[t.at + 1] = "+" THEN t.v + r.v ELSE t.v - r.v
        BY <1>3, <2>5, CalcFacts DEF Longs
      <4>2. PICK x \in Longs : x = Wrap(y)
        BY WrapIs
      <4>3. m = [r EXCEPT !.v = x]
        BY <3>1, <4>1, <4>2
      <4> QED BY <2>4, <4>3 DEF States
    <3>3. ASSUME NEW Q, Q.term[c] = r PROVE expr_rest(text, Q, s) = Q.expr_rest[m]
      BY <1>1, <1>5, <2>1, <2>8, <3>1, <3>3 DEF expr_rest
    <3>4. expr_rest(text, P, s) = P.expr_rest[m]
      BY <2>3, <3>3
    <3>5. P.expr_rest[m] \in States(text) /\ P.expr_rest[m].at >= m.at
      BY <3>2, OnwardIs DEF Calls
    <3>6. \A Q : SameBehind(text, P, Q, s.at) => Q.expr_rest[m] = P.expr_rest[m]
      BY <2>5, <3>2 DEF SameBehind
    <3>7. P.expr_rest[m].at >= s.at
      <4>1. P.expr_rest[m].at \in Nat
        BY <3>5 DEF States
      <4> QED BY <1>3, <2>5, <3>2, <3>5, <4>1
    <3> QED BY <2>6, <3>3, <3>4, <3>5, <3>6, <3>7
  <2> QED BY <2>7, <2>8
<1> QED BY <1>4, <1>5

\* parse_term and parse_expr are a first operand and a loop.
LEMMA TermGoes ==
  ASSUME NEW text \in Seq(CalcChars), NEW P, Calls(text, P), NEW s \in States(text)
  PROVE  /\ parse_term(text, P, s) \in States(text) /\ parse_term(text, P, s).at >= s.at
         /\ \A Q : SameBehind(text, P, Q, s.at) => parse_term(text, Q, s) = parse_term(text, P, s)
<1>1. PICK t : t = parse_factor(text, P, s)
  OBVIOUS
<1>2. t \in States(text) /\ t.at >= s.at /\ \A Q : SameBehind(text, P, Q, s.at) => parse_factor(text, Q, s) = t
  BY <1>1, FactorGoes
<1>3. s.at \in Nat /\ t.at \in Nat
  BY <1>2 DEF States
<1>4. parse_term(text, P, s) = term_rest(text, P, t)
  BY <1>1 DEF parse_term
<1>5. parse_term(text, P, s) \in States(text) /\ parse_term(text, P, s).at >= t.at
  BY <1>2, <1>4, TermRestGoes
<1>6. parse_term(text, P, s).at >= s.at
  <2>1. parse_term(text, P, s).at \in Nat
    BY <1>5 DEF States
  <2> QED BY <1>2, <1>3, <1>5, <2>1
<1>7. ASSUME NEW Q, SameBehind(text, P, Q, s.at) PROVE parse_term(text, Q, s) = parse_term(text, P, s)
  <2>1. parse_term(text, Q, s) = term_rest(text, Q, t)
    BY <1>2, <1>7 DEF parse_term
  <2>2. SameBehind(text, P, Q, t.at)
    <3>1. \A u \in States(text) : u.at > t.at => u.at > s.at
      BY <1>2, <1>3 DEF States
    <3> QED BY <1>7, <3>1 DEF SameBehind
  <2>3. term_rest(text, Q, t) = term_rest(text, P, t)
    BY <1>2, <2>2, TermRestGoes
  <2> QED BY <1>4, <2>1, <2>3
<1> QED BY <1>5, <1>6, <1>7

\* The same for parse_expr.
LEMMA ExprGoes ==
  ASSUME NEW text \in Seq(CalcChars), NEW P, Calls(text, P), NEW s \in States(text)
  PROVE  /\ parse_expr(text, P, s) \in States(text) /\ parse_expr(text, P, s).at >= s.at
         /\ \A Q : SameBehind(text, P, Q, s.at) => parse_expr(text, Q, s) = parse_expr(text, P, s)
<1>1. PICK t : t = parse_term(text, P, s)
  OBVIOUS
<1>2. t \in States(text) /\ t.at >= s.at /\ \A Q : SameBehind(text, P, Q, s.at) => parse_term(text, Q, s) = t
  BY <1>1, TermGoes
<1>3. s.at \in Nat /\ t.at \in Nat
  BY <1>2 DEF States
<1>4. parse_expr(text, P, s) = expr_rest(text, P, t)
  BY <1>1 DEF parse_expr
<1>5. parse_expr(text, P, s) \in States(text) /\ parse_expr(text, P, s).at >= t.at
  BY <1>2, <1>4, ExprRestGoes
<1>6. parse_expr(text, P, s).at >= s.at
  <2>1. parse_expr(text, P, s).at \in Nat
    BY <1>5 DEF States
  <2> QED BY <1>2, <1>3, <1>5, <2>1
<1>7. ASSUME NEW Q, SameBehind(text, P, Q, s.at) PROVE parse_expr(text, Q, s) = parse_expr(text, P, s)
  <2>1. parse_expr(text, Q, s) = expr_rest(text, Q, t)
    BY <1>2, <1>7 DEF parse_expr
  <2>2. SameBehind(text, P, Q, t.at)
    <3>1. \A u \in States(text) : u.at > t.at => u.at > s.at
      BY <1>2, <1>3 DEF States
    <3> QED BY <1>7, <3>1 DEF SameBehind
  <2>3. expr_rest(text, Q, t) = expr_rest(text, P, t)
    BY <1>2, <2>2, ExprRestGoes
  <2> QED BY <1>4, <2>1, <2>3
<1> QED BY <1>5, <1>6, <1>7

\* The tables that Parser makes: that of no characters, and one character more.
CallTables(text) ==
  [factor : Onward(text), term : Onward(text), term_rest : Onward(text), expr : Onward(text), expr_rest : Onward(text)]

Deeper(text, P) ==
  [factor    |-> [s \in States(text) |-> parse_factor(text, P, s)],
   term      |-> [s \in States(text) |-> parse_term(text, P, s)],
   term_rest |-> [s \in States(text) |-> term_rest(text, P, s)],
   expr      |-> [s \in States(text) |-> parse_expr(text, P, s)],
   expr_rest |-> [s \in States(text) |-> expr_rest(text, P, s)]]

\* The functions of expr.c, with each other: every one is what its body says,
\* however much text is left.
Parsing(text, P) ==
  /\ Calls(text, P)
  /\ \A s \in States(text) :
       /\ P.factor[s] = parse_factor(text, P, s) /\ P.term[s] = parse_term(text, P, s)
       /\ P.term_rest[s] = term_rest(text, P, s) /\ P.expr[s] = parse_expr(text, P, s)
       /\ P.expr_rest[s] = expr_rest(text, P, s)

\* One call deeper the functions go on in the text, too.
LEMMA DeeperIs ==
  ASSUME NEW text \in Seq(CalcChars), NEW P \in CallTables(text)
  PROVE  Calls(text, P) /\ Deeper(text, P) \in CallTables(text)
<1>1. Calls(text, P)
  BY DEF CallTables, Calls
<1> DEFINE f1 == [s \in States(text) |-> parse_factor(text, P, s)]
           f2 == [s \in States(text) |-> parse_term(text, P, s)]
           f3 == [s \in States(text) |-> term_rest(text, P, s)]
           f4 == [s \in States(text) |-> parse_expr(text, P, s)]
           f5 == [s \in States(text) |-> expr_rest(text, P, s)]
<1>2. f1 \in Onward(text)
  <2>1. \A s \in States(text) : parse_factor(text, P, s) \in States(text) /\ parse_factor(text, P, s).at >= s.at
    BY <1>1, FactorGoes
  <2> QED BY <2>1 DEF Onward
<1>3. f2 \in Onward(text)
  <2>1. \A s \in States(text) : parse_term(text, P, s) \in States(text) /\ parse_term(text, P, s).at >= s.at
    BY <1>1, TermGoes
  <2> QED BY <2>1 DEF Onward
<1>4. f3 \in Onward(text)
  <2>1. \A s \in States(text) : term_rest(text, P, s) \in States(text) /\ term_rest(text, P, s).at >= s.at
    BY <1>1, TermRestGoes
  <2> QED BY <2>1 DEF Onward
<1>5. f4 \in Onward(text)
  <2>1. \A s \in States(text) : parse_expr(text, P, s) \in States(text) /\ parse_expr(text, P, s).at >= s.at
    BY <1>1, ExprGoes
  <2> QED BY <2>1 DEF Onward
<1>6. f5 \in Onward(text)
  <2>1. \A s \in States(text) : expr_rest(text, P, s) \in States(text) /\ expr_rest(text, P, s).at >= s.at
    BY <1>1, ExprRestGoes
  <2> QED BY <2>1 DEF Onward
<1>7. Deeper(text, P) = [factor |-> f1, term |-> f2, term_rest |-> f3, expr |-> f4, expr_rest |-> f5]
  BY Zenon DEF Deeper
<1> HIDE DEF f1, f2, f3, f4, f5
<1> QED BY <1>1, <1>2, <1>3, <1>4, <1>5, <1>6, <1>7 DEF CallTables

\* The tables that Parser goes through.
LEMMA ParserRun ==
  ASSUME NEW text \in Seq(CalcChars), NEW n \in Nat
  PROVE  \E f : /\ f \in [0 .. n -> CallTables(text)] /\ Parser(text, n) = f[n]
                /\ \A k \in 1 .. n : f[k] = Deeper(text, f[k - 1])
<1>1. PICK V : V = CallTables(text)
  OBVIOUS
<1>2. PICK a : a = [c \in {"factor", "term", "term_rest", "expr", "expr_rest"} |-> [s \in States(text) |-> s]]
  OBVIOUS
<1>3. n \in Nat
  OBVIOUS
<1>4. a = [c \in {"factor", "term", "term_rest", "expr", "expr_rest"} |-> [s \in States(text) |-> s]]
  BY <1>2
<1>5. a \in V
  <2>1. PICK o : o = [s \in States(text) |-> s]
    OBVIOUS
  <2>2. o \in Onward(text)
    <3>1. \A s \in States(text) : s.at >= s.at
      BY DEF States
    <3> QED BY <2>1, <3>1 DEF Onward
  <2>3. PICK O : O = Onward(text)
    OBVIOUS
  <2>4. a \in [factor : O, term : O, term_rest : O, expr : O, expr_rest : O]
    BY <1>2, <2>1, <2>2, <2>3
  <2> QED BY <1>1, <2>3, <2>4 DEF CallTables
<1>55. \A x \in V : Deeper(text, x) \in V
  BY <1>1, DeeperIs
<1> DEFINE h == [q \in (1 .. n) \X V |-> Deeper(text, q[2])]
<1>6. h \in [(1 .. n) \X V -> V]
  BY <1>55
<1>7. PICK e : e = h
  OBVIOUS
<1>8. e \in [(1 .. n) \X V -> V]
  BY <1>6, <1>7
<1>9. ASSUME NEW k \in 1 .. n, NEW x \in V PROVE e[<<k, x>>] = Deeper(text, x)
  BY <1>7
<1> HIDE DEF h
<1>10. PICK f : Solves(f, n, V, a, e)
  BY <1>3, <1>5, <1>8, RecursionExists
<1> DEFINE P(g) == g = [k \in 0 .. n |->
             IF k = 0 THEN [c \in {"factor", "term", "term_rest", "expr", "expr_rest"} |-> [s \in States(text) |-> s]]
             ELSE Deeper(text, g[k - 1])]
<1>11. P(f)
  <2>1. f \in [0 .. n -> V] /\ f[0] = a /\ \A k \in 1 .. n : f[k] = e[<<k, f[k - 1]>>]
    BY <1>10 DEF Solves
  <2>2. ASSUME NEW k \in 1 .. n PROVE f[k] = Deeper(text, f[k - 1])
    <3>1. f[k - 1] \in V
      BY <1>3, <2>1
    <3> QED BY <1>9, <2>1, <3>1
  <2>3. ASSUME NEW k \in 0 .. n
        PROVE  f[k] = IF k = 0 THEN [c \in {"factor", "term", "term_rest", "expr", "expr_rest"} |-> [s \in States(text) |-> s]]
                      ELSE Deeper(text, f[k - 1])
    <3>1. CASE k = 0
      BY <1>4, <2>1, <3>1
    <3>2. CASE k # 0
      <4>1. k \in 1 .. n
        BY <1>3, <3>2
      <4> QED BY <2>2, <3>2, <4>1
    <3> QED BY <3>1, <3>2
  <2>4. f = [k \in 0 .. n |-> f[k]]
    BY <2>1
  <2> QED BY <2>3, <2>4
<1>12. PICK g : g = CHOOSE x : P(x)
  OBVIOUS
<1>13. P(g)
  <2> HIDE DEF P
  <2> QED BY <1>11, <1>12
<1>14. Parser(text, n) = g[n]
  BY <1>12 DEF Parser, Deeper
<1>15. g[0] = a
  <2>1. 0 \in 0 .. n
    BY <1>3
  <2> QED BY <1>4, <1>13, <2>1
<1>16. ASSUME NEW k \in 1 .. n PROVE g[k] = Deeper(text, g[k - 1])
  <2>1. k \in 0 .. n /\ k # 0
    BY <1>3
  <2> QED BY <1>13, <2>1
<1>17. g = [k \in 0 .. n |-> g[k]]
  BY <1>13
<1>18. Solves(g, n, V, a, e)
  <2>1. \A k \in 1 .. n : g[k - 1] \in V => g[k] = e[<<k, g[k - 1]>>]
    BY <1>9, <1>16
  <2> QED BY <1>3, <1>5, <1>8, <1>15, <1>17, <2>1, RecursionSolved
<1>19. g \in [0 .. n -> V]
  BY <1>18 DEF Solves
<1> QED BY <1>1, <1>14, <1>16, <1>19

\* The functions one call deeper, state by state.
LEMMA DeeperAt ==
  ASSUME NEW text, NEW P, NEW s \in States(text)
  PROVE  /\ Deeper(text, P).factor[s] = parse_factor(text, P, s)
         /\ Deeper(text, P).term[s] = parse_term(text, P, s)
         /\ Deeper(text, P).term_rest[s] = term_rest(text, P, s)
         /\ Deeper(text, P).expr[s] = parse_expr(text, P, s)
         /\ Deeper(text, P).expr_rest[s] = expr_rest(text, P, s)
BY DEF Deeper

\* What they return does not depend on the calls that they cannot make.
LEMMA DeeperSame ==
  ASSUME NEW text \in Seq(CalcChars), NEW P \in CallTables(text), NEW Q, NEW i \in Nat,
         SameBehind(text, P, Q, i), NEW s \in States(text), s.at >= i
  PROVE  /\ Deeper(text, P).factor[s] = parse_factor(text, Q, s)
         /\ Deeper(text, P).term[s] = parse_term(text, Q, s)
         /\ Deeper(text, P).term_rest[s] = term_rest(text, Q, s)
         /\ Deeper(text, P).expr[s] = parse_expr(text, Q, s)
         /\ Deeper(text, P).expr_rest[s] = expr_rest(text, Q, s)
<1>1. Calls(text, P)
  BY DeeperIs
<1>2. SameBehind(text, P, Q, s.at)
  <2>1. \A u \in States(text) : u.at > s.at => u.at > i
    BY DEF States
  <2> QED BY <2>1 DEF SameBehind
<1>3. parse_factor(text, P, s) = parse_factor(text, Q, s)
  BY <1>1, <1>2, FactorGoes
<1>4. parse_term(text, P, s) = parse_term(text, Q, s)
  BY <1>1, <1>2, TermGoes
<1>5. term_rest(text, P, s) = term_rest(text, Q, s)
  BY <1>1, <1>2, TermRestGoes
<1>6. parse_expr(text, P, s) = parse_expr(text, Q, s)
  BY <1>1, <1>2, ExprGoes
<1>7. expr_rest(text, P, s) = expr_rest(text, Q, s)
  BY <1>1, <1>2, ExprRestGoes
<1> QED BY <1>3, <1>4, <1>5, <1>6, <1>7, DeeperAt

\* The recursion of expr.c ends, and the table is deep enough for the whole
\* text: its functions call each other and nothing else.
LEMMA ParserIs ==
  ASSUME NEW text \in Seq(CalcChars)
  PROVE  Parsing(text, Parser(text, Len(text) + 1))
<1>1. PICK L \in Nat : L = Len(text)
  OBVIOUS
<1>2. PICK n \in Nat : n = L + 1
  OBVIOUS
<1>3. PICK f : /\ f \in [0 .. n -> CallTables(text)] /\ Parser(text, n) = f[n]
               /\ \A k \in 1 .. n : f[k] = Deeper(text, f[k - 1])
  BY ParserRun
<1>4. ASSUME NEW k \in Nat, k <= L
      PROVE  f[k] \in CallTables(text) /\ f[k + 1] \in CallTables(text) /\ f[k + 1] = Deeper(text, f[k])
  <2>1. k \in 0 .. n /\ k + 1 \in 0 .. n /\ k + 1 \in 1 .. n /\ (k + 1) - 1 = k
    BY <1>2, <1>4
  <2> QED BY <1>3, <2>1
<1> DEFINE T == {k \in Nat : k <= L => SameBehind(text, f[k], f[k + 1], L - k)}
<1>5. 0 \in T
  <2>1. \A s \in States(text) : ~(s.at > L - 0)
    BY <1>1 DEF States
  <2>2. SameBehind(text, f[0], f[0 + 1], L - 0)
    BY <2>1 DEF SameBehind
  <2> QED BY <2>2
<1>6. ASSUME NEW k \in Nat, k \in T PROVE k + 1 \in T
  <2> SUFFICES ASSUME k + 1 <= L PROVE SameBehind(text, f[k + 1], f[(k + 1) + 1], L - (k + 1))
    OBVIOUS
  <2>1. PICK i \in Nat : i = L - k
    OBVIOUS
  <2>2. k <= L /\ L - (k + 1) = i - 1
    BY <2>1
  <2>3. PICK P, Q, R : P = f[k] /\ Q = f[k + 1] /\ R = f[(k + 1) + 1]
    OBVIOUS
  <2>4. SameBehind(text, P, Q, i)
    BY <1>6, <2>1, <2>2, <2>3
  <2>5. P \in CallTables(text) /\ Q \in CallTables(text) /\ Q = Deeper(text, P) /\ R = Deeper(text, Q)
    <3>1. P \in CallTables(text) /\ Q \in CallTables(text) /\ Q = Deeper(text, P)
      BY <1>4, <2>2, <2>3
    <3>2. PICK m \in Nat : m = k + 1
      OBVIOUS
    <3>3. f[m + 1] = Deeper(text, f[m])
      BY <1>4, <3>2
    <3> QED BY <2>3, <3>1, <3>2, <3>3
  <2>6. ASSUME NEW s \in States(text), s.at > i - 1
        PROVE  /\ Q.factor[s] = R.factor[s] /\ Q.term[s] = R.term[s] /\ Q.term_rest[s] = R.term_rest[s]
               /\ Q.expr[s] = R.expr[s] /\ Q.expr_rest[s] = R.expr_rest[s]
    <3>1. s.at >= i
      BY <2>6 DEF States
    <3>2. /\ Q.factor[s] = parse_factor(text, Q, s) /\ Q.term[s] = parse_term(text, Q, s)
          /\ Q.term_rest[s] = term_rest(text, Q, s) /\ Q.expr[s] = parse_expr(text, Q, s)
          /\ Q.expr_rest[s] = expr_rest(text, Q, s)
      BY <2>4, <2>5, <3>1, DeeperSame
    <3>3. /\ R.factor[s] = parse_factor(text, Q, s) /\ R.term[s] = parse_term(text, Q, s)
          /\ R.term_rest[s] = term_rest(text, Q, s) /\ R.expr[s] = parse_expr(text, Q, s)
          /\ R.expr_rest[s] = expr_rest(text, Q, s)
      BY <2>5, DeeperAt
    <3> QED BY <3>2, <3>3
  <2>7. SameBehind(text, Q, R, i - 1)
    BY <2>6 DEF SameBehind
  <2> QED BY <2>2, <2>3, <2>7
<1>7. Nat \subseteq T
  <2> HIDE DEF T
  <2> QED BY <1>5, <1>6, InductionOnSet
<1>8. PICK P, Q : P = f[L] /\ Q = f[L + 1]
  OBVIOUS
<1>9. SameBehind(text, P, Q, 0)
  <2>1. L - L = 0 /\ L <= L
    OBVIOUS
  <2>2. SameBehind(text, f[L], f[L + 1], L - L)
    BY <1>7, <2>1
  <2> QED BY <1>8, <2>1, <2>2
<1>10. P \in CallTables(text) /\ Q \in CallTables(text) /\ Q = Deeper(text, P)
  BY <1>4, <1>8
<1>11. ASSUME NEW s \in States(text)
       PROVE  /\ Q.factor[s] = parse_factor(text, Q, s) /\ Q.term[s] = parse_term(text, Q, s)
              /\ Q.term_rest[s] = term_rest(text, Q, s) /\ Q.expr[s] = parse_expr(text, Q, s)
              /\ Q.expr_rest[s] = expr_rest(text, Q, s)
  <2>1. s.at >= 0
    BY DEF States
  <2> QED BY <1>9, <1>10, <2>1, DeeperSame
<1>12. Calls(text, Q)
  BY <1>10, DeeperIs
<1>13. Q = Parser(text, Len(text) + 1)
  BY <1>1, <1>2, <1>3, <1>8
<1>14. Parsing(text, Q)
  BY <1>11, <1>12 DEF Parsing
<1> QED BY <1>13, <1>14

\* skip moves the state and changes nothing else.
LEMMA SkipFlags ==
  ASSUME NEW text \in Seq(CalcChars), NEW s \in States(text)
  PROVE  /\ skip(text, s).at = Behind(text, s.at, {Gap}) /\ skip(text, s).v = s.v
         /\ (skip(text, s).trap <=> s.trap) /\ (skip(text, s).ok <=> s.ok)
<1>1. skip(text, s).at = Behind(text, s.at, {Gap}) /\ skip(text, s).v = s.v
  BY DEF skip, States
<1>2. skip(text, s).trap <=> s.trap
  BY DEF skip, States
<1>3. skip(text, s).ok <=> s.ok
  BY DEF skip, States
<1> QED BY <1>1, <1>2, <1>3

\* The functions keep the state in the text and go on in it.
LEMMA ParsingTyped ==
  ASSUME NEW text \in Seq(CalcChars), NEW P, Parsing(text, P), NEW s \in States(text)
  PROVE  /\ P.factor[s] \in States(text) /\ P.factor[s].at >= s.at
         /\ P.term[s] \in States(text) /\ P.term[s].at >= s.at
         /\ P.term_rest[s] \in States(text) /\ P.term_rest[s].at >= s.at
         /\ P.expr[s] \in States(text) /\ P.expr[s].at >= s.at
         /\ P.expr_rest[s] \in States(text) /\ P.expr_rest[s].at >= s.at
BY OnwardIs DEF Parsing, Calls

\* What parse_factor reads in parentheses and behind a sign.
InParens(text, P, s, c, d, e) ==
  /\ c.at = Behind(text, s.at, {Gap}) + 1 /\ c.at > s.at /\ (c.ok <=> s.ok) /\ ~c.trap
  /\ d = P.expr[c] /\ d.at >= c.at /\ e = skip(text, d)
  /\ P.factor[s] = IF IsA(text, e.at, {")"}) THEN Consumed(e) ELSE Failed(e)

Negated(text, P, s, c, d) ==
  /\ c.at = Behind(text, s.at, {Gap}) + 1 /\ c.at > s.at /\ (c.ok <=> s.ok) /\ ~c.trap
  /\ d = P.factor[c] /\ d.at >= c.at
  /\ P.factor[s] = [d EXCEPT !.v = Wrap(-d.v)]

\* What the loops read behind an operator.
TermRound(text, P, s, c, r) ==
  /\ c.at = Behind(text, s.at, {Gap}) + 1 /\ c.at > s.at /\ (c.ok <=> s.ok) /\ ~c.trap
  /\ r = P.factor[c] /\ r.at >= c.at
  /\ (r.trap \/ ~r.ok) => P.term_rest[s] = [r EXCEPT !.v = 0]
  /\ ~(r.trap \/ ~r.ok) =>
       P.term_rest[s] = P.term_rest[Multiplied(r, text[Behind(text, s.at, {Gap}) + 1], s.v, r.v)]

ExprRound(text, P, s, c, r) ==
  /\ c.at = Behind(text, s.at, {Gap}) + 1 /\ c.at > s.at /\ (c.ok <=> s.ok) /\ ~c.trap
  /\ r = P.term[c] /\ r.at >= c.at
  /\ (r.trap \/ ~r.ok) => P.expr_rest[s] = [r EXCEPT !.v = 0]
  /\ ~(r.trap \/ ~r.ok) =>
       P.expr_rest[s] = P.expr_rest[[r EXCEPT !.v =
         Wrap(IF text[Behind(text, s.at, {Gap}) + 1] = "+" THEN s.v + r.v ELSE s.v - r.v)]]

\* parse_factor at a parenthesis, at a sign and at anything else.
LEMMA FactorParen ==
  ASSUME NEW text \in Seq(CalcChars), NEW P, Parsing(text, P), NEW s \in States(text),
         ~s.trap, IsA(text, Behind(text, s.at, {Gap}), {"("})
  PROVE  \E c, d, e \in States(text) : InParens(text, P, s, c, d, e)
<1>1. PICK t \in States(text) : t = skip(text, s)
  BY SkipIs
<1>2. t.at = Behind(text, s.at, {Gap}) /\ (t.trap <=> s.trap)
  BY <1>1, SkipFlags
<1>3. PICK c : c = Consumed(t)
  OBVIOUS
<1>4. c \in States(text) /\ c.at = t.at + 1 /\ c.at > s.at /\ (c.ok <=> s.ok) /\ (c.trap <=> s.trap)
  <2>1. IsA(text, skip(text, s).at, {"("})
    BY <1>1, <1>2
  <2> QED BY <1>1, <1>3, <2>1, AtIs
<1>5. PICK d : d = P.expr[c]
  OBVIOUS
<1>6. d \in States(text) /\ d.at >= c.at
  BY <1>4, <1>5, ParsingTyped
<1>7. PICK e : e = skip(text, d)
  OBVIOUS
<1>8. e \in States(text)
  BY <1>6, <1>7, SkipIs
<1>9. parse_factor(text, P, s) = IF IsA(text, e.at, {")"}) THEN Consumed(e) ELSE Failed(e)
  <2>1. e = skip(text, P.expr[Consumed(skip(text, s))])
    BY <1>1, <1>3, <1>5, <1>7
  <2>2. ~skip(text, s).trap /\ IsA(text, skip(text, s).at, {"("})
    BY <1>1, <1>2
  <2>3. ~IsA(text, skip(text, s).at, {"-"})
    BY <2>2 DEF IsA
  <2>4. parse_factor(text, P, s) = LET f == skip(text, P.expr[Consumed(skip(text, s))])
                                  IN  IF IsA(text, f.at, {")"}) THEN Consumed(f) ELSE Failed(f)
    BY <2>2, <2>3 DEF parse_factor
  <2> QED BY <2>1, <2>4, Zenon
<1>10. P.factor[s] = parse_factor(text, P, s)
  BY DEF Parsing
<1>11. InParens(text, P, s, c, d, e)
  BY <1>2, <1>4, <1>5, <1>6, <1>7, <1>9, <1>10 DEF InParens
<1> QED BY <1>4, <1>6, <1>8, <1>11

\* A sign is followed by a factor.
LEMMA FactorMinus ==
  ASSUME NEW text \in Seq(CalcChars), NEW P, Parsing(text, P), NEW s \in States(text),
         ~s.trap, IsA(text, Behind(text, s.at, {Gap}), {"-"})
  PROVE  \E c, d \in States(text) : Negated(text, P, s, c, d)
<1>1. PICK t \in States(text) : t = skip(text, s)
  BY SkipIs
<1>2. t.at = Behind(text, s.at, {Gap}) /\ (t.trap <=> s.trap)
  BY <1>1, SkipFlags
<1>3. PICK c : c = Consumed(t)
  OBVIOUS
<1>4. c \in States(text) /\ c.at = t.at + 1 /\ c.at > s.at /\ (c.ok <=> s.ok) /\ (c.trap <=> s.trap)
  <2>1. IsA(text, skip(text, s).at, {"-"})
    BY <1>1, <1>2
  <2> QED BY <1>1, <1>3, <2>1, AtIs
<1>5. PICK d : d = P.factor[c]
  OBVIOUS
<1>6. d \in States(text) /\ d.at >= c.at
  BY <1>4, <1>5, ParsingTyped
<1>7. ~IsA(text, t.at, {"("}) /\ IsA(text, t.at, {"-"}) /\ ~t.trap
  BY <1>2 DEF IsA
<1>8. parse_factor(text, P, s) = [d EXCEPT !.v = Wrap(-d.v)]
  BY <1>1, <1>3, <1>5, <1>7 DEF parse_factor
<1>9. P.factor[s] = parse_factor(text, P, s)
  BY DEF Parsing
<1>10. Negated(text, P, s, c, d)
  BY <1>2, <1>4, <1>5, <1>6, <1>8, <1>9 DEF Negated
<1> QED BY <1>4, <1>6, <1>10

\* Anything else is read as a number.
LEMMA FactorNum ==
  ASSUME NEW text \in Seq(CalcChars), NEW P, Parsing(text, P), NEW s \in States(text),
         ~s.trap, ~IsA(text, Behind(text, s.at, {Gap}), {"("}), ~IsA(text, Behind(text, s.at, {Gap}), {"-"})
  PROVE  P.factor[s] = parse_num(text, skip(text, s))
<1>1. PICK t \in States(text) : t = skip(text, s)
  BY SkipIs
<1>2. t.at = Behind(text, s.at, {Gap}) /\ (t.trap <=> s.trap)
  BY <1>1, SkipFlags
<1>3. ~IsA(text, t.at, {"("}) /\ ~IsA(text, t.at, {"-"}) /\ ~t.trap
  BY <1>2
<1>4. parse_factor(text, P, s) = parse_num(text, t)
  BY <1>1, <1>3 DEF parse_factor
<1> QED BY <1>1, <1>4 DEF Parsing

\* After the divide exception parse_factor does nothing.
LEMMA FactorTrap ==
  ASSUME NEW text \in Seq(CalcChars), NEW P, Parsing(text, P), NEW s \in States(text), s.trap
  PROVE  P.factor[s] = skip(text, s)
<1>1. skip(text, s).trap
  BY SkipFlags
<1>2. parse_factor(text, P, s) = skip(text, s)
  BY <1>1 DEF parse_factor
<1> QED BY <1>2 DEF Parsing

\* parse_term and parse_expr: an operand, and the loop.
LEMMA FirstOperand ==
  ASSUME NEW text \in Seq(CalcChars), NEW P, Parsing(text, P), NEW s \in States(text)
  PROVE  P.term[s] = P.term_rest[P.factor[s]] /\ P.expr[s] = P.expr_rest[P.term[s]]
<1>1. PICK t \in States(text), u \in States(text) : t = P.factor[s] /\ u = P.term[s]
  BY ParsingTyped
<1>2. t = parse_factor(text, P, s) /\ u = parse_term(text, P, s)
  BY <1>1 DEF Parsing
<1>3. P.term[s] = term_rest(text, P, t) /\ P.expr[s] = expr_rest(text, P, u)
  BY <1>2 DEF Parsing, parse_term, parse_expr
<1>4. term_rest(text, P, t) = P.term_rest[t] /\ expr_rest(text, P, u) = P.expr_rest[u]
  BY DEF Parsing
<1> QED BY <1>1, <1>3, <1>4

\* The loop of parse_term ends at a character that is no operator of its rank.
LEMMA TermStops ==
  ASSUME NEW text \in Seq(CalcChars), NEW P, Parsing(text, P), NEW s \in States(text),
         s.trap \/ ~IsA(text, Behind(text, s.at, {Gap}), {"*", "/", "%"})
  PROVE  P.term_rest[s] = skip(text, s)
<1>1. skip(text, s).at = Behind(text, s.at, {Gap}) /\ (skip(text, s).trap <=> s.trap)
  BY SkipFlags
<1>2. term_rest(text, P, s) = skip(text, s)
  BY <1>1 DEF term_rest
<1> QED BY <1>2 DEF Parsing

\* Otherwise it reads an operand and goes on.
LEMMA TermLoops ==
  ASSUME NEW text \in Seq(CalcChars), NEW P, Parsing(text, P), NEW s \in States(text),
         ~s.trap, IsA(text, Behind(text, s.at, {Gap}), {"*", "/", "%"})
  PROVE  \E c, r \in States(text) : TermRound(text, P, s, c, r)
<1>1. PICK t \in States(text) : t = skip(text, s)
  BY SkipIs
<1>2. t.at = Behind(text, s.at, {Gap}) /\ (t.trap <=> s.trap) /\ t.v = s.v
  BY <1>1, SkipFlags
<1>3. PICK c : c = Consumed(t)
  OBVIOUS
<1>4. c \in States(text) /\ c.at = t.at + 1 /\ c.at > s.at /\ (c.ok <=> s.ok) /\ (c.trap <=> s.trap)
  <2>1. IsA(text, skip(text, s).at, {"*", "/", "%"})
    BY <1>1, <1>2
  <2> QED BY <1>1, <1>3, <2>1, AtIs
<1>5. PICK r : r = P.factor[c]
  OBVIOUS
<1>6. r \in States(text) /\ r.at >= c.at
  BY <1>4, <1>5, OnwardIs DEF Parsing, Calls
<1>7. (r.trap \/ ~r.ok) => term_rest(text, P, s) = [r EXCEPT !.v = 0]
  BY <1>1, <1>2, <1>3, <1>5 DEF term_rest
<1>8. ~(r.trap \/ ~r.ok) => term_rest(text, P, s) = P.term_rest[Multiplied(r, text[t.at + 1], t.v, r.v)]
  BY <1>1, <1>2, <1>3, <1>5 DEF term_rest
<1>9. P.term_rest[s] = term_rest(text, P, s)
  BY DEF Parsing
<1>10. /\ (r.trap \/ ~r.ok) => P.term_rest[s] = [r EXCEPT !.v = 0]
       /\ ~(r.trap \/ ~r.ok) => P.term_rest[s] = P.term_rest[Multiplied(r, text[t.at + 1], t.v, r.v)]
  BY <1>7, <1>8, <1>9
<1>11. PICK p : p = t.at
  OBVIOUS
<1>12. PICK b : b = Behind(text, s.at, {Gap})
  OBVIOUS
<1>13. p = b /\ t.v = s.v
  BY <1>2, <1>11, <1>12
<1>14. ~(r.trap \/ ~r.ok) => P.term_rest[s] = P.term_rest[Multiplied(r, text[b + 1], s.v, r.v)]
  BY <1>10, <1>11, <1>13
<1>15. TermRound(text, P, s, c, r)
  BY <1>2, <1>4, <1>5, <1>6, <1>10, <1>12, <1>14 DEF TermRound
<1> QED BY <1>4, <1>6, <1>15

\* It starts behind gaps.
LEMMA TermSkips ==
  ASSUME NEW text \in Seq(CalcChars), NEW P, Parsing(text, P), NEW s \in States(text)
  PROVE  P.term_rest[s] = P.term_rest[skip(text, s)]
<1>1. PICK t \in States(text) : t = skip(text, s)
  BY SkipIs
<1>2. skip(text, t) = t
  BY <1>1, SkipIs
<1>3. term_rest(text, P, t) = term_rest(text, P, s)
  BY <1>1, <1>2, Zenon DEF term_rest
<1>4. P.term_rest[s] = term_rest(text, P, s) /\ P.term_rest[t] = term_rest(text, P, t)
  BY DEF Parsing
<1> QED BY <1>1, <1>3, <1>4

\* The loop of parse_expr ends at a character that is no operator of its rank.
LEMMA ExprStops ==
  ASSUME NEW text \in Seq(CalcChars), NEW P, Parsing(text, P), NEW s \in States(text),
         s.trap \/ ~IsA(text, Behind(text, s.at, {Gap}), {"+", "-"})
  PROVE  P.expr_rest[s] = skip(text, s)
<1>1. skip(text, s).at = Behind(text, s.at, {Gap}) /\ (skip(text, s).trap <=> s.trap)
  BY SkipFlags
<1>2. expr_rest(text, P, s) = skip(text, s)
  BY <1>1 DEF expr_rest
<1> QED BY <1>2 DEF Parsing

\* Otherwise it reads an operand and goes on.
LEMMA ExprLoops ==
  ASSUME NEW text \in Seq(CalcChars), NEW P, Parsing(text, P), NEW s \in States(text),
         ~s.trap, IsA(text, Behind(text, s.at, {Gap}), {"+", "-"})
  PROVE  \E c, r \in States(text) : ExprRound(text, P, s, c, r)
<1>1. PICK t \in States(text) : t = skip(text, s)
  BY SkipIs
<1>2. t.at = Behind(text, s.at, {Gap}) /\ (t.trap <=> s.trap) /\ t.v = s.v
  BY <1>1, SkipFlags
<1>3. PICK c : c = Consumed(t)
  OBVIOUS
<1>4. c \in States(text) /\ c.at = t.at + 1 /\ c.at > s.at /\ (c.ok <=> s.ok) /\ (c.trap <=> s.trap)
  <2>1. IsA(text, skip(text, s).at, {"+", "-"})
    BY <1>1, <1>2
  <2> QED BY <1>1, <1>3, <2>1, AtIs
<1>5. PICK r : r = P.term[c]
  OBVIOUS
<1>6. r \in States(text) /\ r.at >= c.at
  BY <1>4, <1>5, OnwardIs DEF Parsing, Calls
<1>7. (r.trap \/ ~r.ok) => expr_rest(text, P, s) = [r EXCEPT !.v = 0]
  BY <1>1, <1>2, <1>3, <1>5 DEF expr_rest
<1>8. ~(r.trap \/ ~r.ok) => expr_rest(text, P, s) = P.expr_rest[[r EXCEPT !.v = Wrap(IF text[t.at + 1] = "+" THEN t.v + r.v ELSE t.v - r.v)]]
  BY <1>1, <1>2, <1>3, <1>5 DEF expr_rest
<1>9. P.expr_rest[s] = expr_rest(text, P, s)
  BY DEF Parsing
<1>10. /\ (r.trap \/ ~r.ok) => P.expr_rest[s] = [r EXCEPT !.v = 0]
       /\ ~(r.trap \/ ~r.ok) => P.expr_rest[s] = P.expr_rest[[r EXCEPT !.v = Wrap(IF text[t.at + 1] = "+" THEN t.v + r.v ELSE t.v - r.v)]]
  BY <1>7, <1>8, <1>9
<1>11. PICK p : p = t.at
  OBVIOUS
<1>12. PICK b : b = Behind(text, s.at, {Gap})
  OBVIOUS
<1>13. p = b /\ t.v = s.v
  BY <1>2, <1>11, <1>12
<1>14. ~(r.trap \/ ~r.ok) => P.expr_rest[s] = P.expr_rest[[r EXCEPT !.v = Wrap(IF text[b + 1] = "+" THEN s.v + r.v ELSE s.v - r.v)]]
  BY <1>10, <1>11, <1>13
<1>15. ExprRound(text, P, s, c, r)
  BY <1>2, <1>4, <1>5, <1>6, <1>10, <1>12, <1>14 DEF ExprRound
<1> QED BY <1>4, <1>6, <1>15

\* It starts behind gaps.
LEMMA ExprSkips ==
  ASSUME NEW text \in Seq(CalcChars), NEW P, Parsing(text, P), NEW s \in States(text)
  PROVE  P.expr_rest[s] = P.expr_rest[skip(text, s)]
<1>1. PICK t \in States(text) : t = skip(text, s)
  BY SkipIs
<1>2. skip(text, t) = t
  BY <1>1, SkipIs
<1>3. expr_rest(text, P, t) = expr_rest(text, P, s)
  BY <1>1, <1>2, Zenon DEF expr_rest
<1>4. P.expr_rest[s] = expr_rest(text, P, s) /\ P.expr_rest[t] = expr_rest(text, P, t)
  BY DEF Parsing
<1> QED BY <1>1, <1>3, <1>4

\* The error flag is set, and the program goes on.
Dead(s) == ~s.ok /\ ~s.trap

\* Once the error flag is set, moving on does not clear it.
LEMMA DeadMoves ==
  ASSUME NEW text \in Seq(CalcChars), NEW s \in States(text)
  PROVE  /\ Dead(s) => Dead(skip(text, s)) /\ Dead(Consumed(s))
         /\ ~s.trap => Dead(Failed(s))
<1>1. Dead(s) => Dead(skip(text, s))
  BY SkipFlags DEF Dead
<1>2. Dead(s) => Dead(Consumed(s))
  BY DEF Dead, Consumed, States
<1>4. ~s.trap => Dead(Failed(s))
  BY DEF Dead, Failed, States
<1> QED BY <1>1, <1>2, <1>4

\* Nor does a value.
LEMMA DeadValue ==
  ASSUME NEW text, NEW s \in States(text), Dead(s), NEW x
  PROVE  Dead([s EXCEPT !.v = x])
BY DEF Dead, States

\* Nor do the functions, if those they call do not.
LEMMA DeadStep ==
  ASSUME NEW text \in Seq(CalcChars), NEW P, Parsing(text, P), NEW i \in Nat,
         \A t \in States(text) : t.at > i /\ Dead(t) => Dead(P.factor[t]) /\ Dead(P.term[t]) /\ Dead(P.expr[t]),
         NEW s0 \in States(text), s0.at >= i, Dead(s0)
  PROVE  Dead(P.factor[s0]) /\ Dead(P.term[s0]) /\ Dead(P.term_rest[s0]) /\ Dead(P.expr[s0]) /\ Dead(P.expr_rest[s0])
<1>0. ASSUME NEW s \in States(text), s.at >= i, NEW c \in States(text), c.at > s.at PROVE c.at > i
  <2>1. s.at \in Nat /\ c.at \in Nat
    BY DEF States
  <2> QED BY <1>0, <2>1
<1>1. ASSUME NEW s \in States(text), s.at >= i, Dead(s) PROVE Dead(P.factor[s])
  <2>0. ~s.trap /\ ~s.ok
    BY <1>1 DEF Dead
  <2>1. CASE IsA(text, Behind(text, s.at, {Gap}), {"("})
    <3>01. PICK c, d, e \in States(text) : InParens(text, P, s, c, d, e)
      BY <2>0, <2>1, FactorParen
    <3>1. /\ c.at > s.at /\ (c.ok <=> s.ok) /\ ~c.trap /\ d = P.expr[c] /\ e = skip(text, d)
          /\ P.factor[s] = IF IsA(text, e.at, {")"}) THEN Consumed(e) ELSE Failed(e)
      BY <3>01 DEF InParens
    <3>2. Dead(c) /\ c.at > i
      BY <1>0, <1>1, <2>0, <3>1 DEF Dead
    <3>3. Dead(d)
      BY <3>1, <3>2
    <3>4. Dead(e)
      BY <3>1, <3>3, DeadMoves
    <3>5. Dead(Consumed(e)) /\ Dead(Failed(e))
      BY <3>4, DeadMoves DEF Dead
    <3> QED BY <3>1, <3>5
  <2>2. CASE IsA(text, Behind(text, s.at, {Gap}), {"-"})
    <3>01. PICK c, d \in States(text) : Negated(text, P, s, c, d)
      BY <2>0, <2>2, FactorMinus
    <3>1. c.at > s.at /\ (c.ok <=> s.ok) /\ ~c.trap /\ d = P.factor[c] /\ P.factor[s] = [d EXCEPT !.v = Wrap(-d.v)]
      BY <3>01 DEF Negated
    <3>2. Dead(c) /\ c.at > i
      BY <1>0, <1>1, <2>0, <3>1 DEF Dead
    <3>3. Dead(d)
      BY <3>1, <3>2
    <3>4. PICK x : x = Wrap(-d.v)
      OBVIOUS
    <3>5. Dead([d EXCEPT !.v = x])
      BY <3>3, DeadValue
    <3> QED BY <3>1, <3>4, <3>5
  <2>3. CASE ~IsA(text, Behind(text, s.at, {Gap}), {"("}) /\ ~IsA(text, Behind(text, s.at, {Gap}), {"-"})
    <3>1. PICK t \in States(text) : t = skip(text, s)
      BY SkipIs
    <3>2. P.factor[s] = parse_num(text, t)
      BY <2>0, <2>3, <3>1, FactorNum
    <3>3. ~t.ok /\ ~t.trap
      BY <2>0, <3>1, SkipFlags
    <3>4. parse_num(text, t).trap = t.trap /\ (parse_num(text, t).ok => t.ok)
      BY NumState
    <3> QED BY <3>2, <3>3, <3>4 DEF Dead
  <2> QED BY <2>1, <2>2, <2>3
<1>2. ASSUME NEW s \in States(text), s.at >= i, Dead(s) PROVE Dead(P.term_rest[s])
  <2>0. ~s.trap /\ ~s.ok
    BY <1>2 DEF Dead
  <2>1. CASE ~IsA(text, Behind(text, s.at, {Gap}), {"*", "/", "%"})
    BY <1>2, <2>1, TermStops, DeadMoves
  <2>2. CASE IsA(text, Behind(text, s.at, {Gap}), {"*", "/", "%"})
    <3>01. PICK c, r \in States(text) : TermRound(text, P, s, c, r)
      BY <2>0, <2>2, TermLoops
    <3>1. /\ c.at > s.at /\ (c.ok <=> s.ok) /\ ~c.trap /\ r = P.factor[c]
          /\ (r.trap \/ ~r.ok) => P.term_rest[s] = [r EXCEPT !.v = 0]
      BY <3>01 DEF TermRound
    <3>2. Dead(c) /\ c.at > i
      BY <1>0, <1>2, <2>0, <3>1 DEF Dead
    <3>3. Dead(r)
      BY <3>1, <3>2
    <3>4. P.term_rest[s] = [r EXCEPT !.v = 0]
      BY <3>1, <3>3 DEF Dead
    <3>5. Dead([r EXCEPT !.v = 0])
      BY <3>3, DeadValue
    <3> QED BY <3>4, <3>5
  <2> QED BY <2>1, <2>2
<1>3. ASSUME NEW s \in States(text), s.at >= i, Dead(s) PROVE Dead(P.expr_rest[s])
  <2>0. ~s.trap /\ ~s.ok
    BY <1>3 DEF Dead
  <2>1. CASE ~IsA(text, Behind(text, s.at, {Gap}), {"+", "-"})
    BY <1>3, <2>1, ExprStops, DeadMoves
  <2>2. CASE IsA(text, Behind(text, s.at, {Gap}), {"+", "-"})
    <3>01. PICK c, r \in States(text) : ExprRound(text, P, s, c, r)
      BY <2>0, <2>2, ExprLoops
    <3>1. /\ c.at > s.at /\ (c.ok <=> s.ok) /\ ~c.trap /\ r = P.term[c]
          /\ (r.trap \/ ~r.ok) => P.expr_rest[s] = [r EXCEPT !.v = 0]
      BY <3>01 DEF ExprRound
    <3>2. Dead(c) /\ c.at > i
      BY <1>0, <1>3, <2>0, <3>1 DEF Dead
    <3>3. Dead(r)
      BY <3>1, <3>2
    <3>4. P.expr_rest[s] = [r EXCEPT !.v = 0]
      BY <3>1, <3>3 DEF Dead
    <3>5. Dead([r EXCEPT !.v = 0])
      BY <3>3, DeadValue
    <3> QED BY <3>4, <3>5
  <2> QED BY <2>1, <2>2
<1>4. PICK f \in States(text) : f = P.factor[s0] /\ f.at >= s0.at
  BY ParsingTyped
<1>5. f.at >= i /\ Dead(f)
  <2>1. f.at \in Nat /\ s0.at \in Nat
    BY DEF States
  <2> QED BY <1>1, <1>4, <2>1
<1>6. Dead(P.term[s0])
  BY <1>2, <1>4, <1>5, FirstOperand
<1>7. PICK t \in States(text) : t = P.term[s0] /\ t.at >= s0.at
  BY ParsingTyped
<1>8. t.at >= i
  <2>1. t.at \in Nat /\ s0.at \in Nat
    BY DEF States
  <2> QED BY <1>7, <2>1
<1>9. Dead(P.expr[s0])
  BY <1>3, <1>6, <1>7, <1>8, FirstOperand
<1>10. Dead(P.term_rest[s0]) /\ Dead(P.expr_rest[s0])
  BY <1>2, <1>3
<1> QED BY <1>4, <1>5, <1>6, <1>9, <1>10

\* An error is not forgotten, and nothing that could trap is done after it.
LEMMA DeadStays ==
  ASSUME NEW text \in Seq(CalcChars), NEW P, Parsing(text, P), NEW s \in States(text), Dead(s)
  PROVE  Dead(P.factor[s]) /\ Dead(P.term[s]) /\ Dead(P.term_rest[s]) /\ Dead(P.expr[s]) /\ Dead(P.expr_rest[s])
<1>1. PICK L \in Nat : L = Len(text)
  OBVIOUS
<1> DEFINE D(t) == Dead(P.factor[t]) /\ Dead(P.term[t]) /\ Dead(P.term_rest[t]) /\ Dead(P.expr[t]) /\ Dead(P.expr_rest[t])
           T == {k \in Nat : \A t \in States(text) : L - t.at < k /\ Dead(t) => D(t)}
<1>2. 0 \in T
  BY <1>1 DEF States
<1>3. ASSUME NEW k \in Nat, k \in T PROVE k + 1 \in T
  <2> SUFFICES ASSUME NEW t \in States(text), L - t.at < k + 1, Dead(t) PROVE D(t)
    OBVIOUS
  <2>1. PICK i \in Nat : i = t.at
    BY DEF States
  <2>2. ASSUME NEW u \in States(text), u.at > i, Dead(u) PROVE Dead(P.factor[u]) /\ Dead(P.term[u]) /\ Dead(P.expr[u])
    <3>1. L - u.at < k
      BY <2>1, <2>2 DEF States
    <3> QED BY <1>3, <2>2, <3>1
  <2>3. t.at >= i
    BY <2>1
  <2> QED BY <2>2, <2>3, DeadStep
<1>4. Nat \subseteq T
  <2> HIDE DEF T
  <2> QED BY <1>2, <1>3, InductionOnSet
<1>5. L + 1 \in Nat /\ L - s.at < L + 1
  BY <1>1 DEF States
<1>6. L + 1 \in T
  BY <1>4, <1>5
<1> QED BY <1>5, <1>6

\* After the divide exception nothing is done at all.
LEMMA TrapStays ==
  ASSUME NEW text \in Seq(CalcChars), NEW P, Parsing(text, P), NEW s \in States(text), s.trap
  PROVE  P.factor[s].trap /\ P.term[s].trap /\ P.term_rest[s].trap /\ P.expr[s].trap /\ P.expr_rest[s].trap
<1>1. ASSUME NEW t \in States(text), t.trap PROVE P.factor[t].trap /\ P.term_rest[t].trap /\ P.expr_rest[t].trap
  <2>1. skip(text, t).trap
    BY <1>1, SkipFlags
  <2>2. P.factor[t] = skip(text, t)
    BY <1>1, FactorTrap
  <2>3. P.term_rest[t] = skip(text, t)
    BY <1>1, TermStops
  <2>4. P.expr_rest[t] = skip(text, t)
    BY <1>1, ExprStops
  <2> QED BY <2>1, <2>2, <2>3, <2>4
<1>2. P.term[s].trap
  <2>1. P.factor[s] \in States(text)
    BY ParsingTyped
  <2> QED BY <1>1, <2>1, FirstOperand
<1>3. P.expr[s].trap
  <2>1. P.term[s] \in States(text)
    BY ParsingTyped
  <2> QED BY <1>1, <1>2, <2>1, FirstOperand
<1> QED BY <1>1, <1>2, <1>3

\* What is accepted in the end has been accepted all along.
LEMMA AcceptedBefore ==
  ASSUME NEW text \in Seq(CalcChars), NEW P, Parsing(text, P), NEW s \in States(text)
  PROVE  /\ P.factor[s].ok /\ ~P.factor[s].trap => s.ok /\ ~s.trap
         /\ P.term[s].ok /\ ~P.term[s].trap => s.ok /\ ~s.trap
         /\ P.term_rest[s].ok /\ ~P.term_rest[s].trap => s.ok /\ ~s.trap
         /\ P.expr[s].ok /\ ~P.expr[s].trap => s.ok /\ ~s.trap
         /\ P.expr_rest[s].ok /\ ~P.expr_rest[s].trap => s.ok /\ ~s.trap
<1>1. CASE s.trap
  BY <1>1, TrapStays
<1>2. CASE ~s.trap /\ ~s.ok
  <2>1. Dead(s)
    BY <1>2 DEF Dead
  <2> QED BY <2>1, DeadStays DEF Dead
<1>3. CASE ~s.trap /\ s.ok
  BY <1>3
<1> QED BY <1>1, <1>2, <1>3

\* The phrases are what the grammar says, at every length.
LEMMA PhrasesAre ==
  \A n \in 1 .. CalcMax : Phrases[n] = Grammar([k \in 1 .. n - 1 |-> Phrases[k]], n)
<1>0. CalcMax \in Nat
  BY CalcFacts
<1>1. PICK Z : Z = [factor |-> {}, term |-> {}, expr |-> {}]
  OBVIOUS
<1> DEFINE B(f, n) == IF n = 0 THEN Z ELSE Grammar([k \in 1 .. n - 1 |-> f[k]], n)
           T == {m \in Nat : \E f : f = [n \in 0 .. m |-> B(f, n)]}
<1>2. ASSUME NEW f, NEW g, NEW n \in Nat, \A k \in 1 .. n - 1 : f[k] = g[k] PROVE B(f, n) = B(g, n)
  <2>1. [k \in 1 .. n - 1 |-> f[k]] = [k \in 1 .. n - 1 |-> g[k]]
    BY <1>2
  <2> QED BY <2>1, Zenon
<1> HIDE DEF B
<1>3. 0 \in T
  <2>1. PICK f : f = [n \in 0 .. 0 |-> B(Z, n)]
    OBVIOUS
  <2>2. \A n \in 0 .. 0 : B(Z, n) = B(f, n)
    BY <1>2
  <2>3. f = [n \in 0 .. 0 |-> B(f, n)]
    BY <2>1, <2>2
  <2> QED BY <2>3
<1>4. ASSUME NEW m \in Nat, m \in T PROVE m + 1 \in T
  <2>1. PICK f : f = [n \in 0 .. m |-> B(f, n)]
    BY <1>4
  <2>2. PICK g : g = [n \in 0 .. m + 1 |-> B(f, n)]
    OBVIOUS
  <2>3. \A k \in 0 .. m : f[k] = g[k]
    <3> TAKE k \in 0 .. m
    <3>1. k \in 0 .. m + 1
      OBVIOUS
    <3>2. f[k] = B(f, k)
      BY <2>1
    <3>3. g[k] = B(f, k)
      BY <2>2, <3>1
    <3> QED BY <3>2, <3>3
  <2>4. ASSUME NEW n \in 0 .. m + 1 PROVE B(f, n) = B(g, n)
    <3>1. n \in Nat /\ \A k \in 1 .. n - 1 : k \in 0 .. m
      OBVIOUS
    <3> QED BY <1>2, <2>3, <3>1
  <2>5. g = [n \in 0 .. m + 1 |-> B(g, n)]
    BY <2>2, <2>4
  <2> QED BY <2>5
<1>5. CalcMax \in T
  <2>1. Nat \subseteq T
    <3> HIDE DEF T
    <3> QED BY <1>3, <1>4, InductionOnSet
  <2> QED BY <1>0, <2>1
<1> DEFINE R(f) == f = [n \in 0 .. CalcMax |-> B(f, n)]
<1>6. \E f : R(f)
  BY <1>5
<1>7. PICK p : p = CHOOSE f : R(f)
  OBVIOUS
<1>8. R(p)
  <2> HIDE DEF R
  <2> QED BY <1>6, <1>7
<1>9. Phrases = p
  BY <1>1, <1>7, Zenon DEF Phrases, B
<1>10. ASSUME NEW n \in 1 .. CalcMax PROVE Phrases[n] = Grammar([k \in 1 .. n - 1 |-> Phrases[k]], n)
  <2>1. n \in 0 .. CalcMax /\ n # 0
    BY <1>0
  <2>2. p[n] = B(p, n)
    BY <1>8, <2>1
  <2>3. B(p, n) = Grammar([k \in 1 .. n - 1 |-> p[k]], n)
    BY <2>1, Zenon DEF B
  <2> QED BY <1>9, <2>2, <2>3, Zenon
<1> QED BY <1>10

\* The phrases that two shorter ones make with an operator.
Pairs(n, lefts, rights, ops, z) ==
  \E k \in 1 .. n - 2 : \E x \in Phrases[k][lefts], y \in Phrases[n - 1 - k][rights], op \in ops :
    z = <<x[1] \o <<op>> \o y[1], Applied(op, x[2], y[2])>>

\* The pairs of Joint, one by one.
LEMMA JointIs ==
  ASSUME NEW n \in 1 .. CalcMax, NEW lefts, NEW rights, NEW ops, NEW z,
         NEW g, g = [k \in 1 .. n - 1 |-> Phrases[k]]
  PROVE  z \in Joint(g, n, lefts, rights, ops) <=> Pairs(n, lefts, rights, ops, z)
<1>0. n \in Nat
  BY CalcFacts
<1>1. ASSUME NEW k \in 1 .. n - 2 PROVE g[k] = Phrases[k] /\ g[n - 1 - k] = Phrases[n - 1 - k]
  <2>1. k \in 1 .. n - 1 /\ n - 1 - k \in 1 .. n - 1
    BY <1>0
  <2> QED BY <2>1
<1> DEFINE Z(x, y, op) == <<x[1] \o <<op>> \o y[1], Applied(op, x[2], y[2])>>
           W(k) == {Z(x, y, op) : x \in g[k][lefts], y \in g[n - 1 - k][rights], op \in ops}
<1>2. Joint(g, n, lefts, rights, ops) = UNION {W(k) : k \in 1 .. n - 2}
  BY DEF Joint
<1> HIDE DEF Z
<1>3. ASSUME NEW k \in 1 .. n - 2
      PROVE  z \in W(k) <=> \E x \in Phrases[k][lefts], y \in Phrases[n - 1 - k][rights], op \in ops :
                              z = Z(x, y, op)
  <2>1. z \in W(k) <=> \E x \in g[k][lefts], y \in g[n - 1 - k][rights], op \in ops : z = Z(x, y, op)
    OBVIOUS
  <2>2. g[k] = Phrases[k] /\ g[n - 1 - k] = Phrases[n - 1 - k]
    BY <1>1
  <2>3. g[k][lefts] = Phrases[k][lefts] /\ g[n - 1 - k][rights] = Phrases[n - 1 - k][rights]
    BY <2>2
  <2> HIDE DEF W
  <2> QED BY <2>1, <2>3
<1> HIDE DEF W
<1>4. z \in UNION {W(k) : k \in 1 .. n - 2} <=> \E k \in 1 .. n - 2 : z \in W(k)
  OBVIOUS
<1> QED BY <1>2, <1>3, <1>4, Zenon DEF Pairs, Z

\* The phrases that begin or end with a character more.
SomeFactor(n, z) ==
  \/ \E ds \in [1 .. n -> Range(Digits)] : z = <<ds, Exact(Number(ds))>>
  \/ n > 1 /\ \E x \in Phrases[n - 1].factor :
       \/ z = << <<"-">> \o x[1], Applied("-", Value(0), x[2])>>
       \/ z = << <<Gap>> \o x[1] \o <<>>, x[2]>>
       \/ z = << <<>> \o x[1] \o <<Gap>>, x[2]>>
  \/ n > 2 /\ \E x \in Phrases[n - 2].expr : z = << <<"(">> \o x[1] \o <<")">>, x[2]>>

\* The forms of a factor, one by one.
LEMMA FactorsAre ==
  ASSUME NEW n \in 1 .. CalcMax, NEW z, NEW g, g = [k \in 1 .. n - 1 |-> Phrases[k]]
  PROVE  z \in Factors(g, n) <=> SomeFactor(n, z)
<1>0. n \in Nat
  BY CalcFacts
<1>1. PICK F : F = Of(g, "factor", n - 1)
  OBVIOUS
<1>2. PICK E : E = Of(g, "expr", n - 2)
  OBVIOUS
<1>3. F = IF n > 1 THEN Phrases[n - 1].factor ELSE {}
  <2>1. CASE n > 1
    <3>1. n - 1 \in 1 .. n - 1 /\ ~(n - 1 < 1)
      BY <1>0, <2>1
    <3>2. g[n - 1] = Phrases[n - 1]
      BY <3>1
    <3>3. Of(g, "factor", n - 1) = g[n - 1]["factor"]
      BY <3>1 DEF Of
    <3> QED BY <1>1, <2>1, <3>2, <3>3
  <2>2. CASE ~(n > 1)
    <3>1. n - 1 < 1
      BY <1>0, <2>2
    <3> QED BY <1>1, <2>2, <3>1 DEF Of
  <2> QED BY <2>1, <2>2
<1>4. E = IF n > 2 THEN Phrases[n - 2].expr ELSE {}
  <2>1. CASE n > 2
    <3>1. n - 2 \in 1 .. n - 1 /\ ~(n - 2 < 1)
      BY <1>0, <2>1
    <3>2. g[n - 2] = Phrases[n - 2]
      BY <3>1
    <3>3. Of(g, "expr", n - 2) = g[n - 2]["expr"]
      BY <3>1 DEF Of
    <3> QED BY <1>2, <2>1, <3>2, <3>3
  <2>2. CASE ~(n > 2)
    <3>1. n - 2 < 1
      BY <1>0, <2>2
    <3> QED BY <1>2, <2>2, <3>1 DEF Of
  <2> QED BY <2>1, <2>2
<1>5. Factors(g, n) =
        {<<ds, Exact(Number(ds))>> : ds \in [1 .. n -> Range(Digits)]}
          \cup {<< <<"-">> \o x[1], Applied("-", Value(0), x[2])>> : x \in F}
          \cup {<< <<"(">> \o x[1] \o <<")">>, x[2]>> : x \in E}
          \cup {<< <<Gap>> \o x[1] \o <<>>, x[2]>> : x \in F}
          \cup {<< <<>> \o x[1] \o <<Gap>>, x[2]>> : x \in F}
  BY <1>1, <1>2, Zenon DEF Factors, Within
<1>6. z \in Factors(g, n) <=>
        \/ \E ds \in [1 .. n -> Range(Digits)] : z = <<ds, Exact(Number(ds))>>
        \/ \E x \in F : z = << <<"-">> \o x[1], Applied("-", Value(0), x[2])>>
        \/ \E x \in E : z = << <<"(">> \o x[1] \o <<")">>, x[2]>>
        \/ \E x \in F : z = << <<Gap>> \o x[1] \o <<>>, x[2]>>
        \/ \E x \in F : z = << <<>> \o x[1] \o <<Gap>>, x[2]>>
  BY <1>5, Zenon
<1>7. \A x : (x \in F <=> n > 1 /\ x \in Phrases[n - 1].factor) /\ (x \in E <=> n > 2 /\ x \in Phrases[n - 2].expr)
  BY <1>3, <1>4
<1> QED BY <1>6, <1>7, Zenon DEF SomeFactor

\* What the phrases of n characters are.
LEMMA PhraseIs ==
  ASSUME NEW n \in 1 .. CalcMax, NEW z
  PROVE  /\ z \in Phrases[n].factor <=> SomeFactor(n, z)
         /\ z \in Phrases[n].term <=> z \in Phrases[n].factor \/ Pairs(n, "term", "factor", {"*", "/", "%"}, z)
         /\ z \in Phrases[n].expr <=> z \in Phrases[n].term \/ Pairs(n, "expr", "term", {"+", "-"}, z)
<1>1. PICK g : g = [k \in 1 .. n - 1 |-> Phrases[k]]
  OBVIOUS
<1>2. Phrases[n] = Grammar(g, n)
  BY <1>1, PhrasesAre
<1>3. PICK F, J, K : F = Factors(g, n) /\ J = Joint(g, n, "term", "factor", {"*", "/", "%"})
                       /\ K = Joint(g, n, "expr", "term", {"+", "-"})
  OBVIOUS
<1>4. Grammar(g, n) = [factor |-> F, term |-> F \cup J, expr |-> (F \cup J) \cup K]
  BY <1>3, Zenon DEF Grammar
<1>5. Phrases[n].factor = F /\ Phrases[n].term = F \cup J /\ Phrases[n].expr = (F \cup J) \cup K
  BY <1>2, <1>4
<1>6. z \in F <=> SomeFactor(n, z)
  BY <1>1, <1>3, FactorsAre
<1>7. z \in J <=> Pairs(n, "term", "factor", {"*", "/", "%"}, z)
  BY <1>1, <1>3, JointIs
<1>8. z \in K <=> Pairs(n, "expr", "term", {"+", "-"}, z)
  BY <1>1, <1>3, JointIs
<1> QED BY <1>5, <1>6, <1>7, <1>8

\* What a phrase may mean.
Means == {Over, Error} \cup {Value(v) : v \in Longs}

\* The meanings are told apart.
LEMMA MeansApart ==
  /\ Over # Error /\ \A v : Value(v) # Over /\ Value(v) # Error /\ Value(v)[2] = v
  /\ \A v, w : Value(v) = Value(w) => v = w
BY DEF Over, Error, Value

\* An exact value that is a long, and one that is none.
LEMMA ExactIs ==
  ASSUME NEW v \in Int
  PROVE  /\ Exact(v) \in Means /\ (v \in Longs => Exact(v) = Value(v)) /\ (v \notin Longs => Exact(v) = Over)
         /\ (Exact(v) # Over => v \in Longs) /\ Exact(v) # Error
BY MeansApart DEF Exact, Means

\* What an operator makes of two meanings.
LEMMA AppliedFaults ==
  ASSUME NEW op, NEW x \in Means, NEW y \in Means
  PROVE  /\ (x = Over \/ y = Over) => Applied(op, x, y) = Over
         /\ x # Over /\ y # Over /\ (x = Error \/ y = Error) => Applied(op, x, y) = Error
         /\ x # Over /\ y # Over /\ op \in {"/", "%"} /\ y = Value(0) => Applied(op, x, y) = Error
<1>1. (x = Over \/ y = Over) => Applied(op, x, y) = Over
  BY DEF Applied
<1>2. x # Over /\ y # Over /\ (x = Error \/ y = Error) => Applied(op, x, y) = Error
  BY DEF Applied
<1>3. x # Over /\ y # Over /\ op \in {"/", "%"} /\ y = Value(0) => Applied(op, x, y) = Error
  BY DEF Applied
<1> QED BY <1>1, <1>2, <1>3

\* What an operator makes of two values.
LEMMA AppliedValues ==
  ASSUME NEW op, NEW v \in Longs, NEW w \in Longs, op \in {"/", "%"} => w # 0
  PROVE  /\ op = "+" => Applied(op, Value(v), Value(w)) = Exact(v + w)
         /\ op = "-" => Applied(op, Value(v), Value(w)) = Exact(v - w)
         /\ op = "*" => Applied(op, Value(v), Value(w)) = Exact(v * w)
         /\ op = "/" => Applied(op, Value(v), Value(w)) = Exact(Quotient(v, w))
         /\ op = "%" => Applied(op, Value(v), Value(w)) =
                          IF Quotient(v, w) \in Longs THEN Exact(Remainder(v, w)) ELSE Over
<1>1. PICK x, y : x = Value(v) /\ y = Value(w)
  OBVIOUS
<1>2. Over \notin {x, y} /\ Error \notin {x, y} /\ x[2] = v /\ y[2] = w
  BY <1>1, MeansApart
<1>3. op \in {"/", "%"} => y # Value(0)
  BY <1>1, MeansApart
<1>4. Applied(op, x, y) =
        CASE op = "+" -> Exact(v + w)
         [] op = "-" -> Exact(v - w)
         [] op = "*" -> Exact(v * w)
         [] op = "/" -> Exact(Quotient(v, w))
         [] op = "%" -> IF Quotient(v, w) \in Longs THEN Exact(Remainder(v, w)) ELSE Over
  BY <1>2, <1>3 DEF Applied
<1> QED BY <1>1, <1>4

\* Two meanings and an operator have a meaning.
LEMMA AppliedMeans ==
  ASSUME NEW op \in Operators, NEW x \in Means, NEW y \in Means
  PROVE  Applied(op, x, y) \in Means
<1>1. CASE x = Over \/ y = Over \/ x = Error \/ y = Error \/ (op \in {"/", "%"} /\ y = Value(0))
  BY <1>1, AppliedFaults DEF Means
<1>2. CASE ~(x = Over \/ y = Over \/ x = Error \/ y = Error \/ (op \in {"/", "%"} /\ y = Value(0)))
  <2>1. PICK v \in Longs, w \in Longs : x = Value(v) /\ y = Value(w)
    BY <1>2 DEF Means
  <2>2. op \in {"/", "%"} => w # 0
    BY <1>2, <2>1
  <2>3. v \in Int /\ w \in Int
    BY CalcFacts DEF Longs
  <2>4. PICK p \in Int, q \in Int, r \in Int : p = v + w /\ q = v - w /\ r = v * w
    BY <2>3
  <2>5. Exact(p) \in Means /\ Exact(q) \in Means /\ Exact(r) \in Means /\ Over \in Means
    BY ExactIs DEF Means
  <2>6. CASE op \in {"+", "-", "*"}
    BY <2>1, <2>2, <2>4, <2>5, <2>6, AppliedValues
  <2>7. CASE op \in {"/", "%"}
    <3>1. Quotient(v, w) \in Int /\ Remainder(v, w) \in Int
      BY <2>2, <2>7, QuotientIs
    <3>2. Exact(Quotient(v, w)) \in Means /\ Exact(Remainder(v, w)) \in Means
      BY <3>1, ExactIs
    <3> QED BY <2>1, <2>2, <2>5, <2>7, <3>2, AppliedValues
  <2> QED BY <2>6, <2>7 DEF Operators
<1> QED BY <1>1, <1>2

\* Digits stand for a number.
LEMMA NumberRun ==
  ASSUME NEW ds \in Seq(Range(Digits))
  PROVE  \E f : /\ f \in [0 .. Len(ds) -> Nat] /\ f[0] = 0 /\ Number(ds) = f[Len(ds)]
                /\ \A k \in 1 .. Len(ds) : f[k] = f[k - 1] * Radix + DigitValue(ds[k])
<1>1. PICK n \in Nat : n = Len(ds)
  OBVIOUS
<1>2. PICK vs : vs = [k \in DOMAIN ds |-> DigitValue(ds[k])]
  OBVIOUS
<1>3. DOMAIN ds = 1 .. n /\ \A k \in 1 .. n : ds[k] \in Range(Digits)
  BY <1>1
<1>4. \A k \in 1 .. n : vs[k] = DigitValue(ds[k]) /\ vs[k] \in Nat
  <2> TAKE k \in 1 .. n
  <2>1. DigitValue(ds[k]) \in 0 .. Radix - 1
    BY <1>3, DigitIs
  <2> QED BY <1>2, <1>3, <2>1
<1>5. vs \in Seq(Nat) /\ Len(vs) = n
  <2>1. vs \in [1 .. n -> Nat]
    BY <1>2, <1>3, <1>4
  <2> QED BY <2>1
<1>6. PICK f : ValueRun(f, vs, Radix) /\ ValueOf(vs, Radix) = f[Len(vs)]
  BY <1>5, CalcFacts, ValueIs
<1>7. f \in [0 .. n -> Nat] /\ f[0] = 0 /\ \A k \in 1 .. n : f[k] = f[k - 1] * Radix + vs[k]
  BY <1>5, <1>6 DEF ValueRun
<1>8. Number(ds) = f[n]
  BY <1>2, <1>5, <1>6 DEF Number
<1>9. \A k \in 1 .. n : f[k] = f[k - 1] * Radix + DigitValue(ds[k])
  BY <1>4, <1>7
<1> QED BY <1>1, <1>7, <1>8, <1>9

\* Digits stand for a natural number.
LEMMA NumberNat ==
  ASSUME NEW ds \in Seq(Range(Digits))
  PROVE  Number(ds) \in Nat
<1>1. PICK f : f \in [0 .. Len(ds) -> Nat] /\ Number(ds) = f[Len(ds)]
  BY NumberRun
<1>2. Len(ds) \in 0 .. Len(ds)
  OBVIOUS
<1> QED BY <1>1, <1>2

\* A text of n characters with a meaning.
Form(n, z) == \E w \in Seq(CalcChars), m \in Means : z = <<w, m>> /\ Len(w) = n

\* The characters of the grammar, alone.
LEMMA CharSeqs ==
  /\ \A c \in CalcChars : <<c>> \in Seq(CalcChars) /\ Len(<<c>>) = 1
  /\ <<>> \in Seq(CalcChars) /\ Len(<<>>) = 0
  /\ \A c \in Operators \cup {"(", ")", Gap} \cup Range(Digits) : c \in CalcChars
<1>1. ASSUME NEW c \in CalcChars PROVE <<c>> \in Seq(CalcChars) /\ Len(<<c>>) = 1
  OBVIOUS
<1>2. <<>> \in Seq(CalcChars) /\ Len(<<>>) = 0
  OBVIOUS
<1>3. \A c \in Operators \cup {"(", ")", Gap} \cup Range(Digits) : c \in CalcChars
  BY DEF CalcChars
<1> QED BY <1>1, <1>2, <1>3

\* Texts one behind the other are a text.
LEMMA CharsJoined ==
  ASSUME NEW p \in Seq(CalcChars), NEW q \in Seq(CalcChars)
  PROVE  p \o q \in Seq(CalcChars) /\ Len(p \o q) = Len(p) + Len(q)
BY ConcatProperties

\* Phrases made of texts with a meaning are texts with a meaning.
LEMMA FormStep ==
  ASSUME NEW n \in 1 .. CalcMax,
         \A k \in 1 .. CalcMax : k < n =>
           \A z : z \in Phrases[k].factor \/ z \in Phrases[k].term \/ z \in Phrases[k].expr => Form(k, z)
  PROVE  \A z : z \in Phrases[n].factor \/ z \in Phrases[n].term \/ z \in Phrases[n].expr => Form(n, z)
<1>0. n \in Nat /\ CalcMax \in Nat /\ n <= CalcMax
  BY CalcFacts
<1>1. ASSUME NEW z, z \in Phrases[n].factor PROVE Form(n, z)
  <2>1. SomeFactor(n, z)
    BY <1>1, PhraseIs
  <2>2. CASE \E ds \in [1 .. n -> Range(Digits)] : z = <<ds, Exact(Number(ds))>>
    <3>1. PICK ds \in [1 .. n -> Range(Digits)] : z = <<ds, Exact(Number(ds))>>
      BY <2>2
    <3>2. ds \in Seq(Range(Digits)) /\ Len(ds) = n
      BY <1>0
    <3>3. ds \in Seq(CalcChars)
      <4>1. Range(Digits) \subseteq CalcChars
        BY DEF CalcChars
      <4> QED BY <3>2, <4>1, SeqMonotonic
    <3>4. PICK v \in Nat : v = Number(ds)
      BY <3>2, NumberNat
    <3>5. Exact(v) \in Means
      BY ExactIs
    <3> QED BY <3>1, <3>2, <3>3, <3>4, <3>5 DEF Form
  <2>3. ASSUME n > 1, NEW x \in Phrases[n - 1].factor,
               \/ z = << <<"-">> \o x[1], Applied("-", Value(0), x[2])>>
               \/ z = << <<Gap>> \o x[1] \o <<>>, x[2]>>
               \/ z = << <<>> \o x[1] \o <<Gap>>, x[2]>>
        PROVE  Form(n, z)
    <3>1. PICK k \in 1 .. CalcMax : k = n - 1
      BY <1>0, <2>3
    <3>2. Form(k, x)
      <4>1. k < n /\ x \in Phrases[k].factor
        BY <1>0, <2>3, <3>1
      <4> QED BY <4>1
    <3>3. PICK w \in Seq(CalcChars), m \in Means : x = <<w, m>> /\ Len(w) = k
      BY <3>2 DEF Form
    <3>4. x[1] = w /\ x[2] = m
      BY <3>3
    <3>5. PICK a \in Seq(CalcChars), g \in Seq(CalcChars), o \in Seq(CalcChars) :
            a = <<"-">> /\ g = <<Gap>> /\ o = <<>> /\ Len(a) = 1 /\ Len(g) = 1 /\ Len(o) = 0
      <4>1. "-" \in CalcChars /\ Gap \in CalcChars
        BY CharSeqs DEF Operators
      <4> QED BY <4>1, CharSeqs
    <3>6. k + 1 = n /\ 1 + k = n /\ n + 0 = n /\ 0 + k = k
      BY <1>0, <3>1
    <3>7. a \o w \in Seq(CalcChars) /\ Len(a \o w) = n
      BY <3>3, <3>5, <3>6, CharsJoined
    <3>8. g \o w \in Seq(CalcChars) /\ Len(g \o w) = n
      BY <3>3, <3>5, <3>6, CharsJoined
    <3>9. (g \o w) \o o \in Seq(CalcChars) /\ Len((g \o w) \o o) = n
      BY <3>5, <3>6, <3>8, CharsJoined
    <3>10. o \o w \in Seq(CalcChars) /\ Len(o \o w) = k
      BY <3>3, <3>5, <3>6, CharsJoined
    <3>11. (o \o w) \o g \in Seq(CalcChars) /\ Len((o \o w) \o g) = n
      BY <3>5, <3>6, <3>10, CharsJoined
    <3>12. PICK b \in Means : b = Applied("-", Value(0), m)
      <4>1. 0 \in Longs /\ "-" \in Operators
        BY CalcFacts DEF Longs, Operators
      <4>2. Value(0) \in Means
        BY <4>1 DEF Means
      <4>3. Applied("-", Value(0), m) \in Means
        BY <4>1, <4>2, AppliedMeans
      <4> QED BY <4>3
    <3>13. z = <<a \o w, b>> \/ z = <<(g \o w) \o o, m>> \/ z = <<(o \o w) \o g, m>>
      BY <2>3, <3>4, <3>5, <3>12
    <3>14. PICK p \in Seq(CalcChars), q \in Seq(CalcChars), r \in Seq(CalcChars) :
             p = a \o w /\ q = (g \o w) \o o /\ r = (o \o w) \o g /\ Len(p) = n /\ Len(q) = n /\ Len(r) = n
      BY <3>7, <3>9, <3>11
    <3>15. z = <<p, b>> \/ z = <<q, m>> \/ z = <<r, m>>
      BY <3>13, <3>14
    <3> QED BY <3>14, <3>15 DEF Form
  <2>4. ASSUME n > 2, NEW x \in Phrases[n - 2].expr, z = << <<"(">> \o x[1] \o <<")">>, x[2]>>
        PROVE  Form(n, z)
    <3>1. PICK k \in 1 .. CalcMax : k = n - 2
      BY <1>0, <2>4
    <3>2. Form(k, x)
      <4>1. k < n /\ x \in Phrases[k].expr
        BY <1>0, <2>4, <3>1
      <4> QED BY <4>1
    <3>3. PICK w \in Seq(CalcChars), m \in Means : x = <<w, m>> /\ Len(w) = k
      BY <3>2 DEF Form
    <3>4. x[1] = w /\ x[2] = m
      BY <3>3
    <3>5. PICK a \in Seq(CalcChars), b \in Seq(CalcChars) : a = <<"(">> /\ b = <<")">> /\ Len(a) = 1 /\ Len(b) = 1
      <4>1. "(" \in CalcChars /\ ")" \in CalcChars
        BY CharSeqs
      <4> QED BY <4>1, CharSeqs
    <3>6. a \o w \in Seq(CalcChars) /\ Len(a \o w) = 1 + k
      BY <3>3, <3>5, CharsJoined
    <3>7. (a \o w) \o b \in Seq(CalcChars) /\ Len((a \o w) \o b) = (1 + k) + 1
      BY <3>5, <3>6, CharsJoined
    <3>8. (1 + k) + 1 = n
      BY <1>0, <3>1
    <3>9. z = <<(a \o w) \o b, m>>
      BY <2>4, <3>4, <3>5
    <3> QED BY <3>7, <3>8, <3>9 DEF Form
  <2> QED BY <2>1, <2>2, <2>3, <2>4 DEF SomeFactor
<1>2. ASSUME NEW z, NEW k \in 1 .. n - 2, NEW x, NEW y, Form(k, x), Form(n - 1 - k, y), NEW op \in Operators,
             z = <<x[1] \o <<op>> \o y[1], Applied(op, x[2], y[2])>>
      PROVE  Form(n, z)
  <2>1. PICK w \in Seq(CalcChars), m \in Means : x = <<w, m>> /\ Len(w) = k
    BY <1>2 DEF Form
  <2>2. PICK u \in Seq(CalcChars), l \in Means : y = <<u, l>> /\ Len(u) = n - 1 - k
    BY <1>2 DEF Form
  <2>3. x[1] = w /\ x[2] = m /\ y[1] = u /\ y[2] = l
    BY <2>1, <2>2
  <2>4. PICK o \in Seq(CalcChars) : o = <<op>> /\ Len(o) = 1
    <3>1. op \in CalcChars
      BY CharSeqs
    <3> QED BY <3>1, CharSeqs
  <2>5. w \o o \in Seq(CalcChars) /\ Len(w \o o) = k + 1
    BY <2>1, <2>4, CharsJoined
  <2>55. PICK h : h = n - 1 - k
    OBVIOUS
  <2>6. (w \o o) \o u \in Seq(CalcChars) /\ Len((w \o o) \o u) = (k + 1) + h
    BY <2>2, <2>5, <2>55, CharsJoined
  <2>7. (k + 1) + h = n
    BY <1>0, <2>55
  <2>8. PICK b \in Means : b = Applied(op, m, l)
    BY AppliedMeans
  <2>9. z = <<(w \o o) \o u, b>>
    BY <1>2, <2>3, <2>4, <2>8
  <2> QED BY <2>6, <2>7, <2>9 DEF Form
<1>3. \A k \in 1 .. n - 2 : k \in 1 .. CalcMax /\ k < n /\ n - 1 - k \in 1 .. CalcMax /\ n - 1 - k < n
  BY <1>0
<1>4. ASSUME NEW z, z \in Phrases[n].term PROVE Form(n, z)
  <2>1. CASE Pairs(n, "term", "factor", {"*", "/", "%"}, z)
    <3>1. PICK k \in 1 .. n - 2 : \E x \in Phrases[k].term, y \in Phrases[n - 1 - k].factor, op \in {"*", "/", "%"} :
            z = <<x[1] \o <<op>> \o y[1], Applied(op, x[2], y[2])>>
      BY <2>1, Zenon DEF Pairs
    <3>2. PICK x \in Phrases[k].term, y \in Phrases[n - 1 - k].factor, op \in {"*", "/", "%"} :
            z = <<x[1] \o <<op>> \o y[1], Applied(op, x[2], y[2])>>
      BY <3>1
    <3>3. op \in Operators
      BY DEF Operators
    <3>4. Form(k, x) /\ Form(n - 1 - k, y)
      BY <1>3
    <3> QED BY <1>2, <3>2, <3>3, <3>4
  <2> QED BY <1>1, <1>4, <2>1, PhraseIs
<1>5. ASSUME NEW z, z \in Phrases[n].expr PROVE Form(n, z)
  <2>1. CASE Pairs(n, "expr", "term", {"+", "-"}, z)
    <3>1. PICK k \in 1 .. n - 2 : \E x \in Phrases[k].expr, y \in Phrases[n - 1 - k].term, op \in {"+", "-"} :
            z = <<x[1] \o <<op>> \o y[1], Applied(op, x[2], y[2])>>
      BY <2>1, Zenon DEF Pairs
    <3>2. PICK x \in Phrases[k].expr, y \in Phrases[n - 1 - k].term, op \in {"+", "-"} :
            z = <<x[1] \o <<op>> \o y[1], Applied(op, x[2], y[2])>>
      BY <3>1
    <3>3. op \in Operators
      BY DEF Operators
    <3>4. Form(k, x) /\ Form(n - 1 - k, y)
      BY <1>3
    <3> QED BY <1>2, <3>2, <3>3, <3>4
  <2> QED BY <1>4, <1>5, <2>1, PhraseIs
<1> QED BY <1>1, <1>4, <1>5

\* Every phrase is a text of its length, with a meaning.
LEMMA PhraseForm ==
  ASSUME NEW n \in 1 .. CalcMax, NEW z, z \in Phrases[n].factor \/ z \in Phrases[n].term \/ z \in Phrases[n].expr
  PROVE  Form(n, z)
<1> DEFINE F(k) == \A y : y \in Phrases[k].factor \/ y \in Phrases[k].term \/ y \in Phrases[k].expr => Form(k, y)
           T == {j \in Nat : \A k \in 1 .. CalcMax : k < j => F(k)}
<1>0. CalcMax \in Nat
  BY CalcFacts
<1>1. 0 \in T
  BY <1>0
<1>2. ASSUME NEW j \in Nat, j \in T PROVE j + 1 \in T
  <2> SUFFICES ASSUME NEW k \in 1 .. CalcMax, k < j + 1 PROVE F(k)
    OBVIOUS
  <2>1. \A i \in 1 .. CalcMax : i < k => F(i)
    <3> SUFFICES ASSUME NEW i \in 1 .. CalcMax, i < k PROVE F(i)
      OBVIOUS
    <3>1. i < j
      BY <1>0
    <3> HIDE DEF F
    <3> QED BY <1>2, <3>1
  <2> QED BY <2>1, FormStep
<1>3. Nat \subseteq T
  <2> HIDE DEF T
  <2> QED BY <1>1, <1>2, InductionOnSet
<1>4. n + 1 \in T /\ n < n + 1
  BY <1>0, <1>3
<1>5. F(n)
  <2> HIDE DEF F
  <2> QED BY <1>4
<1> QED BY <1>5

\* The characters of a text behind i, up to j.
Span(text, i, j) == [k \in 1 .. j - i |-> text[i + k]]

\* The part of a text, character by character.
LEMMA SpanIs ==
  ASSUME NEW text \in Seq(CalcChars), NEW i \in 0 .. Len(text), NEW j \in i .. Len(text)
  PROVE  /\ Span(text, i, j) \in Seq(CalcChars) /\ Len(Span(text, i, j)) = j - i
         /\ \A k \in 1 .. j - i : Span(text, i, j)[k] = text[i + k]
<1>1. PICK L \in Nat : L = Len(text)
  OBVIOUS
<1>2. i \in Nat /\ j \in Nat /\ i <= j /\ j <= L /\ \A k \in 1 .. L : text[k] \in CalcChars
  BY <1>1
<1>3. PICK n \in Nat : n = j - i
  BY <1>2
<1>4. \A k \in 1 .. n : i + k \in 1 .. L
  BY <1>2, <1>3
<1>5. PICK w : w = Span(text, i, j)
  OBVIOUS
<1>6. w = [k \in 1 .. n |-> text[i + k]]
  BY <1>3, <1>5 DEF Span
<1>7. w \in [1 .. n -> CalcChars]
  BY <1>2, <1>4, <1>6
<1>8. w \in Seq(CalcChars) /\ Len(w) = n
  BY <1>7
<1>9. \A k \in 1 .. n : w[k] = text[i + k]
  BY <1>6
<1> QED BY <1>3, <1>5, <1>8, <1>9

\* Texts with the same characters are the same.
LEMMA SameChars ==
  ASSUME NEW p \in Seq(CalcChars), NEW q \in Seq(CalcChars), Len(p) = Len(q), \A k \in 1 .. Len(p) : p[k] = q[k]
  PROVE  p = q
BY SeqEqual

\* Two parts of a text, one behind the other.
LEMMA SpanJoin ==
  ASSUME NEW text \in Seq(CalcChars), NEW i \in 0 .. Len(text), NEW k \in i .. Len(text), NEW j \in k .. Len(text)
  PROVE  Span(text, i, k) \o Span(text, k, j) = Span(text, i, j)
<1>1. PICK L \in Nat : L = Len(text)
  OBVIOUS
<1>2. i \in Nat /\ j \in Nat /\ k \in Nat /\ i <= k /\ k <= j /\ j <= L /\ k \in 0 .. L /\ j \in i .. L
  BY <1>1
<1>3. PICK p \in Seq(CalcChars), q \in Seq(CalcChars), w \in Seq(CalcChars) :
        p = Span(text, i, k) /\ q = Span(text, k, j) /\ w = Span(text, i, j)
  BY <1>1, <1>2, SpanIs
<1>4. PICK a \in Nat, b \in Nat : a = k - i /\ b = j - k
  BY <1>2
<1>5. Len(p) = a /\ Len(q) = b /\ Len(w) = j - i
  BY <1>1, <1>2, <1>3, <1>4, SpanIs
<1>6. j - i = a + b
  BY <1>2, <1>4
<1>7. p \o q \in Seq(CalcChars) /\ Len(p \o q) = a + b
       /\ \A m \in 1 .. a + b : (p \o q)[m] = IF m <= a THEN p[m] ELSE q[m - a]
  BY <1>5, ConcatProperties
<1>8. ASSUME NEW m \in 1 .. a + b PROVE (p \o q)[m] = w[m]
  <2>1. w[m] = text[i + m]
    BY <1>1, <1>2, <1>3, <1>6, SpanIs
  <2>2. CASE m <= a
    <3>1. m \in 1 .. k - i
      BY <1>4, <2>2
    <3>2. p[m] = text[i + m]
      BY <1>1, <1>2, <1>3, <3>1, SpanIs
    <3> QED BY <1>7, <2>1, <2>2, <3>2
  <2>3. CASE ~(m <= a)
    <3>1. PICK h \in 1 .. j - k : h = m - a
      BY <1>4, <2>3
    <3>3. q[h] = text[k + h]
      BY <1>1, <1>2, <1>3, <3>1, SpanIs
    <3>4. k + h = i + m
      BY <1>2, <1>4, <3>1
    <3>2. q[h] = text[i + m]
      BY <3>3, <3>4
    <3> QED BY <1>7, <2>1, <2>3, <3>1, <3>2
  <2> QED BY <2>2, <2>3
<1>9. PICK x \in Seq(CalcChars) : x = p \o q
  BY <1>7
<1>10. x = w
  BY <1>5, <1>6, <1>7, <1>8, <1>9, SameChars
<1> QED BY <1>3, <1>9, <1>10

\* And apart again: the texts p and q are what is written behind i, up to j.
Splits(text, i, j, p, q) ==
  \E k \in i .. j : k - i = Len(p) /\ j - k = Len(q) /\ p = Span(text, i, k) /\ q = Span(text, k, j)

\* A part of the text that is p and q joined has p and q in it.
LEMMA SpanSplit ==
  ASSUME NEW text \in Seq(CalcChars), NEW i \in 0 .. Len(text), NEW j \in i .. Len(text),
         NEW p \in Seq(CalcChars), NEW q \in Seq(CalcChars), Span(text, i, j) = p \o q
  PROVE  Splits(text, i, j, p, q)
<1>1. PICK L \in Nat : L = Len(text)
  OBVIOUS
<1>2. PICK a \in Nat, b \in Nat : a = Len(p) /\ b = Len(q)
  OBVIOUS
<1>3. PICK w \in Seq(CalcChars) : w = Span(text, i, j) /\ Len(w) = j - i
  BY SpanIs
<1>4. Len(w) = a + b /\ \A m \in 1 .. a + b : w[m] = IF m <= a THEN p[m] ELSE q[m - a]
  BY <1>2, <1>3, ConcatProperties
<1>5. i \in Nat /\ j \in Nat /\ i <= j /\ j <= L /\ j - i = a + b
  BY <1>1, <1>3, <1>4
<1>6. PICK k \in i .. j : k = i + a
  BY <1>5
<1>7. k \in i .. L /\ k \in 0 .. L /\ j \in k .. L /\ j - k = b /\ k - i = a
  BY <1>5, <1>6
<1>8. PICK x \in Seq(CalcChars), y \in Seq(CalcChars) : x = Span(text, i, k) /\ y = Span(text, k, j)
  BY <1>1, <1>7, SpanIs
<1>9. Len(x) = a /\ Len(y) = b
  BY <1>1, <1>7, <1>8, SpanIs
<1>10. ASSUME NEW m \in 1 .. a + b PROVE w[m] = text[i + m]
  <2>1. m \in 1 .. j - i
    BY <1>5
  <2> QED BY <1>3, <2>1, SpanIs
<1>11. ASSUME NEW m \in 1 .. a PROVE x[m] = p[m]
  <2>1. m \in 1 .. k - i /\ m \in 1 .. a + b /\ m <= a
    BY <1>7
  <2>2. x[m] = text[i + m]
    BY <1>1, <1>7, <1>8, <2>1, SpanIs
  <2> QED BY <1>4, <1>10, <2>1, <2>2
<1>12. ASSUME NEW m \in 1 .. b PROVE y[m] = q[m]
  <2>1. PICK h \in Nat : h = a + m
    OBVIOUS
  <2>2. m \in 1 .. j - k /\ h \in 1 .. a + b /\ ~(h <= a) /\ h - a = m /\ i + h = k + m
    BY <1>5, <1>6, <1>7, <2>1
  <2>3. y[m] = text[k + m]
    BY <1>1, <1>7, <1>8, <2>2, SpanIs
  <2> QED BY <1>4, <1>10, <2>2, <2>3
<1>13. x = p
  BY <1>2, <1>9, <1>11, SameChars
<1>14. y = q
  BY <1>2, <1>9, <1>12, SameChars
<1> QED BY <1>2, <1>6, <1>7, <1>8, <1>13, <1>14 DEF Splits

\* One character.
LEMMA SpanOne ==
  ASSUME NEW text \in Seq(CalcChars), NEW i \in 0 .. Len(text), i < Len(text)
  PROVE  Span(text, i, i + 1) = <<text[i + 1]>>
<1>1. i \in Nat /\ i + 1 \in i .. Len(text) /\ (i + 1) - i = 1 /\ 1 \in 1 .. 1
  OBVIOUS
<1>2. PICK w \in Seq(CalcChars) : w = Span(text, i, i + 1)
  BY <1>1, SpanIs
<1>3. Len(w) = 1 /\ w[1] = text[i + 1]
  BY <1>1, <1>2, SpanIs
<1>4. PICK c \in CalcChars : c = text[i + 1]
  <2>1. i + 1 \in 1 .. Len(text)
    BY <1>1
  <2> QED BY <2>1
<1>5. PICK x \in Seq(CalcChars) : x = <<c>> /\ Len(x) = 1 /\ x[1] = c
  BY CharSeqs
<1>6. w = x
  <2>1. \A k \in 1 .. Len(w) : w[k] = x[k]
    BY <1>3, <1>4, <1>5
  <2> QED BY <1>3, <1>5, <2>1, SameChars
<1> QED BY <1>2, <1>4, <1>5, <1>6

\* The characters of the text from i to j are a phrase that means m.
Phrase(text, kind, i, j, m) == i < j /\ <<Span(text, i, j), m>> \in Phrases[j - i][kind]

\* Where a phrase is in a text of the calculator.
PartOf(text, i, j) ==
  text \in Seq(CalcChars) /\ Len(text) <= CalcMax /\ i \in 0 .. Len(text) /\ j \in i + 1 .. Len(text)

\* The bounds of such a part.
LEMMA PartIs ==
  ASSUME NEW text, NEW i, NEW j, PartOf(text, i, j)
  PROVE  /\ i \in Nat /\ j \in Nat /\ Len(text) \in Nat /\ CalcMax \in Nat /\ i < j /\ j <= Len(text)
         /\ i + 1 \in i .. Len(text) /\ i + 1 \in 0 .. Len(text) /\ i < Len(text) /\ j \in i .. Len(text)
         /\ j - 1 \in i .. Len(text) /\ j - 1 \in 0 .. Len(text) /\ j - i \in 1 .. CalcMax
         /\ i \in 0 .. Len(text) /\ text \in Seq(CalcChars) /\ Len(text) <= CalcMax
<1>1. PICK L \in Nat : L = Len(text)
  BY DEF PartOf
<1>2. i \in 0 .. L /\ j \in i + 1 .. L /\ L <= CalcMax /\ CalcMax \in Nat
  BY <1>1, CalcFacts DEF PartOf
<1>3. /\ i \in Nat /\ j \in Nat /\ CalcMax \in Nat /\ i < j /\ j <= L
      /\ i + 1 \in i .. L /\ i + 1 \in 0 .. L /\ i < L /\ j \in i .. L
      /\ j - 1 \in i .. L /\ j - 1 \in 0 .. L /\ j - i \in 1 .. CalcMax
  BY <1>2
<1> QED BY <1>1, <1>2, <1>3 DEF PartOf

\* The text of a phrase is what is written in the text.
LEMMA PhraseText ==
  ASSUME NEW n \in 1 .. CalcMax, NEW x, x \in Phrases[n].factor \/ x \in Phrases[n].term \/ x \in Phrases[n].expr
  PROVE  x = <<x[1], x[2]>> /\ x[1] \in Seq(CalcChars) /\ Len(x[1]) = n /\ x[2] \in Means
<1>1. PICK w \in Seq(CalcChars), m \in Means : x = <<w, m>> /\ Len(w) = n
  BY PhraseForm DEF Form
<1>2. x[1] = w /\ x[2] = m
  BY <1>1
<1> QED BY <1>1, <1>2

\* A character in front of a part of the text.
OneChar(c) == <<c>>
HeadIs(text, i, j, c, w) == text[i + 1] = c /\ w = Span(text, i + 1, j)
TailIs(text, i, j, c, w) == text[j] = c /\ w = Span(text, i, j - 1)

\* A part of the text with a character in front: the character is there, and
\* the rest is the part behind it.
LEMMA HeadSpan ==
  ASSUME NEW text, NEW i, NEW j, PartOf(text, i, j), NEW c \in CalcChars, NEW w \in Seq(CalcChars)
  PROVE  Span(text, i, j) = OneChar(c) \o w <=> HeadIs(text, i, j, c, w)
<1>1. /\ text \in Seq(CalcChars) /\ i \in 0 .. Len(text) /\ i + 1 \in i .. Len(text) /\ i + 1 \in 0 .. Len(text)
      /\ j \in i + 1 .. Len(text) /\ j \in i .. Len(text) /\ i < Len(text)
  BY PartIs DEF PartOf
<1>2. PICK o \in Seq(CalcChars) : o = <<c>> /\ Len(o) = 1 /\ o[1] = c
  BY CharSeqs
<1>3. Span(text, i, i + 1) = <<text[i + 1]>>
  BY <1>1, SpanOne
<1>4. ASSUME Span(text, i, j) = o \o w PROVE text[i + 1] = c /\ w = Span(text, i + 1, j)
  <2>4. Splits(text, i, j, o, w)
    BY <1>1, <1>4, SpanSplit
  <2>0. PICK k \in i .. j : k - i = 1 /\ o = Span(text, i, k) /\ w = Span(text, k, j)
    BY <1>2, <2>4 DEF Splits
  <2>3. k = i + 1
    BY <1>1, <2>0
  <2>1. o = Span(text, i, i + 1) /\ w = Span(text, i + 1, j)
    BY <2>0, <2>3
  <2>2. <<text[i + 1]>>[1] = text[i + 1]
    OBVIOUS
  <2> QED BY <1>2, <1>3, <2>1, <2>2
<1>5. ASSUME text[i + 1] = c, w = Span(text, i + 1, j) PROVE Span(text, i, j) = o \o w
  <2>1. o = Span(text, i, i + 1)
    BY <1>2, <1>3, <1>5
  <2>2. Span(text, i, i + 1) \o Span(text, i + 1, j) = Span(text, i, j)
    BY <1>1, SpanJoin
  <2> QED BY <1>5, <2>1, <2>2
<1> QED BY <1>2, <1>4, <1>5 DEF HeadIs, OneChar

\* And one behind it.
LEMMA TailSpan ==
  ASSUME NEW text, NEW i, NEW j, PartOf(text, i, j), NEW c \in CalcChars, NEW w \in Seq(CalcChars)
  PROVE  Span(text, i, j) = w \o OneChar(c) <=> TailIs(text, i, j, c, w)
<1>1. /\ text \in Seq(CalcChars) /\ i \in 0 .. Len(text) /\ j - 1 \in i .. Len(text) /\ j - 1 \in 0 .. Len(text)
      /\ j \in i .. Len(text) /\ j \in Nat /\ i \in Nat /\ Len(text) \in Nat /\ j <= Len(text)
  BY PartIs
<1>2. PICK o \in Seq(CalcChars) : o = <<c>> /\ Len(o) = 1 /\ o[1] = c
  BY CharSeqs
<1>25. PICK h \in 0 .. Len(text) : h = j - 1
  BY <1>1
<1>26. h < Len(text) /\ h + 1 = j /\ j \in h .. Len(text) /\ h \in i .. Len(text)
  BY <1>1, <1>25
<1>3. Span(text, h, j) = <<text[j]>>
  <2>1. Span(text, h, h + 1) = <<text[h + 1]>>
    BY <1>1, <1>26, SpanOne
  <2> QED BY <1>26, <2>1
<1>4. ASSUME Span(text, i, j) = w \o o PROVE text[j] = c /\ w = Span(text, i, h)
  <2>1. Splits(text, i, j, w, o)
    BY <1>1, <1>4, SpanSplit
  <2>2. PICK k \in i .. j : j - k = 1 /\ w = Span(text, i, k) /\ o = Span(text, k, j)
    BY <1>2, <2>1 DEF Splits
  <2>3. k = h
    BY <1>1, <1>25, <2>2
  <2>4. <<text[j]>>[1] = text[j]
    OBVIOUS
  <2> QED BY <1>2, <1>3, <2>2, <2>3, <2>4
<1>5. ASSUME text[j] = c, w = Span(text, i, h) PROVE Span(text, i, j) = w \o o
  <2>1. o = Span(text, h, j)
    BY <1>2, <1>3, <1>5
  <2>2. Span(text, i, h) \o Span(text, h, j) = Span(text, i, j)
    BY <1>1, <1>26, SpanJoin
  <2> QED BY <1>5, <2>1, <2>2
<1> QED BY <1>2, <1>25, <1>4, <1>5 DEF TailIs, OneChar

PhraseKinds == {"factor", "term", "expr"}

\* The same for a phrase of any kind.
LEMMA KindText ==
  ASSUME NEW n \in 1 .. CalcMax, NEW kind \in PhraseKinds, NEW x \in Phrases[n][kind]
  PROVE  x = <<x[1], x[2]>> /\ x[1] \in Seq(CalcChars) /\ Len(x[1]) = n /\ x[2] \in Means
<1>1. x \in Phrases[n].factor \/ x \in Phrases[n].term \/ x \in Phrases[n].expr
  BY DEF PhraseKinds
<1> QED BY <1>1, PhraseText

\* A phrase has a meaning.
LEMMA PhraseMeans ==
  ASSUME NEW text, NEW i, NEW j, PartOf(text, i, j), NEW kind \in PhraseKinds, NEW m, Phrase(text, kind, i, j, m)
  PROVE  m \in Means
<1>1. j - i \in 1 .. CalcMax
  BY PartIs
<1>2. PICK x : x = <<Span(text, i, j), m>>
  OBVIOUS
<1>3. x \in Phrases[j - i][kind] /\ x[2] = m
  BY <1>2 DEF Phrase
<1> QED BY <1>1, <1>3, KindText

\* Two phrases with an operator between them, in a text.
PairIn(text, i, j, lefts, rights, ops, m) ==
  \E k \in i + 1 .. j - 2 : \E x \in Means, y \in Means :
    /\ text[k + 1] \in ops /\ m = Applied(text[k + 1], x, y)
    /\ Phrase(text, lefts, i, k, x) /\ Phrase(text, rights, k + 1, j, y)

\* The pairs of the grammar are the pairs that are written in the text.
LEMMA PairSpan ==
  ASSUME NEW text, NEW i, NEW j, PartOf(text, i, j), NEW lefts \in PhraseKinds, NEW rights \in PhraseKinds,
         NEW ops, ops \subseteq Operators, NEW m
  PROVE  Pairs(j - i, lefts, rights, ops, <<Span(text, i, j), m>>) <=> PairIn(text, i, j, lefts, rights, ops, m)
<1>1. /\ i \in Nat /\ j \in Nat /\ Len(text) \in Nat /\ CalcMax \in Nat /\ i < j /\ j <= Len(text)
      /\ text \in Seq(CalcChars) /\ Len(text) <= CalcMax /\ i \in 0 .. Len(text) /\ j \in i .. Len(text)
  BY PartIs
<1>2. PICK n \in 1 .. CalcMax : n = j - i
  BY PartIs
<1>3. PICK w \in Seq(CalcChars) : w = Span(text, i, j)
  BY <1>1, SpanIs
<1>4. ASSUME Pairs(n, lefts, rights, ops, <<w, m>>) PROVE PairIn(text, i, j, lefts, rights, ops, m)
  <2>1. PICK a \in 1 .. n - 2 : \E x \in Phrases[a][lefts], y \in Phrases[n - 1 - a][rights], op \in ops :
          <<w, m>> = <<x[1] \o <<op>> \o y[1], Applied(op, x[2], y[2])>>
    BY <1>4, Zenon DEF Pairs
  <2>2. PICK x \in Phrases[a][lefts], y \in Phrases[n - 1 - a][rights], op \in ops :
          <<w, m>> = <<x[1] \o <<op>> \o y[1], Applied(op, x[2], y[2])>>
    BY <2>1
  <2>3. PICK b \in 1 .. CalcMax : b = n - 1 - a
    BY <1>1
  <2>4. a \in 1 .. CalcMax
    BY <1>1
  <2>5. PICK p \in Seq(CalcChars), u \in Means : x = <<p, u>> /\ Len(p) = a /\ x[1] = p /\ x[2] = u
    BY <2>4, KindText
  <2>6. PICK q \in Seq(CalcChars), v \in Means : y = <<q, v>> /\ Len(q) = b /\ y[1] = q /\ y[2] = v
    <3>1. y \in Phrases[b][rights]
      BY <2>3
    <3> QED BY <3>1, KindText
  <2>7. op \in Operators /\ op \in CalcChars
    BY CharSeqs
  <2>8. PICK o \in Seq(CalcChars) : o = <<op>> /\ Len(o) = 1
    BY <2>7, CharSeqs
  <2>9. w = (p \o o) \o q /\ m = Applied(op, u, v)
    BY <2>2, <2>5, <2>6, <2>8
  <2>10. PICK r \in Seq(CalcChars) : r = p \o o /\ Len(r) = a + 1
    BY <2>5, <2>8, CharsJoined
  <2>11. Splits(text, i, j, r, q)
    BY <1>1, <1>3, <2>9, <2>10, SpanSplit
  <2>12. PICK l \in i .. j : l - i = a + 1 /\ j - l = b /\ r = Span(text, i, l) /\ q = Span(text, l, j)
    BY <2>6, <2>10, <2>11 DEF Splits
  <2>13. PICK k \in i + 1 .. j - 2 : l = k + 1 /\ k - i = a /\ k = l - 1
    BY <1>1, <1>2, <2>3, <2>12
  <2>14. PartOf(text, i, l)
    BY <1>1, <2>12, <2>13 DEF PartOf
  <2>145. Span(text, i, l) = p \o OneChar(op)
    BY <2>8, <2>10, <2>12 DEF OneChar
  <2>146. TailIs(text, i, l, op, p)
    BY <2>7, <2>14, <2>145, TailSpan
  <2>15. text[l] = op /\ p = Span(text, i, l - 1)
    BY <2>146 DEF TailIs
  <2>16. p = Span(text, i, k) /\ text[k + 1] = op
    BY <2>13, <2>15
  <2>17. Phrase(text, lefts, i, k, u)
    <3>1. <<p, u>> \in Phrases[k - i][lefts]
      BY <2>5, <2>13
    <3>2. i < k
      BY <1>1
    <3> QED BY <2>16, <3>1, <3>2 DEF Phrase
  <2>18. Phrase(text, rights, k + 1, j, v)
    <3>1. j - (k + 1) = b
      BY <2>12, <2>13
    <3>2. <<q, v>> \in Phrases[j - (k + 1)][rights]
      BY <2>3, <2>6, <3>1
    <3>3. k + 1 < j
      BY <1>1
    <3> QED BY <2>12, <2>13, <3>2, <3>3 DEF Phrase
  <2>19. text[k + 1] \in ops /\ m = Applied(text[k + 1], u, v)
    BY <2>9, <2>16
  <2> QED BY <2>17, <2>18, <2>19 DEF PairIn
<1>5. ASSUME PairIn(text, i, j, lefts, rights, ops, m) PROVE Pairs(n, lefts, rights, ops, <<w, m>>)
  <2>1. PICK k \in i + 1 .. j - 2 : \E u \in Means, v \in Means :
          /\ text[k + 1] \in ops /\ m = Applied(text[k + 1], u, v)
          /\ Phrase(text, lefts, i, k, u) /\ Phrase(text, rights, k + 1, j, v)
    BY <1>5 DEF PairIn
  <2>2. PICK u \in Means, v \in Means :
          /\ text[k + 1] \in ops /\ m = Applied(text[k + 1], u, v)
          /\ Phrase(text, lefts, i, k, u) /\ Phrase(text, rights, k + 1, j, v)
    BY <2>1
  <2>3. PICK a \in 1 .. n - 2 : a = k - i
    BY <1>1, <1>2
  <2>4. n - 1 - a = j - (k + 1)
    BY <1>1, <1>2, <2>3
  <2>5. PICK op \in ops : op = text[k + 1]
    BY <2>2
  <2>6. PICK p, q : p = Span(text, i, k) /\ q = Span(text, k + 1, j)
    OBVIOUS
  <2>7. PICK x, y : x = <<p, u>> /\ y = <<q, v>>
    OBVIOUS
  <2>8. x \in Phrases[a][lefts] /\ y \in Phrases[n - 1 - a][rights]
    BY <2>2, <2>3, <2>4, <2>6, <2>7 DEF Phrase
  <2>9. x[1] = p /\ x[2] = u /\ y[1] = q /\ y[2] = v
    BY <2>7
  <2>10. w = (p \o <<op>>) \o q
    <3>1. k \in i .. Len(text) /\ k \in 0 .. Len(text) /\ k < Len(text) /\ k + 1 \in k .. Len(text) /\ k + 1 \in i .. Len(text)
            /\ j \in k + 1 .. Len(text)
      BY <1>1
    <3>2. Span(text, k, k + 1) = <<op>>
      BY <1>1, <2>5, <3>1, SpanOne
    <3>3. Span(text, i, k) \o Span(text, k, k + 1) = Span(text, i, k + 1)
      BY <1>1, <3>1, SpanJoin
    <3>4. PICK l : l = k + 1
      OBVIOUS
    <3>5. Span(text, i, l) \o Span(text, l, j) = Span(text, i, j)
      BY <1>1, <3>1, <3>4, SpanJoin
    <3> QED BY <1>3, <2>6, <3>2, <3>3, <3>4, <3>5
  <2>11. <<w, m>> = <<x[1] \o <<op>> \o y[1], Applied(op, x[2], y[2])>>
    BY <2>2, <2>5, <2>9, <2>10
  <2>12. \E xx \in Phrases[a][lefts], yy \in Phrases[n - 1 - a][rights], oo \in ops :
           <<w, m>> = <<xx[1] \o <<oo>> \o yy[1], Applied(oo, xx[2], yy[2])>>
    BY <2>8, <2>11, Zenon
  <2> QED BY <2>12, Zenon DEF Pairs
<1> QED BY <1>2, <1>3, <1>4, <1>5

\* What is written in the text is a character in front of w, or one behind it.
HeadJoined(text, i, j, c, w) == Span(text, i, j) = OneChar(c) \o w
TailJoined(text, i, j, c, w) == Span(text, i, j) = w \o OneChar(c)

\* A character and a part of the text next to it are a part of the text.
LEMMA EndsJoined ==
  ASSUME NEW text, NEW i, NEW j, PartOf(text, i, j), NEW c \in CalcChars, NEW w \in Seq(CalcChars)
  PROVE  /\ HeadIs(text, i, j, c, w) => HeadJoined(text, i, j, c, w)
         /\ TailIs(text, i, j, c, w) => TailJoined(text, i, j, c, w)
BY HeadSpan, TailSpan DEF HeadJoined, TailJoined

\* The forms that a factor has in a text.
FactorIn(text, i, j, m) ==
  \/ (\A k \in i + 1 .. j : text[k] \in Range(Digits)) /\ m = Exact(Number(Span(text, i, j)))
  \/ text[i + 1] = "-" /\ \E x \in Means : Phrase(text, "factor", i + 1, j, x) /\ m = Applied("-", Value(0), x)
  \/ text[i + 1] = "(" /\ text[j] = ")" /\ Phrase(text, "expr", i + 1, j - 1, m)
  \/ text[i + 1] = Gap /\ Phrase(text, "factor", i + 1, j, m)
  \/ text[j] = Gap /\ Phrase(text, "factor", i, j - 1, m)

\* Every factor of the grammar that is written in the text has one of them.
LEMMA FactorForward ==
  ASSUME NEW text, NEW i, NEW j, PartOf(text, i, j), NEW m, Phrase(text, "factor", i, j, m)
  PROVE  FactorIn(text, i, j, m)
<1>1. /\ i \in Nat /\ j \in Nat /\ Len(text) \in Nat /\ CalcMax \in Nat /\ i < j /\ j <= Len(text)
      /\ text \in Seq(CalcChars) /\ Len(text) <= CalcMax /\ i \in 0 .. Len(text) /\ j \in i .. Len(text)
  BY PartIs
<1>2. PICK n \in 1 .. CalcMax : n = j - i
  BY PartIs
<1>3. PICK w \in Seq(CalcChars) : w = Span(text, i, j)
  BY <1>1, SpanIs
<1>4. PICK z : z = <<w, m>>
  OBVIOUS
<1>5. SomeFactor(n, z) /\ z[1] = w /\ z[2] = m
  <2>1. z \in Phrases[n].factor
    BY <1>2, <1>3, <1>4 DEF Phrase
  <2> QED BY <1>4, <2>1, PhraseIs
<1>6. "-" \in CalcChars /\ Gap \in CalcChars /\ "(" \in CalcChars /\ ")" \in CalcChars
  BY CharSeqs DEF Operators
<1>7. CASE \E ds \in [1 .. n -> Range(Digits)] : z = <<ds, Exact(Number(ds))>>
  <2>1. PICK ds \in [1 .. n -> Range(Digits)] : z = <<ds, Exact(Number(ds))>>
    BY <1>7
  <2>2. w = ds /\ m = Exact(Number(w))
    BY <1>4, <2>1
  <2>3. ASSUME NEW k \in i + 1 .. j PROVE text[k] \in Range(Digits)
    <3>1. PICK h \in 1 .. n : k = i + h
      <4>1. k - i \in 1 .. n /\ k = i + (k - i)
        BY <1>1, <1>2
      <4> QED BY <4>1
    <3>2. w[h] = text[i + h]
      BY <1>1, <1>2, <1>3, SpanIs
    <3>3. ds[h] \in Range(Digits)
      OBVIOUS
    <3> QED BY <2>2, <3>1, <3>2, <3>3
  <2> QED BY <1>3, <2>2, <2>3 DEF FactorIn
<1>8. ASSUME n > 1, NEW x \in Phrases[n - 1].factor,
             \/ z = << <<"-">> \o x[1], Applied("-", Value(0), x[2])>>
             \/ z = << <<Gap>> \o x[1] \o <<>>, x[2]>>
             \/ z = << <<>> \o x[1] \o <<Gap>>, x[2]>>
      PROVE  FactorIn(text, i, j, m)
  <2>1. PICK k \in 1 .. CalcMax : k = n - 1
    BY <1>1, <1>8
  <2>2. PICK p \in Seq(CalcChars), u \in Means : x = <<p, u>> /\ Len(p) = k /\ x[1] = p /\ x[2] = u
    <3>1. x \in Phrases[k].factor
      BY <2>1
    <3> QED BY <3>1, PhraseText
  <2>3. i + 1 < j /\ j - (i + 1) = k /\ i < j - 1 /\ (j - 1) - i = k
    BY <1>1, <1>2, <1>8, <2>1
  <2>4. ASSUME p = Span(text, i + 1, j) PROVE Phrase(text, "factor", i + 1, j, u)
    BY <2>1, <2>2, <2>3, <2>4 DEF Phrase
  <2>5. ASSUME p = Span(text, i, j - 1) PROVE Phrase(text, "factor", i, j - 1, u)
    BY <2>1, <2>2, <2>3, <2>5 DEF Phrase
  <2>6. CASE z = << <<"-">> \o x[1], Applied("-", Value(0), x[2])>>
    <3>1. Span(text, i, j) = OneChar("-") \o p /\ m = Applied("-", Value(0), u)
      BY <1>3, <1>4, <2>2, <2>6 DEF OneChar
    <3>92. HeadIs(text, i, j, "-", p)
      BY <1>6, <3>1, HeadSpan
    <3>2. text[i + 1] = "-" /\ p = Span(text, i + 1, j)
      BY <3>92 DEF HeadIs
    <3> QED BY <2>4, <3>1, <3>2 DEF FactorIn
  <2>7. CASE z = << <<Gap>> \o x[1] \o <<>>, x[2]>>
    <3>1. PICK g \in Seq(CalcChars) : g = <<Gap>>
      BY <1>6, CharSeqs
    <3>2. PICK r \in Seq(CalcChars) : r = g \o p
      BY CharsJoined
    <3>3. r \o <<>> = r
      BY ConcatEmptySeq
    <3>4. w = r \o <<>> /\ m = u
      BY <1>4, <2>2, <2>7, <3>1, <3>2
    <3>5. Span(text, i, j) = OneChar(Gap) \o p
      BY <1>3, <3>1, <3>2, <3>3, <3>4 DEF OneChar
    <3>96. HeadIs(text, i, j, Gap, p)
      BY <1>6, <3>5, HeadSpan
    <3>6. text[i + 1] = Gap /\ p = Span(text, i + 1, j)
      BY <3>96 DEF HeadIs
    <3> QED BY <2>4, <3>4, <3>6 DEF FactorIn
  <2>8. CASE z = << <<>> \o x[1] \o <<Gap>>, x[2]>>
    <3>1. PICK e : e = <<>> /\ e \o p = p
      BY ConcatEmptySeq
    <3>4. PICK g : g = <<Gap>>
      OBVIOUS
    <3>5. z = <<(e \o p) \o g, u>>
      BY <2>2, <2>8, <3>1, <3>4
    <3>6. w = (e \o p) \o g /\ m = u
      BY <1>4, <3>5
    <3>2. Span(text, i, j) = p \o OneChar(Gap) /\ m = u
      BY <1>3, <3>1, <3>4, <3>6 DEF OneChar
    <3>93. TailIs(text, i, j, Gap, p)
      BY <1>6, <3>2, TailSpan
    <3>3. text[j] = Gap /\ p = Span(text, i, j - 1)
      BY <3>93, <2>3 DEF TailIs
    <3> QED BY <2>5, <3>2, <3>3 DEF FactorIn
  <2> QED BY <1>8, <2>6, <2>7, <2>8
<1>9. ASSUME n > 2, NEW x \in Phrases[n - 2].expr, z = << <<"(">> \o x[1] \o <<")">>, x[2]>>
      PROVE  FactorIn(text, i, j, m)
  <2>1. PICK k \in 1 .. CalcMax : k = n - 2
    BY <1>1, <1>9
  <2>2. PICK p \in Seq(CalcChars), u \in Means : x = <<p, u>> /\ Len(p) = k /\ x[1] = p /\ x[2] = u
    <3>1. x \in Phrases[k].expr
      BY <2>1
    <3> QED BY <3>1, PhraseText
  <2>3. PICK h : h = j - 1
    OBVIOUS
  <2>4. PartOf(text, i, h) /\ i + 1 < h /\ h - (i + 1) = k
    <3>1. h \in i + 1 .. Len(text) /\ i + 1 < h /\ h - (i + 1) = k
      BY <1>1, <1>2, <1>9, <2>1, <2>3
    <3> QED BY <1>1, <3>1 DEF PartOf
  <2>5. PICK a \in Seq(CalcChars) : a = <<"(">>
    BY <1>6, CharSeqs
  <2>6. PICK r \in Seq(CalcChars) : r = a \o p
    BY CharsJoined
  <2>7. Span(text, i, j) = r \o OneChar(")") /\ m = u
    BY <1>3, <1>4, <1>9, <2>2, <2>5, <2>6 DEF OneChar
  <2>98. TailIs(text, i, j, ")", r)
    BY <1>6, <2>3, <2>7, TailSpan
  <2>8. text[j] = ")" /\ r = Span(text, i, h)
    BY <2>98, <2>3 DEF TailIs
  <2>9. Span(text, i, h) = OneChar("(") \o p
    BY <2>5, <2>6, <2>8 DEF OneChar
  <2>910. HeadIs(text, i, h, "(", p)
    BY <1>6, <2>4, <2>9, HeadSpan
  <2>10. text[i + 1] = "(" /\ p = Span(text, i + 1, h)
    BY <2>910 DEF HeadIs
  <2>11. Phrase(text, "expr", i + 1, h, m)
    BY <2>1, <2>2, <2>4, <2>7, <2>10 DEF Phrase
  <2> QED BY <2>3, <2>8, <2>10, <2>11 DEF FactorIn
<1> QED BY <1>5, <1>7, <1>8, <1>9 DEF SomeFactor

\* And everything in the text that has one of these forms is a factor.
LEMMA FactorBack ==
  ASSUME NEW text, NEW i, NEW j, PartOf(text, i, j), NEW m, FactorIn(text, i, j, m)
  PROVE  Phrase(text, "factor", i, j, m)
<1>1. /\ i \in Nat /\ j \in Nat /\ Len(text) \in Nat /\ CalcMax \in Nat /\ i < j /\ j <= Len(text)
      /\ text \in Seq(CalcChars) /\ Len(text) <= CalcMax /\ i \in 0 .. Len(text) /\ j \in i .. Len(text)
      /\ i + 1 \in i .. Len(text) /\ i + 1 \in 0 .. Len(text) /\ j - 1 \in i .. Len(text)
  BY PartIs
<1>2. PICK n \in 1 .. CalcMax : n = j - i
  BY PartIs
<1>3. PICK w \in Seq(CalcChars) : w = Span(text, i, j)
  BY <1>1, SpanIs
<1>4. PICK z : z = <<w, m>>
  OBVIOUS
<1>5. SUFFICES SomeFactor(n, z)
  <2>1. SomeFactor(n, z) => z \in Phrases[n].factor
    BY PhraseIs
  <2> QED BY <1>1, <1>2, <1>3, <1>4, <2>1 DEF Phrase
<1>6. "-" \in CalcChars /\ Gap \in CalcChars /\ "(" \in CalcChars /\ ")" \in CalcChars
  BY CharSeqs DEF Operators
<1>7. CASE (\A k \in i + 1 .. j : text[k] \in Range(Digits)) /\ m = Exact(Number(Span(text, i, j)))
  <2>1. Len(w) = n /\ \A h \in 1 .. n : w[h] = text[i + h]
    BY <1>1, <1>2, <1>3, SpanIs
  <2>2. \A h \in 1 .. n : i + h \in i + 1 .. j
    BY <1>1, <1>2
  <2>3. \A h \in 1 .. n : w[h] \in Range(Digits)
    BY <1>7, <2>1, <2>2
  <2>4. w \in [1 .. n -> Range(Digits)]
    BY <2>1, <2>3
  <2>5. z = <<w, Exact(Number(w))>>
    BY <1>3, <1>4, <1>7
  <2> QED BY <2>4, <2>5 DEF SomeFactor
<1>8. ASSUME text[i + 1] = "-", NEW u \in Means, Phrase(text, "factor", i + 1, j, u), m = Applied("-", Value(0), u)
      PROVE  SomeFactor(n, z)
  <2>1. PICK x : x = <<Span(text, i + 1, j), u>>
    OBVIOUS
  <2>2. n > 1 /\ x \in Phrases[n - 1].factor
    <3>1. i + 1 < j /\ x \in Phrases[j - (i + 1)].factor
      BY <1>8, <2>1 DEF Phrase
    <3>2. j - (i + 1) = n - 1 /\ n > 1
      BY <1>1, <1>2, <3>1
    <3> QED BY <3>1, <3>2
  <2>3. PICK p \in Seq(CalcChars) : p = Span(text, i + 1, j)
    <3>1. i + 1 < j
      BY <1>8 DEF Phrase
    <3>2. j \in i + 1 .. Len(text)
      BY <1>1, <3>1
    <3> QED BY <1>1, <3>2, SpanIs
  <2>94. HeadIs(text, i, j, "-", p)
    BY <1>3, <1>6, <1>8, <2>3 DEF HeadIs
  <2>84. Span(text, i, j) = OneChar("-") \o p
    <3>1. HeadJoined(text, i, j, "-", p)
      BY <1>6, <2>94, EndsJoined
    <3> QED BY <3>1 DEF HeadJoined
  <2>4. w = <<"-">> \o p
    BY <1>3, <1>6, <1>8, <2>3, <2>84 DEF OneChar
  <2>5. z = << <<"-">> \o x[1], Applied("-", Value(0), x[2])>>
    BY <1>4, <1>8, <2>1, <2>3, <2>4
  <2> QED BY <2>2, <2>5 DEF SomeFactor
<1>9. ASSUME text[i + 1] = Gap, Phrase(text, "factor", i + 1, j, m)
      PROVE  SomeFactor(n, z)
  <2>1. PICK x : x = <<Span(text, i + 1, j), m>>
    OBVIOUS
  <2>2. n > 1 /\ x \in Phrases[n - 1].factor
    <3>1. i + 1 < j /\ x \in Phrases[j - (i + 1)].factor
      BY <1>9, <2>1 DEF Phrase
    <3>2. j - (i + 1) = n - 1 /\ n > 1
      BY <1>1, <1>2, <3>1
    <3> QED BY <3>1, <3>2
  <2>3. PICK p \in Seq(CalcChars) : p = Span(text, i + 1, j)
    <3>1. i + 1 < j
      BY <1>9 DEF Phrase
    <3>2. j \in i + 1 .. Len(text)
      BY <1>1, <3>1
    <3> QED BY <1>1, <3>2, SpanIs
  <2>94. HeadIs(text, i, j, Gap, p)
    BY <1>3, <1>6, <1>9, <2>3 DEF HeadIs
  <2>84. Span(text, i, j) = OneChar(Gap) \o p
    <3>1. HeadJoined(text, i, j, Gap, p)
      BY <1>6, <2>94, EndsJoined
    <3> QED BY <3>1 DEF HeadJoined
  <2>4. w = <<Gap>> \o p
    BY <1>3, <1>6, <1>9, <2>3, <2>84 DEF OneChar
  <2>5. w \o <<>> = w
    BY ConcatEmptySeq
  <2>6. z = << <<Gap>> \o x[1] \o <<>>, x[2]>>
    <3>1. x[1] = p /\ x[2] = m
      BY <2>1, <2>3
    <3> QED BY <1>4, <2>4, <2>5, <3>1
  <2> QED BY <2>2, <2>6 DEF SomeFactor
<1>10. ASSUME text[j] = Gap, Phrase(text, "factor", i, j - 1, m)
       PROVE  SomeFactor(n, z)
  <2>1. PICK x : x = <<Span(text, i, j - 1), m>>
    OBVIOUS
  <2>2. n > 1 /\ x \in Phrases[n - 1].factor
    <3>1. i < j - 1 /\ x \in Phrases[(j - 1) - i].factor
      BY <1>10, <2>1 DEF Phrase
    <3>2. (j - 1) - i = n - 1 /\ n > 1
      BY <1>1, <1>2, <3>1
    <3> QED BY <3>1, <3>2
  <2>3. PICK p \in Seq(CalcChars) : p = Span(text, i, j - 1)
    BY <1>1, SpanIs
  <2>94. TailIs(text, i, j, Gap, p)
    BY <1>3, <1>6, <1>10, <2>3 DEF TailIs
  <2>84. Span(text, i, j) = p \o OneChar(Gap)
    <3>1. TailJoined(text, i, j, Gap, p)
      BY <1>6, <2>94, EndsJoined
    <3> QED BY <3>1 DEF TailJoined
  <2>4. w = p \o <<Gap>>
    BY <1>3, <1>6, <1>10, <2>3, <2>84 DEF OneChar
  <2>5. <<>> \o p = p
    BY ConcatEmptySeq
  <2>6. z = << <<>> \o x[1] \o <<Gap>>, x[2]>>
    <3>1. x[1] = p /\ x[2] = m
      BY <2>1, <2>3
    <3> QED BY <1>4, <2>4, <2>5, <3>1
  <2> QED BY <2>2, <2>6 DEF SomeFactor
<1>11. ASSUME text[i + 1] = "(", text[j] = ")", Phrase(text, "expr", i + 1, j - 1, m)
       PROVE  SomeFactor(n, z)
  <2>1. PICK h : h = j - 1
    OBVIOUS
  <2>2. PICK x : x = <<Span(text, i + 1, h), m>>
    OBVIOUS
  <2>3. i + 1 < h /\ x \in Phrases[h - (i + 1)].expr
    BY <1>11, <2>1, <2>2 DEF Phrase
  <2>4. h - (i + 1) = n - 2 /\ n > 2 /\ h \in i + 1 .. Len(text)
    BY <1>1, <1>2, <2>1, <2>3
  <2>5. PartOf(text, i, h)
    BY <1>1, <2>4 DEF PartOf
  <2>6. PICK p \in Seq(CalcChars) : p = Span(text, i + 1, h)
    BY <1>1, <2>4, SpanIs
  <2>7. PICK r \in Seq(CalcChars) : r = Span(text, i, h)
    BY <1>1, <2>1, SpanIs
  <2>98. HeadIs(text, i, h, "(", p)
    BY <1>6, <1>11, <2>5, <2>6, <2>7 DEF HeadIs
  <2>88. Span(text, i, h) = OneChar("(") \o p
    <3>1. HeadJoined(text, i, h, "(", p)
      BY <1>6, <2>5, <2>98, EndsJoined
    <3> QED BY <3>1 DEF HeadJoined
  <2>8. r = <<"(">> \o p
    BY <1>6, <1>11, <2>5, <2>6, <2>7, <2>88 DEF OneChar
  <2>99. TailIs(text, i, j, ")", r)
    BY <1>3, <1>6, <1>11, <2>1, <2>7 DEF TailIs
  <2>89. Span(text, i, j) = r \o OneChar(")")
    <3>1. TailJoined(text, i, j, ")", r)
      BY <1>6, <2>99, EndsJoined
    <3> QED BY <3>1 DEF TailJoined
  <2>9. w = r \o <<")">>
    BY <1>3, <1>6, <1>11, <2>1, <2>7, <2>89 DEF OneChar
  <2>10. z = << <<"(">> \o x[1] \o <<")">>, x[2]>>
    <3>1. x[1] = p /\ x[2] = m
      BY <2>2, <2>6
    <3> QED BY <1>4, <2>8, <2>9, <3>1
  <2>11. x \in Phrases[n - 2].expr
    BY <2>3, <2>4
  <2> QED BY <2>4, <2>10, <2>11 DEF SomeFactor
<1> QED BY <1>7, <1>8, <1>9, <1>10, <1>11 DEF FactorIn

\* The phrases of a text, by what is written there.
LEMMA PhraseAt ==
  ASSUME NEW text, NEW i, NEW j, PartOf(text, i, j), NEW m
  PROVE  /\ Phrase(text, "factor", i, j, m) <=> FactorIn(text, i, j, m)
         /\ Phrase(text, "term", i, j, m) <=>
              Phrase(text, "factor", i, j, m) \/ PairIn(text, i, j, "term", "factor", {"*", "/", "%"}, m)
         /\ Phrase(text, "expr", i, j, m) <=>
              Phrase(text, "term", i, j, m) \/ PairIn(text, i, j, "expr", "term", {"+", "-"}, m)
<1>1. Phrase(text, "factor", i, j, m) <=> FactorIn(text, i, j, m)
  BY FactorForward, FactorBack
<1>2. PICK n \in 1 .. CalcMax : n = j - i
  BY PartIs
<1>3. PICK z : z = <<Span(text, i, j), m>>
  OBVIOUS
<1>4. i < j
  BY PartIs
<1>5. /\ Phrase(text, "factor", i, j, m) <=> z \in Phrases[n].factor
      /\ Phrase(text, "term", i, j, m) <=> z \in Phrases[n].term
      /\ Phrase(text, "expr", i, j, m) <=> z \in Phrases[n].expr
  BY <1>2, <1>3, <1>4 DEF Phrase
<1>6. /\ z \in Phrases[n].term <=> z \in Phrases[n].factor \/ Pairs(n, "term", "factor", {"*", "/", "%"}, z)
      /\ z \in Phrases[n].expr <=> z \in Phrases[n].term \/ Pairs(n, "expr", "term", {"+", "-"}, z)
  BY PhraseIs
<1>7. "factor" \in PhraseKinds /\ "term" \in PhraseKinds /\ "expr" \in PhraseKinds
        /\ {"*", "/", "%"} \subseteq Operators /\ {"+", "-"} \subseteq Operators
  BY DEF PhraseKinds, Operators
<1>8. Pairs(n, "term", "factor", {"*", "/", "%"}, z) <=> PairIn(text, i, j, "term", "factor", {"*", "/", "%"}, m)
  BY <1>2, <1>3, <1>7, PairSpan
<1>9. Pairs(n, "expr", "term", {"+", "-"}, z) <=> PairIn(text, i, j, "expr", "term", {"+", "-"}, m)
  BY <1>2, <1>3, <1>7, PairSpan
<1> QED BY <1>1, <1>5, <1>6, <1>8, <1>9

\* The characters of the text from i to j are a phrase of this kind.
Reads(text, kind, i, j) == \E m \in Means : Phrase(text, kind, i, j, m)
Gaps(text, i, j) == \A k \in i + 1 .. j : text[k] = Gap

\* A phrase is a part of the text that is not empty.
LEMMA PartPhrase ==
  ASSUME NEW text \in Seq(CalcChars), Len(text) <= CalcMax, NEW i \in 0 .. Len(text), NEW j \in 0 .. Len(text),
         NEW kind, NEW m, Phrase(text, kind, i, j, m)
  PROVE  PartOf(text, i, j)
<1>1. PICK L \in Nat : L = Len(text)
  OBVIOUS
<1>2. j \in i + 1 .. L
  BY <1>1 DEF Phrase
<1> QED BY <1>1, <1>2 DEF PartOf

\* A phrase with one more gap behind it.
LEMMA GapBehind ==
  ASSUME NEW text, NEW i, NEW j, PartOf(text, i, j), NEW kind \in PhraseKinds, NEW m,
         PartOf(text, i, j + 1), Phrase(text, kind, i, j, m), text[j + 1] = Gap
  PROVE  Phrase(text, kind, i, j + 1, m)
<1>1. /\ i \in Nat /\ j \in Nat /\ Len(text) \in Nat /\ i < j /\ j + 1 <= Len(text)
      /\ text \in Seq(CalcChars) /\ Len(text) <= CalcMax
  BY PartIs
<1>2. PICK h \in Nat : h = j + 1
  BY <1>1
<1>3. h - 1 = j /\ PartOf(text, i, h) /\ text[h] = Gap
  BY <1>1, <1>2
<1>4. "factor" \in PhraseKinds /\ "term" \in PhraseKinds /\ "expr" \in PhraseKinds
  BY DEF PhraseKinds
<1>5. ASSUME NEW k \in 0 .. Len(text), NEW u, Phrase(text, "factor", k, j, u) PROVE Phrase(text, "factor", k, h, u)
  <2>1. k < j
    BY <1>5 DEF Phrase
  <2>2. h \in k + 1 .. Len(text)
    BY <1>1, <1>2, <2>1
  <2>3. PartOf(text, k, h)
    BY <1>1, <2>2 DEF PartOf
  <2>4. FactorIn(text, k, h, u)
    BY <1>3, <1>5 DEF FactorIn
  <2> QED BY <2>3, <2>4, FactorBack
<1>6. ASSUME NEW k \in 0 .. Len(text), NEW lefts, NEW rights, NEW ops, NEW u,
             PairIn(text, k, j, lefts, rights, ops, u),
             \A l \in 0 .. Len(text), v \in Means : Phrase(text, rights, l, j, v) => Phrase(text, rights, l, h, v)
      PROVE  PairIn(text, k, h, lefts, rights, ops, u)
  <2>1. PICK l \in k + 1 .. j - 2 : \E x \in Means, y \in Means :
          /\ text[l + 1] \in ops /\ u = Applied(text[l + 1], x, y)
          /\ Phrase(text, lefts, k, l, x) /\ Phrase(text, rights, l + 1, j, y)
    BY <1>6 DEF PairIn
  <2>2. PICK x \in Means, y \in Means :
          /\ text[l + 1] \in ops /\ u = Applied(text[l + 1], x, y)
          /\ Phrase(text, lefts, k, l, x) /\ Phrase(text, rights, l + 1, j, y)
    BY <2>1
  <2>3. l + 1 \in 0 .. Len(text) /\ l \in k + 1 .. h - 2
    BY <1>1, <1>2
  <2>4. Phrase(text, rights, l + 1, h, y)
    BY <1>6, <2>2, <2>3
  <2> QED BY <2>2, <2>3, <2>4 DEF PairIn
<1>7. ASSUME NEW k \in 0 .. Len(text), NEW u, Phrase(text, "term", k, j, u) PROVE Phrase(text, "term", k, h, u)
  <2>1. k < j
    BY <1>7 DEF Phrase
  <2>2. h \in k + 1 .. Len(text) /\ j \in k + 1 .. Len(text)
    BY <1>1, <1>2, <2>1
  <2>3. PartOf(text, k, h) /\ PartOf(text, k, j)
    BY <1>1, <2>2 DEF PartOf
  <2>4. Phrase(text, "factor", k, j, u) \/ PairIn(text, k, j, "term", "factor", {"*", "/", "%"}, u)
    BY <1>7, <2>3, PhraseAt
  <2>5. Phrase(text, "factor", k, h, u) \/ PairIn(text, k, h, "term", "factor", {"*", "/", "%"}, u)
    BY <2>4, <1>5, <1>6
  <2> QED BY <2>3, <2>5, PhraseAt
<1>8. ASSUME NEW k \in 0 .. Len(text), NEW u, Phrase(text, "expr", k, j, u) PROVE Phrase(text, "expr", k, h, u)
  <2>1. k < j
    BY <1>8 DEF Phrase
  <2>2. h \in k + 1 .. Len(text) /\ j \in k + 1 .. Len(text)
    BY <1>1, <1>2, <2>1
  <2>3. PartOf(text, k, h) /\ PartOf(text, k, j)
    BY <1>1, <2>2 DEF PartOf
  <2>4. Phrase(text, "term", k, j, u) \/ PairIn(text, k, j, "expr", "term", {"+", "-"}, u)
    BY <1>8, <2>3, PhraseAt
  <2>5. Phrase(text, "term", k, h, u) \/ PairIn(text, k, h, "expr", "term", {"+", "-"}, u)
    BY <2>4, <1>7, <1>6
  <2> QED BY <2>3, <2>5, PhraseAt
<1>9. i \in 0 .. Len(text)
  BY PartIs
<1> QED BY <1>2, <1>5, <1>7, <1>8, <1>9 DEF PhraseKinds

\* Or with any number of them.
LEMMA GapsBehind ==
  ASSUME NEW text, NEW i, NEW j, PartOf(text, i, j), NEW kind \in PhraseKinds,
         Reads(text, kind, i, j), NEW l \in j .. Len(text), Gaps(text, j, l)
  PROVE  Reads(text, kind, i, l)
<1>1. /\ i \in Nat /\ j \in Nat /\ Len(text) \in Nat /\ i < j /\ j <= Len(text)
      /\ text \in Seq(CalcChars) /\ Len(text) <= CalcMax /\ i \in 0 .. Len(text)
  BY PartIs
<1>2. PICK m \in Means : Phrase(text, kind, i, j, m)
  BY DEF Reads
<1> DEFINE Done(n) == j + n <= l => Phrase(text, kind, i, j + n, m)
<1>3. Done(0)
  BY <1>1, <1>2
<1>4. ASSUME NEW n \in Nat, Done(n) PROVE Done(n + 1)
  <2> SUFFICES ASSUME j + (n + 1) <= l PROVE Phrase(text, kind, i, j + (n + 1), m)
    OBVIOUS
  <2>1. PICK h \in Nat : h = j + n
    BY <1>1
  <2>2. h + 1 = j + (n + 1) /\ h <= l /\ h + 1 \in j + 1 .. l /\ h \in i + 1 .. Len(text) /\ h + 1 \in i + 1 .. Len(text)
    BY <1>1, <2>1
  <2>3. PartOf(text, i, h) /\ PartOf(text, i, h + 1)
    BY <1>1, <2>2 DEF PartOf
  <2>4. text[h + 1] = Gap
    BY <2>2 DEF Gaps
  <2>5. Phrase(text, kind, i, h, m)
    BY <1>4, <2>1, <2>2
  <2>6. Phrase(text, kind, i, h + 1, m)
    BY <2>3, <2>4, <2>5, GapBehind
  <2> QED BY <2>2, <2>6
<1> DEFINE T == {n \in Nat : Done(n)}
<1>5. \A n \in Nat : Done(n)
  <2>1. 0 \in T
    BY <1>3
  <2>2. \A n \in Nat : n \in T => n + 1 \in T
    BY <1>4
  <2>3. Nat \subseteq T
    <3> HIDE DEF T
    <3> QED BY <2>1, <2>2, InductionOnSet
  <2> QED BY <2>3
<1>6. PICK n \in Nat : j + n = l
  <2>1. l - j \in Nat /\ j + (l - j) = l
    BY <1>1
  <2> QED BY <2>1
<1>7. Phrase(text, kind, i, l, m)
  BY <1>1, <1>5, <1>6 DEF Done
<1> QED BY <1>7 DEF Reads

\* A factor with gaps in front of it.
LEMMA GapsAhead ==
  ASSUME NEW text, NEW i, NEW j, PartOf(text, i, j), Reads(text, "factor", i, j),
         NEW l \in 0 .. i, Gaps(text, l, i)
  PROVE  Reads(text, "factor", l, j)
<1>1. /\ i \in Nat /\ j \in Nat /\ Len(text) \in Nat /\ i < j /\ j <= Len(text)
      /\ text \in Seq(CalcChars) /\ Len(text) <= CalcMax /\ i \in 0 .. Len(text)
  BY PartIs
<1>2. PICK m \in Means : Phrase(text, "factor", i, j, m)
  BY DEF Reads
<1> DEFINE Done(n) == l + n <= i => Phrase(text, "factor", i - n, j, m)
<1>3. Done(0)
  BY <1>1, <1>2
<1>4. ASSUME NEW n \in Nat, Done(n) PROVE Done(n + 1)
  <2> SUFFICES ASSUME l + (n + 1) <= i PROVE Phrase(text, "factor", i - (n + 1), j, m)
    OBVIOUS
  <2>1. PICK h \in Nat : h = i - (n + 1)
    BY <1>1
  <2>2. h + 1 = i - n /\ l + n <= i /\ h + 1 \in l + 1 .. i /\ j \in h + 1 .. Len(text) /\ h \in 0 .. Len(text)
    BY <1>1, <2>1
  <2>3. PartOf(text, h, j)
    BY <1>1, <2>2 DEF PartOf
  <2>4. text[h + 1] = Gap
    BY <2>2 DEF Gaps
  <2>5. Phrase(text, "factor", h + 1, j, m)
    BY <1>4, <2>2
  <2>6. FactorIn(text, h, j, m)
    BY <2>4, <2>5 DEF FactorIn
  <2> QED BY <2>1, <2>3, <2>6, FactorBack
<1> DEFINE T == {n \in Nat : Done(n)}
<1>5. \A n \in Nat : Done(n)
  <2>1. 0 \in T
    BY <1>3
  <2>2. \A n \in Nat : n \in T => n + 1 \in T
    BY <1>4
  <2>3. Nat \subseteq T
    <3> HIDE DEF T
    <3> QED BY <2>1, <2>2, InductionOnSet
  <2> QED BY <2>3
<1>6. PICK n \in Nat : l + n = i /\ i - n = l
  <2>1. i - l \in Nat /\ l + (i - l) = i /\ i - (i - l) = l
    BY <1>1
  <2> QED BY <2>1
<1>7. Phrase(text, "factor", l, j, m)
  BY <1>1, <1>5, <1>6 DEF Done
<1> QED BY <1>7 DEF Reads

Accepted(s) == s.ok /\ ~s.trap

\* What the functions accept are phrases, and the loops make longer ones.
SoundAt(text, P, s) ==
  /\ Accepted(P.factor[s]) => Reads(text, "factor", s.at, P.factor[s].at)
  /\ Accepted(P.term[s]) => Reads(text, "term", s.at, P.term[s].at)
  /\ Accepted(P.expr[s]) => Reads(text, "expr", s.at, P.expr[s].at)
  /\ Accepted(P.term_rest[s]) =>
       \A i \in 0 .. Len(text) : Reads(text, "term", i, s.at) => Reads(text, "term", i, P.term_rest[s].at)
  /\ Accepted(P.expr_rest[s]) =>
       \A i \in 0 .. Len(text) : Reads(text, "expr", i, s.at) => Reads(text, "expr", i, P.expr_rest[s].at)

\* The same whatever the phrase means.
LEMMA ReadsPart ==
  ASSUME NEW text \in Seq(CalcChars), Len(text) <= CalcMax, NEW i \in 0 .. Len(text), NEW j \in 0 .. Len(text),
         NEW kind, Reads(text, kind, i, j)
  PROVE  PartOf(text, i, j)
BY PartPhrase DEF Reads

\* Behind the gaps.
LEMMA SkipGaps ==
  ASSUME NEW text \in Seq(CalcChars), NEW i \in 0 .. Len(text)
  PROVE  /\ Behind(text, i, {Gap}) \in i .. Len(text) /\ Behind(text, i, {Gap}) \in 0 .. Len(text)
         /\ Gaps(text, i, Behind(text, i, {Gap})) /\ ~IsA(text, Behind(text, i, {Gap}), {Gap})
<1>1. PICK L \in Nat : L = Len(text)
  OBVIOUS
<1>2. PICK q : q = Behind(text, i, {Gap})
  OBVIOUS
<1>3. q \in i .. L /\ ~IsA(text, q, {Gap}) /\ \A k \in i + 1 .. q : text[k] \in {Gap}
  BY <1>1, <1>2, BehindIs
<1>4. q \in 0 .. L
  BY <1>1, <1>3
<1> QED BY <1>1, <1>2, <1>3, <1>4 DEF Gaps

\* The fields of a state.
LEMMA StateAt ==
  ASSUME NEW text, NEW s \in States(text)
  PROVE  s.at \in 0 .. Len(text) /\ s.v \in Longs /\ s.ok \in BOOLEAN /\ s.trap \in BOOLEAN
BY DEF States

\* An expression in parentheses that parse_factor accepts is a factor.
LEMMA ParenSound ==
  ASSUME NEW text \in Seq(CalcChars), Len(text) <= CalcMax, NEW P, Parsing(text, P), NEW s \in States(text),
         \A t \in States(text) : t.at > s.at => SoundAt(text, P, t), Accepted(P.factor[s]),
         IsA(text, Behind(text, s.at, {Gap}), {"("})
  PROVE  Reads(text, "factor", s.at, P.factor[s].at)
<1>1. s.ok /\ ~s.trap
  BY AcceptedBefore DEF Accepted
<1>2. PICK c, d, e \in States(text) : InParens(text, P, s, c, d, e)
  BY <1>1, FactorParen
<1>3. PICK L \in Nat : L = Len(text)
  OBVIOUS
<1>4. PICK i \in 0 .. L : i = s.at
  BY <1>3, StateAt
<1>5. PICK q \in 0 .. L : q = Behind(text, i, {Gap}) /\ q \in i .. L /\ Gaps(text, i, q)
  BY <1>3, <1>4, SkipGaps
<1>6. q < L /\ text[q + 1] = "("
  BY <1>3, <1>4, <1>5 DEF IsA
<1>7. c.at = q + 1 /\ c.at > s.at /\ d = P.expr[c] /\ e = skip(text, d)
        /\ P.factor[s] = IF IsA(text, e.at, {")"}) THEN Consumed(e) ELSE Failed(e)
  BY <1>2, <1>4, <1>5 DEF InParens
<1>8. IsA(text, e.at, {")"})
  <2>1. ~Failed(e).ok
    BY ConsumedIs
  <2> QED BY <1>7, <2>1 DEF Accepted
<1>9. PICK k \in 0 .. L : k = e.at
  BY <1>3, StateAt
<1>10. k < L /\ text[k + 1] = ")" /\ P.factor[s].at = k + 1
  <2>1. P.factor[s] = Consumed(e)
    BY <1>7, <1>8
  <2>2. Consumed(e).at = k + 1
    BY <1>9, ConsumedIs
  <2> QED BY <1>3, <1>8, <1>9, <2>1, <2>2 DEF IsA
<1>11. Accepted(d)
  <2>1. P.factor[s] = Consumed(e)
    BY <1>7, <1>8
  <2>2. (Consumed(e).ok <=> e.ok) /\ (Consumed(e).trap <=> e.trap)
    BY ConsumedIs
  <2>3. (e.ok <=> d.ok) /\ (e.trap <=> d.trap)
    BY <1>7, SkipFlags
  <2> QED BY <2>1, <2>2, <2>3 DEF Accepted
<1>12. PICK h \in 0 .. L : h = d.at
  BY <1>3, StateAt
<1>13. k \in h .. L /\ Gaps(text, h, k)
  <2>1. k = Behind(text, h, {Gap})
    BY <1>7, <1>9, <1>12, SkipFlags
  <2> QED BY <1>3, <2>1, SkipGaps
<1>14. Reads(text, "expr", q + 1, h)
  BY <1>7, <1>11, <1>12 DEF SoundAt
<1>15. q + 1 \in 0 .. L /\ "expr" \in PhraseKinds
  BY <1>3, <1>6 DEF PhraseKinds
<1>16. PartOf(text, q + 1, h)
  BY <1>3, <1>14, <1>15, ReadsPart
<1>17. Reads(text, "expr", q + 1, k)
  BY <1>3, <1>13, <1>14, <1>15, <1>16, GapsBehind
<1>18. PICK m \in Means : Phrase(text, "expr", q + 1, k, m)
  BY <1>17 DEF Reads
<1>19. PICK j \in 0 .. L : j = k + 1 /\ j - 1 = k
  BY <1>10
<1>20. PartOf(text, q, j)
  <2>1. q + 1 < k
    BY <1>18 DEF Phrase
  <2>2. j \in q + 1 .. L
    BY <1>19, <2>1
  <2> QED BY <1>3, <2>2 DEF PartOf
<1>21. FactorIn(text, q, j, m)
  BY <1>6, <1>10, <1>18, <1>19 DEF FactorIn
<1>22. Reads(text, "factor", q, j)
  BY <1>20, <1>21, FactorBack DEF Reads
<1>23. i \in 0 .. q
  BY <1>5
<1> QED BY <1>4, <1>5, <1>10, <1>19, <1>20, <1>22, <1>23, GapsAhead

\* So is a factor behind a sign.
LEMMA MinusSound ==
  ASSUME NEW text \in Seq(CalcChars), Len(text) <= CalcMax, NEW P, Parsing(text, P), NEW s \in States(text),
         \A t \in States(text) : t.at > s.at => SoundAt(text, P, t), Accepted(P.factor[s]),
         IsA(text, Behind(text, s.at, {Gap}), {"-"})
  PROVE  Reads(text, "factor", s.at, P.factor[s].at)
<1>1. s.ok /\ ~s.trap
  BY AcceptedBefore DEF Accepted
<1>2. PICK c, d \in States(text) : Negated(text, P, s, c, d)
  BY <1>1, FactorMinus
<1>3. PICK L \in Nat : L = Len(text)
  OBVIOUS
<1>4. PICK i \in 0 .. L : i = s.at
  BY <1>3, StateAt
<1>5. PICK q \in 0 .. L : q = Behind(text, i, {Gap}) /\ q \in i .. L /\ Gaps(text, i, q)
  BY <1>3, <1>4, SkipGaps
<1>6. q < L /\ text[q + 1] = "-"
  BY <1>3, <1>4, <1>5 DEF IsA
<1>7. c.at = q + 1 /\ c.at > s.at /\ d = P.factor[c] /\ P.factor[s] = [d EXCEPT !.v = Wrap(-d.v)]
  BY <1>2, <1>4, <1>5 DEF Negated
<1>8. Accepted(d) /\ P.factor[s].at = d.at
  BY <1>7 DEF Accepted, States
<1>9. PICK j \in 0 .. L : j = d.at
  BY <1>3, StateAt
<1>10. Reads(text, "factor", q + 1, j)
  BY <1>7, <1>8, <1>9 DEF SoundAt
<1>11. PICK m \in Means : Phrase(text, "factor", q + 1, j, m)
  BY <1>10 DEF Reads
<1>12. PartOf(text, q, j)
  <2>1. q + 1 < j
    BY <1>11 DEF Phrase
  <2>2. j \in q + 1 .. L
    BY <2>1
  <2> QED BY <1>3, <2>2 DEF PartOf
<1>13. PICK u : u = Applied("-", Value(0), m)
  OBVIOUS
<1>14. FactorIn(text, q, j, u)
  BY <1>6, <1>11, <1>13 DEF FactorIn
<1>15. Phrase(text, "factor", q, j, u)
  BY <1>12, <1>14, FactorBack
<1>16. u \in Means
  <2>1. "factor" \in PhraseKinds
    BY DEF PhraseKinds
  <2> QED BY <1>12, <1>15, <2>1, PhraseMeans
<1>17. Reads(text, "factor", q, j)
  BY <1>15, <1>16 DEF Reads
<1>18. i \in 0 .. q
  BY <1>5
<1> QED BY <1>4, <1>5, <1>8, <1>9, <1>12, <1>17, <1>18, GapsAhead

\* So is a number.
LEMMA NumSound ==
  ASSUME NEW text \in Seq(CalcChars), Len(text) <= CalcMax, NEW P, Parsing(text, P), NEW s \in States(text),
         Accepted(P.factor[s]),
         ~IsA(text, Behind(text, s.at, {Gap}), {"("}), ~IsA(text, Behind(text, s.at, {Gap}), {"-"})
  PROVE  Reads(text, "factor", s.at, P.factor[s].at)
<1>1. s.ok /\ ~s.trap
  BY AcceptedBefore DEF Accepted
<1>2. PICK t \in States(text) : t = skip(text, s)
  BY SkipIs
<1>3. PICK L \in Nat : L = Len(text)
  OBVIOUS
<1>4. PICK i \in 0 .. L : i = s.at
  BY <1>3, StateAt
<1>5. PICK q \in 0 .. L : q = Behind(text, i, {Gap}) /\ q \in i .. L /\ Gaps(text, i, q) /\ ~IsA(text, q, {Gap})
  BY <1>3, <1>4, SkipGaps
<1>6. t.at = q
  BY <1>2, <1>4, <1>5, SkipFlags
<1>7. Behind(text, q, {Gap}) = q
  BY <1>3, <1>5, BehindSteps
<1>8. P.factor[s] = parse_num(text, t)
  BY <1>1, <1>2, FactorNum
<1>9. PICK a, b, f :
        /\ a = Behind(text, t.at, {Gap}) /\ b = Behind(text, a, Range(Digits)) /\ DigitRun(f, text, a, b - a)
        /\ parse_num(text, t) = [at |-> b, v |-> f[b - a], ok |-> (t.ok /\ b > a), trap |-> t.trap]
  BY NumIs
<1>10. a = q
  BY <1>6, <1>7, <1>9
<1>11. b \in q .. L /\ \A k \in q + 1 .. b : text[k] \in Range(Digits)
  BY <1>3, <1>9, <1>10, BehindIs
<1>12. P.factor[s].at = b /\ b > q
  <2>1. PICK r : r = [at |-> b, v |-> f[b - a], ok |-> (t.ok /\ b > a), trap |-> t.trap]
    OBVIOUS
  <2>2. r.at = b
    BY <2>1
  <2>3. r.ok = (t.ok /\ b > a)
    BY <2>1
  <2>4. P.factor[s] = r
    BY <1>8, <1>9, <2>1, Zenon
  <2>5. r.ok
    BY <2>4, Zenon DEF Accepted
  <2>6. b > a
    BY <2>3, <2>5, Zenon
  <2> QED BY <1>10, <2>2, <2>4, <2>6, Zenon
<1>13. PartOf(text, q, b)
  <2>1. b \in q + 1 .. L
    BY <1>11, <1>12
  <2> QED BY <1>3, <2>1 DEF PartOf
<1>14. PICK u : u = Exact(Number(Span(text, q, b)))
  OBVIOUS
<1>15. FactorIn(text, q, b, u)
  BY <1>11, <1>14 DEF FactorIn
<1>16. Phrase(text, "factor", q, b, u)
  BY <1>13, <1>15, FactorBack
<1>17. u \in Means
  <2>1. "factor" \in PhraseKinds
    BY DEF PhraseKinds
  <2> QED BY <1>13, <1>16, <2>1, PhraseMeans
<1>18. Reads(text, "factor", q, b)
  BY <1>16, <1>17 DEF Reads
<1>19. i \in 0 .. q
  BY <1>5
<1> QED BY <1>4, <1>5, <1>12, <1>13, <1>18, <1>19, GapsAhead

\* The loop of parse_term makes a longer term of the term in front of it.
LEMMA TermRestSound ==
  ASSUME NEW text \in Seq(CalcChars), Len(text) <= CalcMax, NEW P, Parsing(text, P), NEW s \in States(text),
         \A t \in States(text) : t.at > s.at => SoundAt(text, P, t), Accepted(P.term_rest[s]),
         NEW i \in 0 .. Len(text), Reads(text, "term", i, s.at)
  PROVE  Reads(text, "term", i, P.term_rest[s].at)
<1>1. s.ok /\ ~s.trap
  BY AcceptedBefore DEF Accepted
<1>2. PICK L \in Nat : L = Len(text)
  OBVIOUS
<1>3. PICK h \in 0 .. L : h = s.at
  BY <1>2, StateAt
<1>4. PICK q \in 0 .. L : q = Behind(text, h, {Gap}) /\ q \in h .. L /\ Gaps(text, h, q)
  BY <1>2, <1>3, SkipGaps
<1>5. "term" \in PhraseKinds
  BY DEF PhraseKinds
<1>6. PartOf(text, i, h)
  BY <1>2, <1>3, ReadsPart
<1>7. Reads(text, "term", i, q)
  BY <1>2, <1>3, <1>4, <1>5, <1>6, GapsBehind
<1>8. CASE ~IsA(text, q, {"*", "/", "%"})
  <2>1. P.term_rest[s] = skip(text, s)
    BY <1>3, <1>4, <1>8, TermStops
  <2>2. skip(text, s).at = q
    BY <1>3, <1>4, SkipFlags
  <2> QED BY <1>7, <2>1, <2>2
<1>9. CASE IsA(text, q, {"*", "/", "%"})
  <2>1. PICK c, r \in States(text) : TermRound(text, P, s, c, r)
    BY <1>1, <1>3, <1>4, <1>9, TermLoops
  <2>2. q < L /\ text[q + 1] \in {"*", "/", "%"}
    BY <1>2, <1>9 DEF IsA
  <2>3. c.at = q + 1 /\ c.at > s.at /\ r = P.factor[c] /\ r.at >= c.at
          /\ ((r.trap \/ ~r.ok) => P.term_rest[s] = [r EXCEPT !.v = 0])
    BY <1>3, <1>4, <2>1 DEF TermRound
  <2>4. Accepted(r)
    <3>1. [r EXCEPT !.v = 0].ok = r.ok /\ [r EXCEPT !.v = 0].trap = r.trap
      BY DEF States
    <3> QED BY <2>3, <3>1 DEF Accepted
  <2>5. PICK j \in 0 .. L : j = r.at
    BY <1>2, StateAt
  <2>6. Reads(text, "factor", q + 1, j)
    BY <2>3, <2>4, <2>5 DEF SoundAt
  <2>7. PICK y \in Means : Phrase(text, "factor", q + 1, j, y)
    BY <2>6 DEF Reads
  <2>8. PICK x \in Means : Phrase(text, "term", i, q, x)
    BY <1>7 DEF Reads
  <2>9. PICK m : m = Applied(text[q + 1], x, y)
    OBVIOUS
  <2>10. i < q /\ q + 1 < j
    BY <2>7, <2>8 DEF Phrase
  <2>11. PartOf(text, i, j) /\ q \in i + 1 .. j - 2
    <3>1. j \in i + 1 .. L /\ q \in i + 1 .. j - 2
      BY <1>2, <2>10
    <3> QED BY <1>2, <3>1 DEF PartOf
  <2>12. PairIn(text, i, j, "term", "factor", {"*", "/", "%"}, m)
    BY <2>2, <2>7, <2>8, <2>9, <2>11 DEF PairIn
  <2>13. Phrase(text, "term", i, j, m)
    BY <2>11, <2>12, PhraseAt
  <2>14. m \in Means
    BY <1>5, <2>11, <2>13, PhraseMeans
  <2>15. Reads(text, "term", i, j)
    BY <2>13, <2>14 DEF Reads
  <2>16. PICK u \in States(text) : u.at = j /\ P.term_rest[s] = P.term_rest[u]
    <3>4. PICK op : op = text[Behind(text, s.at, {Gap}) + 1]
      OBVIOUS
    <3>5. s.v \in Longs /\ r.v \in Longs
      BY StateAt
    <3>1. PICK u : u = Multiplied(r, op, s.v, r.v)
      OBVIOUS
    <3>2. P.term_rest[s] = P.term_rest[u]
      BY <2>1, <2>4, <3>1, <3>4 DEF TermRound, Accepted
    <3>3. u \in States(text) /\ u.at = r.at
      <4>1. PICK v \in Longs, w \in Longs : v = s.v /\ w = r.v
        BY <3>5
      <4>2. Multiplied(r, op, v, w) \in States(text) /\ Multiplied(r, op, v, w).at = r.at
        BY MultipliedIs
      <4> QED BY <3>1, <4>1, <4>2, Zenon
    <3> QED BY <2>5, <3>2, <3>3
  <2>17. u.at > s.at
    BY <2>3, <2>5, <2>16, <1>3
  <2>18. Accepted(P.term_rest[u])
    BY <2>16
  <2> QED BY <2>15, <2>16, <2>17, <2>18 DEF SoundAt
<1> QED BY <1>8, <1>9

\* The loop of parse_expr makes a longer expression.
LEMMA ExprRestSound ==
  ASSUME NEW text \in Seq(CalcChars), Len(text) <= CalcMax, NEW P, Parsing(text, P), NEW s \in States(text),
         \A t \in States(text) : t.at > s.at => SoundAt(text, P, t), Accepted(P.expr_rest[s]),
         NEW i \in 0 .. Len(text), Reads(text, "expr", i, s.at)
  PROVE  Reads(text, "expr", i, P.expr_rest[s].at)
<1>1. s.ok /\ ~s.trap
  BY AcceptedBefore DEF Accepted
<1>2. PICK L \in Nat : L = Len(text)
  OBVIOUS
<1>3. PICK h \in 0 .. L : h = s.at
  BY <1>2, StateAt
<1>4. PICK q \in 0 .. L : q = Behind(text, h, {Gap}) /\ q \in h .. L /\ Gaps(text, h, q)
  BY <1>2, <1>3, SkipGaps
<1>5. "expr" \in PhraseKinds
  BY DEF PhraseKinds
<1>6. PartOf(text, i, h)
  BY <1>2, <1>3, ReadsPart
<1>7. Reads(text, "expr", i, q)
  BY <1>2, <1>3, <1>4, <1>5, <1>6, GapsBehind
<1>8. CASE ~IsA(text, q, {"+", "-"})
  <2>1. P.expr_rest[s] = skip(text, s)
    BY <1>3, <1>4, <1>8, ExprStops
  <2>2. skip(text, s).at = q
    BY <1>3, <1>4, SkipFlags
  <2> QED BY <1>7, <2>1, <2>2
<1>9. CASE IsA(text, q, {"+", "-"})
  <2>1. PICK c, r \in States(text) : ExprRound(text, P, s, c, r)
    BY <1>1, <1>3, <1>4, <1>9, ExprLoops
  <2>2. q < L /\ text[q + 1] \in {"+", "-"}
    BY <1>2, <1>9 DEF IsA
  <2>3. c.at = q + 1 /\ c.at > s.at /\ r = P.term[c] /\ r.at >= c.at
          /\ ((r.trap \/ ~r.ok) => P.expr_rest[s] = [r EXCEPT !.v = 0])
    BY <1>3, <1>4, <2>1 DEF ExprRound
  <2>4. Accepted(r)
    <3>1. [r EXCEPT !.v = 0].ok = r.ok /\ [r EXCEPT !.v = 0].trap = r.trap
      BY DEF States
    <3> QED BY <2>3, <3>1 DEF Accepted
  <2>5. PICK j \in 0 .. L : j = r.at
    BY <1>2, StateAt
  <2>6. Reads(text, "term", q + 1, j)
    BY <2>3, <2>4, <2>5 DEF SoundAt
  <2>7. PICK y \in Means : Phrase(text, "term", q + 1, j, y)
    BY <2>6 DEF Reads
  <2>8. PICK x \in Means : Phrase(text, "expr", i, q, x)
    BY <1>7 DEF Reads
  <2>9. PICK m : m = Applied(text[q + 1], x, y)
    OBVIOUS
  <2>10. i < q /\ q + 1 < j
    BY <2>7, <2>8 DEF Phrase
  <2>11. PartOf(text, i, j) /\ q \in i + 1 .. j - 2
    <3>1. j \in i + 1 .. L /\ q \in i + 1 .. j - 2
      BY <1>2, <2>10
    <3> QED BY <1>2, <3>1 DEF PartOf
  <2>12. PairIn(text, i, j, "expr", "term", {"+", "-"}, m)
    BY <2>2, <2>7, <2>8, <2>9, <2>11 DEF PairIn
  <2>13. Phrase(text, "expr", i, j, m)
    BY <2>11, <2>12, PhraseAt
  <2>14. m \in Means
    BY <1>5, <2>11, <2>13, PhraseMeans
  <2>15. Reads(text, "expr", i, j)
    BY <2>13, <2>14 DEF Reads
  <2>16. PICK u \in States(text) : u.at = j /\ P.expr_rest[s] = P.expr_rest[u]
    <3>1. PICK w : w = Wrap(IF text[Behind(text, s.at, {Gap}) + 1] = "+" THEN s.v + r.v ELSE s.v - r.v)
      OBVIOUS
    <3>2. P.expr_rest[s] = P.expr_rest[[r EXCEPT !.v = w]]
      BY <2>1, <2>4, <3>1 DEF ExprRound, Accepted
    <3>3. w \in Longs
      <4>1. s.v \in Int /\ r.v \in Int
        BY StateAt, CalcFacts DEF Longs
      <4>2. s.v + r.v \in Int /\ s.v - r.v \in Int
        BY <4>1
      <4> QED BY <3>1, <4>2, WrapIs
    <3>4. [r EXCEPT !.v = w] \in States(text) /\ [r EXCEPT !.v = w].at = r.at
      BY <3>3 DEF States
    <3> QED BY <2>5, <3>2, <3>4
  <2>17. u.at > s.at
    BY <2>3, <2>5, <2>16, <1>3
  <2>18. Accepted(P.expr_rest[u])
    BY <2>16
  <2> QED BY <2>15, <2>16, <2>17, <2>18 DEF SoundAt
<1> QED BY <1>8, <1>9

\* Every function, one character further to the left.
LEMMA SoundStep ==
  ASSUME NEW text \in Seq(CalcChars), Len(text) <= CalcMax, NEW P, Parsing(text, P), NEW s \in States(text),
         \A t \in States(text) : t.at > s.at => SoundAt(text, P, t)
  PROVE  SoundAt(text, P, s)
<1>1. Accepted(P.factor[s]) => Reads(text, "factor", s.at, P.factor[s].at)
  BY ParenSound, MinusSound, NumSound
<1>2. Accepted(P.term_rest[s]) =>
        \A i \in 0 .. Len(text) : Reads(text, "term", i, s.at) => Reads(text, "term", i, P.term_rest[s].at)
  BY TermRestSound
<1>3. Accepted(P.expr_rest[s]) =>
        \A i \in 0 .. Len(text) : Reads(text, "expr", i, s.at) => Reads(text, "expr", i, P.expr_rest[s].at)
  BY ExprRestSound
<1>4. PICK L \in Nat : L = Len(text)
  OBVIOUS
<1>5. PICK i \in 0 .. L : i = s.at
  BY <1>4, StateAt
<1>6. Accepted(P.term[s]) => Reads(text, "term", s.at, P.term[s].at)
  <2> SUFFICES ASSUME Accepted(P.term[s]) PROVE Reads(text, "term", i, P.term[s].at)
    BY <1>5
  <2>1. PICK u \in States(text) : u = P.factor[s]
    BY ParsingTyped
  <2>2. P.term[s] = P.term_rest[u]
    BY <2>1, FirstOperand
  <2>3. Accepted(u)
    BY <2>2, AcceptedBefore DEF Accepted
  <2>4. PICK j \in 0 .. L : j = u.at
    BY <1>4, StateAt
  <2>5. Reads(text, "factor", i, j)
    BY <1>1, <1>5, <2>1, <2>3, <2>4
  <2>6. PICK m \in Means : Phrase(text, "factor", i, j, m)
    BY <2>5 DEF Reads
  <2>7. PartOf(text, i, j)
    BY <1>4, <2>6, PartPhrase
  <2>8. Phrase(text, "term", i, j, m) /\ i < j
    BY <2>6, <2>7, PhraseAt DEF Phrase
  <2>9. Reads(text, "term", i, j)
    BY <2>8 DEF Reads
  <2>10. SoundAt(text, P, u)
    BY <1>5, <2>4, <2>8
  <2> QED BY <1>4, <2>2, <2>4, <2>9, <2>10 DEF SoundAt
<1>7. Accepted(P.expr[s]) => Reads(text, "expr", s.at, P.expr[s].at)
  <2> SUFFICES ASSUME Accepted(P.expr[s]) PROVE Reads(text, "expr", i, P.expr[s].at)
    BY <1>5
  <2>1. PICK u \in States(text) : u = P.term[s]
    BY ParsingTyped
  <2>2. P.expr[s] = P.expr_rest[u]
    BY <2>1, FirstOperand
  <2>3. Accepted(u)
    BY <2>2, AcceptedBefore DEF Accepted
  <2>4. PICK j \in 0 .. L : j = u.at
    BY <1>4, StateAt
  <2>5. Reads(text, "term", i, j)
    BY <1>6, <1>5, <2>1, <2>3, <2>4
  <2>6. PICK m \in Means : Phrase(text, "term", i, j, m)
    BY <2>5 DEF Reads
  <2>7. PartOf(text, i, j)
    BY <1>4, <2>6, PartPhrase
  <2>8. Phrase(text, "expr", i, j, m) /\ i < j
    BY <2>6, <2>7, PhraseAt DEF Phrase
  <2>9. Reads(text, "expr", i, j)
    BY <2>8 DEF Reads
  <2>10. SoundAt(text, P, u)
    BY <1>5, <2>4, <2>8
  <2> QED BY <1>4, <2>2, <2>4, <2>9, <2>10 DEF SoundAt
<1> QED BY <1>1, <1>2, <1>3, <1>6, <1>7 DEF SoundAt

\* What the parser accepts is written in the grammar.
LEMMA ParserSound ==
  ASSUME NEW text \in Seq(CalcChars), Len(text) <= CalcMax, NEW P, Parsing(text, P), NEW s \in States(text)
  PROVE  SoundAt(text, P, s)
<1>1. PICK L \in Nat : L = Len(text)
  OBVIOUS
<1> DEFINE T == {k \in Nat : \A t \in States(text) : L - t.at < k => SoundAt(text, P, t)}
<1>2. 0 \in T
  BY <1>1 DEF States
<1>3. ASSUME NEW k \in Nat, k \in T PROVE k + 1 \in T
  <2> SUFFICES ASSUME NEW t \in States(text), L - t.at < k + 1 PROVE SoundAt(text, P, t)
    OBVIOUS
  <2>2. ASSUME NEW u \in States(text), u.at > t.at PROVE SoundAt(text, P, u)
    <3>1. L - u.at < k
      BY <1>1, <2>2 DEF States
    <3> QED BY <1>3, <2>2, <3>1
  <2> QED BY <2>2, SoundStep
<1>4. Nat \subseteq T
  <2> HIDE DEF T
  <2> QED BY <1>2, <1>3, InductionOnSet
<1>5. L + 1 \in Nat /\ L - s.at < L + 1
  BY <1>1 DEF States
<1>6. L + 1 \in T
  BY <1>4, <1>5
<1> QED BY <1>5, <1>6

\* A digit more at least doubles a number.
LEMMA TwiceAtMost ==
  ASSUME NEW a \in Nat, NEW r \in Nat, r > 1
  PROVE  a * r \in Nat /\ a + a <= a * r
<1>1. PICK t \in Nat : r = t + 2
  <2>1. r - 2 \in Nat /\ r = (r - 2) + 2
    OBVIOUS
  <2> QED BY <2>1
<1>2. a * (t + 2) = a * t + (a + a)
  OBVIOUS
<1>3. a * t \in Nat
  OBVIOUS
<1> QED BY <1>1, <1>2, <1>3

\* Reading a number whose digits make a long, or the one number behind the
\* last long, is right modulo the size of a long.
LEMMA NumberRead ==
  ASSUME NEW text \in Seq(CalcChars), NEW i \in 0 .. Len(text), NEW j \in i .. Len(text),
         \A k \in i + 1 .. j : text[k] \in Range(Digits), NEW f, DigitRun(f, text, i, j - i),
         Number(Span(text, i, j)) <= Half
  PROVE  Number(Span(text, i, j)) \in Nat /\ f[j - i] = Wrap(Number(Span(text, i, j)))
<1>1. PICK L \in Nat : L = Len(text)
  OBVIOUS
<1>2. PICK n \in Nat : n = j - i
  BY <1>1
<1>3. PICK ds \in Seq(CalcChars) : ds = Span(text, i, j) /\ Len(ds) = n /\ \A k \in 1 .. n : ds[k] = text[i + k]
  BY <1>1, <1>2, SpanIs
<1>4. \A k \in 1 .. n : i + k \in i + 1 .. j
  BY <1>1, <1>2
<1>5. ds \in Seq(Range(Digits))
  <2>1. \A k \in 1 .. Len(ds) : ds[k] \in Range(Digits)
    BY <1>3, <1>4
  <2> QED BY <2>1
<1>6. PICK g : /\ g \in [0 .. n -> Nat] /\ g[0] = 0 /\ Number(ds) = g[n]
               /\ \A k \in 1 .. n : g[k] = g[k - 1] * Radix + DigitValue(ds[k])
  <2>1. \E g : /\ g \in [0 .. Len(ds) -> Nat] /\ g[0] = 0 /\ Number(ds) = g[Len(ds)]
               /\ \A k \in 1 .. Len(ds) : g[k] = g[k - 1] * Radix + DigitValue(ds[k])
    BY <1>5, NumberRun
  <2> QED BY <1>3, <2>1
<1>7. f \in [0 .. n -> Longs] /\ f[0] = 0 /\ \A k \in 1 .. n : f[k] = Wrap(f[k - 1] * Radix + DigitValue(text[i + k]))
  BY <1>2 DEF DigitRun
<1>8. g[n] <= Half /\ Half \in Nat /\ Half > 0 /\ Radix \in Nat /\ Radix > 1
  BY <1>3, <1>6, CalcFacts
<1>9. ASSUME NEW k \in 1 .. n
      PROVE  g[k - 1] \in Nat /\ g[k] \in Nat /\ g[k - 1] + g[k - 1] <= g[k] /\ DigitValue(ds[k]) \in Nat
  <2>1. PICK a \in Nat, b \in Nat : a = g[k - 1] /\ b = g[k]
    <3>1. k - 1 \in 0 .. n /\ k \in 0 .. n
      OBVIOUS
    <3> QED BY <1>6, <3>1
  <2>2. PICK d \in Nat : d = DigitValue(ds[k])
    <3>1. ds[k] \in Range(Digits)
      BY <1>3, <1>5
    <3>2. DigitValue(ds[k]) \in 0 .. Radix - 1
      BY <3>1, DigitIs
    <3> QED BY <1>8, <3>2
  <2>3. b = a * Radix + d
    BY <1>6, <2>1, <2>2
  <2>4. a * Radix \in Nat /\ a + a <= a * Radix
    BY <1>8, TwiceAtMost
  <2>5. a + a <= b
    BY <2>3, <2>4
  <2> QED BY <2>1, <2>2, <2>5
<1> DEFINE A == {k \in Nat : k <= n => g[n - k] <= g[n]}
           B == {k \in Nat : k <= n => f[k] = Wrap(g[k])}
<1>10. Nat \subseteq A
  <2>1. 0 \in A
    BY <1>6
  <2>2. ASSUME NEW k \in Nat, k \in A PROVE k + 1 \in A
    <3> SUFFICES ASSUME k + 1 <= n PROVE g[n - (k + 1)] <= g[n]
      OBVIOUS
    <3>1. PICK h \in 1 .. n : h = n - k /\ h - 1 = n - (k + 1)
      OBVIOUS
    <3>2. g[h] <= g[n]
      BY <2>2, <3>1
    <3>3. g[h - 1] \in Nat /\ g[h] \in Nat /\ g[h - 1] + g[h - 1] <= g[h]
      BY <1>9
    <3>4. g[n] \in Nat
      BY <1>6
    <3> QED BY <3>1, <3>2, <3>3, <3>4
  <2> HIDE DEF A
  <2> QED BY <2>1, <2>2, InductionOnSet
<1>11. ASSUME NEW k \in 1 .. n PROVE g[k - 1] \in Longs
  <2>1. g[k] <= Half
    <3>1. PICK h \in Nat : h = n - k /\ n - h = k /\ h <= n
      <4>1. n - k \in Nat /\ n - (n - k) = k /\ n - k <= n
        OBVIOUS
      <4> QED BY <4>1
    <3>2. g[k] <= g[n]
      BY <1>10, <3>1
    <3>3. g[n] \in Nat /\ g[k] \in Nat
      BY <1>6
    <3> QED BY <1>8, <3>2, <3>3
  <2>2. PICK a \in Nat : a = g[k - 1]
    BY <1>9
  <2>3. a + a <= Half
    <3>1. g[k] \in Nat /\ a + a <= g[k]
      BY <1>9, <2>2
    <3> QED BY <1>8, <2>1, <3>1
  <2>4. a \in Longs
    BY <1>8, <2>3 DEF Longs
  <2> QED BY <2>2, <2>4
<1>12. Nat \subseteq B
  <2>1. 0 \in B
    <3>1. 0 \in Longs
      BY <1>8 DEF Longs
    <3>2. Wrap(0) = 0
      BY <3>1, WrapIs
    <3> QED BY <1>6, <1>7, <3>2
  <2>2. ASSUME NEW k \in Nat, k \in B PROVE k + 1 \in B
    <3> SUFFICES ASSUME k + 1 <= n PROVE f[k + 1] = Wrap(g[k + 1])
      OBVIOUS
    <3>1. PICK h \in 1 .. n : h = k + 1 /\ h - 1 = k
      OBVIOUS
    <3>2. g[k] \in Longs
      BY <1>11, <3>1
    <3>3. f[k] = g[k]
      <4>1. g[k] \in Int
        BY <1>8, <3>2 DEF Longs
      <4> QED BY <2>2, <3>2, <4>1, WrapIs
    <3>4. f[h] = Wrap(f[h - 1] * Radix + DigitValue(text[i + h])) /\ ds[h] = text[i + h]
      BY <1>3, <1>7
    <3>5. g[h] = g[h - 1] * Radix + DigitValue(ds[h])
      BY <1>6
    <3> QED BY <3>1, <3>3, <3>4, <3>5
  <2> HIDE DEF B
  <2> QED BY <2>1, <2>2, InductionOnSet
<1>13. f[n] = Wrap(g[n]) /\ g[n] \in Nat
  BY <1>6, <1>12
<1> QED BY <1>2, <1>3, <1>6, <1>13

\* What the functions do with a phrase that ends at j and means m: they read
\* its value, or they fail. The loops go on from the operand they have read.
Operand(text, j, v) == [at |-> Behind(text, j, {Gap}), v |-> v, ok |-> TRUE, trap |-> FALSE]

FactorDone(text, r, j, m) ==
  /\ \A v \in Longs : m = Value(v) => Accepted(r) /\ r.v = v /\ Behind(text, r.at, {Gap}) = Behind(text, j, {Gap})
  /\ m = Error => Dead(r)
TermDone(text, P, r, j, m) ==
  /\ \A v \in Longs : m = Value(v) => r = P.term_rest[Operand(text, j, v)]
  /\ m = Error => Dead(r)
ExprDone(text, P, r, j, m) ==
  /\ \A v \in Longs : m = Value(v) => r = P.expr_rest[Operand(text, j, v)]
  /\ m = Error => Dead(r)

FactorMeant(text, P, i, j, m) ==
  \A s \in States(text) : s.at = i /\ Accepted(s) => FactorDone(text, P.factor[s], j, m)
TermMeant(text, P, i, j, m) ==
  \A s \in States(text) : s.at = i /\ Accepted(s) => TermDone(text, P, P.term[s], j, m)
ExprMeant(text, P, i, j, m) ==
  \A s \in States(text) : s.at = i /\ Accepted(s) => ExprDone(text, P, P.expr[s], j, m)

\* An operand is a state in which all is well.
LEMMA OperandIs ==
  ASSUME NEW text \in Seq(CalcChars), NEW j \in 0 .. Len(text), NEW v \in Longs
  PROVE  /\ Operand(text, j, v) \in States(text) /\ Operand(text, j, v).at = Behind(text, j, {Gap})
         /\ Operand(text, j, v).v = v /\ Accepted(Operand(text, j, v))
<1>1. Behind(text, j, {Gap}) \in 0 .. Len(text)
  BY SkipGaps
<1> QED BY <1>1 DEF Operand, States, Accepted

\* A state is what its fields are.
LEMMA IsOperand ==
  ASSUME NEW text \in Seq(CalcChars), NEW s \in States(text), NEW j, NEW v,
         Accepted(s), s.v = v, s.at = Behind(text, j, {Gap})
  PROVE  s = Operand(text, j, v)
BY DEF States, Operand, Accepted

\* parse_factor skips the gaps first.
LEMMA FactorSkips ==
  ASSUME NEW text \in Seq(CalcChars), NEW P, Parsing(text, P), NEW s \in States(text)
  PROVE  P.factor[s] = P.factor[skip(text, s)]
<1>1. PICK t \in States(text) : t = skip(text, s) /\ skip(text, t) = t
  BY SkipIs
<1>2. P.factor[s] = parse_factor(text, P, s) /\ P.factor[t] = parse_factor(text, P, t)
  BY DEF Parsing
<1>3. parse_factor(text, P, s) = parse_factor(text, P, t)
  BY <1>1, Zenon DEF parse_factor
<1> QED BY <1>1, <1>2, <1>3

\* A number.
LEMMA NumMeant ==
  ASSUME NEW text, NEW i, NEW j, PartOf(text, i, j), NEW P, Parsing(text, P), NEW m,
         \A k \in i + 1 .. j : text[k] \in Range(Digits), m = Exact(Number(Span(text, i, j))),
         ~IsA(text, j, Range(Digits))
  PROVE  FactorMeant(text, P, i, j, m)
<1> SUFFICES ASSUME NEW s \in States(text), s.at = i, Accepted(s) PROVE FactorDone(text, P.factor[s], j, m)
  BY DEF FactorMeant
<1>1. /\ i \in Nat /\ j \in Nat /\ Len(text) \in Nat /\ i < j /\ j <= Len(text)
      /\ text \in Seq(CalcChars) /\ i \in 0 .. Len(text) /\ j \in i .. Len(text)
  BY PartIs
<1>2. i < Len(text) /\ text[i + 1] \in Range(Digits)
  <2>1. i + 1 \in i + 1 .. j
    BY <1>1
  <2> QED BY <1>1, <2>1
<1>3. text[i + 1] # Gap /\ text[i + 1] # "(" /\ text[i + 1] # "-"
  BY <1>2, DigitApart
<1>4. Behind(text, i, {Gap}) = i
  <2>1. ~IsA(text, i, {Gap})
    BY <1>3 DEF IsA
  <2> QED BY <1>1, <2>1, BehindSteps
<1>5. PICK t \in States(text) : t = skip(text, s) /\ t.at = i /\ t.ok /\ ~t.trap
  <2>1. skip(text, s) \in States(text)
    BY <1>1, SkipIs
  <2>2. skip(text, s).at = i /\ skip(text, s).ok /\ ~skip(text, s).trap
    BY <1>1, <1>4, SkipFlags DEF Accepted
  <2> QED BY <2>1, <2>2
<1>6. P.factor[s] = parse_num(text, t)
  <2>1. ~IsA(text, i, {"("}) /\ ~IsA(text, i, {"-"}) /\ ~s.trap
    BY <1>3 DEF IsA, Accepted
  <2> QED BY <1>1, <1>4, <1>5, <2>1, FactorNum
<1>7. PICK a, b, f :
        /\ a = Behind(text, t.at, {Gap}) /\ b = Behind(text, a, Range(Digits)) /\ DigitRun(f, text, a, b - a)
        /\ parse_num(text, t) = [at |-> b, v |-> f[b - a], ok |-> (t.ok /\ b > a), trap |-> t.trap]
  BY <1>1, NumIs
<1>8. Behind(text, i, Range(Digits)) = j
  BY <1>1, BehindOne
<1>9. a = i /\ b = j
  BY <1>4, <1>5, <1>7, <1>8
<1>10. PICK r : r = P.factor[s] /\ r.at = j /\ r.v = f[j - i] /\ Accepted(r)
  <2>1. PICK r : r = [at |-> b, v |-> f[b - a], ok |-> (t.ok /\ b > a), trap |-> t.trap]
    OBVIOUS
  <2>2. r.at = b /\ r.v = f[b - a]
    BY <2>1
  <2>3. r.ok = (t.ok /\ b > a)
    BY <2>1
  <2>4. r.trap = t.trap
    BY <2>1
  <2>5. b > a
    BY <1>1, <1>9
  <2>6. Accepted(r)
    BY <1>5, <2>3, <2>4, <2>5, Zenon DEF Accepted
  <2>7. P.factor[s] = r
    BY <1>6, <1>7, <2>1, Zenon
  <2> QED BY <1>9, <2>2, <2>6, <2>7
<1>11. PICK N \in Nat : N = Number(Span(text, i, j))
  <2>1. PICK ds \in Seq(CalcChars) : ds = Span(text, i, j) /\ Len(ds) = j - i /\ \A k \in 1 .. j - i : ds[k] = text[i + k]
    BY <1>1, SpanIs
  <2>2. \A k \in 1 .. j - i : i + k \in i + 1 .. j
    BY <1>1
  <2>3. \A k \in 1 .. Len(ds) : ds[k] \in Range(Digits)
    BY <2>1, <2>2
  <2>4. ds \in Seq(Range(Digits))
    BY <2>3
  <2> QED BY <2>1, <2>4, NumberNat
<1>12. m = Exact(N) /\ N \in Int
  BY <1>11
<1>13. m # Error
  BY <1>12, ExactIs
<1>14. ASSUME NEW v \in Longs, m = Value(v) PROVE f[j - i] = v
  <2>1. N \in Longs /\ Value(N) = Value(v)
    BY <1>12, <1>14, ExactIs, MeansApart
  <2>2. N = v
    BY <2>1, MeansApart
  <2>3. N <= Half
    BY <2>1, CalcFacts DEF Longs
  <2>4. DigitRun(f, text, i, j - i)
    BY <1>7, <1>9
  <2>5. f[j - i] = Wrap(N)
    BY <1>1, <1>11, <2>3, <2>4, NumberRead
  <2>6. Wrap(N) = N
    BY <1>12, <2>1, WrapIs
  <2> QED BY <2>2, <2>5, <2>6
<1> QED BY <1>10, <1>13, <1>14 DEF FactorDone

\* A character that is no gap is where it is.
LEMMA NoGap ==
  ASSUME NEW text \in Seq(CalcChars), NEW i \in 0 .. Len(text), i < Len(text) => text[i + 1] # Gap
  PROVE  Behind(text, i, {Gap}) = i
<1>1. ~IsA(text, i, {Gap})
  BY DEF IsA
<1> QED BY <1>1, BehindSteps

\* The characters that the functions look for are told apart.
LEMMA CharsApart ==
  /\ "-" # Gap /\ "(" # Gap /\ ")" # Gap /\ "+" # Gap /\ "*" # Gap /\ "/" # Gap /\ "%" # Gap
  /\ ")" # "+" /\ ")" # "-" /\ ")" # "*" /\ ")" # "/" /\ ")" # "%"
BY DEF Gap

\* What a sign makes of a meaning.
LEMMA NegationIs ==
  ASSUME NEW x \in Means
  PROVE  /\ \A v \in Longs : Applied("-", Value(0), x) = Value(v) => \E w \in Longs : x = Value(w) /\ Wrap(-w) = v
         /\ Applied("-", Value(0), x) = Error => x = Error
<1>1. 0 \in Longs /\ Half \in Nat /\ Half > 0
  BY CalcFacts DEF Longs
<1>2. Value(0) \in Means
  BY <1>1 DEF Means
<1>3. CASE x = Over
  <2>1. Applied("-", Value(0), x) = Over
    BY <1>2, <1>3, AppliedFaults
  <2> QED BY <2>1, MeansApart
<1>4. CASE x = Error
  <2>1. Applied("-", Value(0), x) = Error
    BY <1>2, <1>4, AppliedFaults, MeansApart
  <2> QED BY <1>4, <2>1, MeansApart
<1>5. ASSUME NEW w \in Longs, x = Value(w)
      PROVE  /\ \A v \in Longs : Applied("-", Value(0), x) = Value(v) => Wrap(-w) = v
             /\ Applied("-", Value(0), x) # Error
  <2>1. Applied("-", Value(0), Value(w)) = Exact(0 - w)
    BY <1>1, AppliedValues
  <2>2. PICK u \in Int : u = 0 - w /\ u = -w
    BY <1>1 DEF Longs
  <2>3. Applied("-", Value(0), x) = Exact(u)
    BY <1>5, <2>1, <2>2
  <2>4. Exact(u) # Error
    BY <2>2, ExactIs
  <2>5. ASSUME NEW v \in Longs, Exact(u) = Value(v) PROVE Wrap(u) = v
    <3>1. u \in Longs
      BY <2>2, <2>5, ExactIs, MeansApart
    <3>2. Value(u) = Value(v)
      BY <2>2, <2>5, <3>1, ExactIs
    <3>3. u = v
      BY <3>2, MeansApart
    <3> QED BY <2>2, <3>1, <3>3, WrapIs
  <2> QED BY <2>2, <2>3, <2>4, <2>5
<1> QED BY <1>3, <1>4, <1>5 DEF Means

\* A factor behind a sign.
LEMMA MinusMeant ==
  ASSUME NEW text, NEW i, NEW j, PartOf(text, i, j), NEW P, Parsing(text, P), NEW x \in Means,
         text[i + 1] = "-", FactorMeant(text, P, i + 1, j, x)
  PROVE  FactorMeant(text, P, i, j, Applied("-", Value(0), x))
<1> SUFFICES ASSUME NEW s \in States(text), s.at = i, Accepted(s)
             PROVE  FactorDone(text, P.factor[s], j, Applied("-", Value(0), x))
  BY DEF FactorMeant
<1>1. /\ i \in Nat /\ j \in Nat /\ Len(text) \in Nat /\ i < Len(text)
      /\ text \in Seq(CalcChars) /\ i \in 0 .. Len(text)
  BY PartIs
<1>2. Behind(text, i, {Gap}) = i
  BY <1>1, CharsApart, NoGap
<1>3. PICK c, d \in States(text) : Negated(text, P, s, c, d)
  <2>1. IsA(text, i, {"-"}) /\ ~s.trap
    BY <1>1 DEF IsA, Accepted
  <2> QED BY <1>1, <1>2, <2>1, FactorMinus
<1>4. c.at = i + 1 /\ Accepted(c) /\ d = P.factor[c] /\ P.factor[s] = [d EXCEPT !.v = Wrap(-d.v)]
  BY <1>2, <1>3 DEF Negated, Accepted
<1>5. FactorDone(text, d, j, x)
  BY <1>4 DEF FactorMeant
<1>6. ASSUME NEW v \in Longs, Applied("-", Value(0), x) = Value(v)
      PROVE  LET r == P.factor[s]
             IN  Accepted(r) /\ r.v = v /\ Behind(text, r.at, {Gap}) = Behind(text, j, {Gap})
  <2>1. PICK w \in Longs : x = Value(w) /\ Wrap(-w) = v
    BY <1>6, NegationIs
  <2>2. Accepted(d) /\ d.v = w /\ Behind(text, d.at, {Gap}) = Behind(text, j, {Gap})
    BY <1>5, <2>1 DEF FactorDone
  <2>3. PICK r : r = P.factor[s] /\ r = [d EXCEPT !.v = v]
    BY <1>4, <2>1, <2>2
  <2>4. r.at = d.at /\ r.v = v /\ Accepted(r)
    BY <2>2, <2>3 DEF States, Accepted
  <2> QED BY <2>2, <2>3, <2>4
<1>7. ASSUME Applied("-", Value(0), x) = Error PROVE Dead(P.factor[s])
  <2>1. Dead(d)
    BY <1>5, <1>7, NegationIs DEF FactorDone
  <2> QED BY <1>4, <2>1, DeadValue
<1> QED BY <1>6, <1>7 DEF FactorDone

\* An expression in parentheses.
LEMMA ParenMeant ==
  ASSUME NEW text, NEW i, NEW j, PartOf(text, i, j), NEW P, Parsing(text, P), NEW m,
         text[i + 1] = "(", text[j] = ")", ExprMeant(text, P, i + 1, j - 1, m)
  PROVE  FactorMeant(text, P, i, j, m)
<1> SUFFICES ASSUME NEW s \in States(text), s.at = i, Accepted(s) PROVE FactorDone(text, P.factor[s], j, m)
  BY DEF FactorMeant
<1>1. /\ i \in Nat /\ j \in Nat /\ Len(text) \in Nat /\ i < Len(text) /\ j <= Len(text) /\ i < j
      /\ text \in Seq(CalcChars) /\ i \in 0 .. Len(text)
  BY PartIs
<1>2. Behind(text, i, {Gap}) = i
  BY <1>1, CharsApart, NoGap
<1>3. PICK c, d, e \in States(text) : InParens(text, P, s, c, d, e)
  <2>1. IsA(text, i, {"("}) /\ ~s.trap
    BY <1>1 DEF IsA, Accepted
  <2> QED BY <1>1, <1>2, <2>1, FactorParen
<1>4. /\ c.at = i + 1 /\ Accepted(c) /\ d = P.expr[c] /\ e = skip(text, d)
      /\ P.factor[s] = IF IsA(text, e.at, {")"}) THEN Consumed(e) ELSE Failed(e)
  BY <1>2, <1>3 DEF InParens, Accepted
<1>5. PICK h \in 0 .. Len(text) : h = j - 1 /\ h + 1 = j /\ h < Len(text)
  BY <1>1
<1>6. ExprDone(text, P, d, h, m)
  BY <1>4, <1>5 DEF ExprMeant
<1>7. Behind(text, h, {Gap}) = h
  BY <1>1, <1>5, CharsApart, NoGap
<1>8. ASSUME NEW v \in Longs, m = Value(v)
      PROVE  LET r == P.factor[s]
             IN  Accepted(r) /\ r.v = v /\ Behind(text, r.at, {Gap}) = Behind(text, j, {Gap})
  <2>1. PICK t \in States(text) : t = Operand(text, h, v) /\ t.at = h /\ t.v = v /\ Accepted(t)
    <3>1. PICK t : t = Operand(text, h, v)
      OBVIOUS
    <3>2. t \in States(text) /\ t.at = Behind(text, h, {Gap}) /\ t.v = v /\ Accepted(t)
      BY <1>1, <1>5, <3>1, OperandIs
    <3> QED BY <1>7, <3>1, <3>2
  <2>2. d = P.expr_rest[t]
    BY <1>6, <1>8, <2>1 DEF ExprDone
  <2>3. ~IsA(text, h, {"+", "-"}) /\ ~IsA(text, h, {Gap}) /\ IsA(text, h, {")"})
    BY <1>5, CharsApart DEF IsA
  <2>4. skip(text, t) = t
    <3>1. ~IsA(text, t.at, {Gap})
      BY <2>1, <2>3
    <3> QED BY <1>1, <3>1, SkipIs
  <2>5. d = t
    BY <1>1, <1>7, <2>1, <2>2, <2>3, <2>4, ExprStops
  <2>6. e = t /\ P.factor[s] = Consumed(t)
    BY <1>4, <2>1, <2>3, <2>4, <2>5
  <2>7. Consumed(t).at = j /\ Consumed(t).v = v /\ (Consumed(t).ok <=> t.ok) /\ (Consumed(t).trap <=> t.trap)
    BY <1>1, <1>5, <2>1, ConsumedIs
  <2> QED BY <2>1, <2>6, <2>7 DEF Accepted
<1>9. ASSUME m = Error PROVE Dead(P.factor[s])
  <2>1. Dead(d)
    BY <1>6, <1>9 DEF ExprDone
  <2>2. Dead(e)
    BY <1>1, <1>4, <2>1, DeadMoves
  <2>3. ~e.trap
    BY <2>2 DEF Dead
  <2>4. Dead(Consumed(e)) /\ Dead(Failed(e))
    BY <1>1, <2>2, <2>3, DeadMoves
  <2> QED BY <1>4, <2>4
<1> QED BY <1>8, <1>9 DEF FactorDone

\* A gap in front of a factor, and one behind it.
LEMMA GapMeant ==
  ASSUME NEW text, NEW i, NEW j, PartOf(text, i, j), NEW P, Parsing(text, P), NEW m
  PROVE  /\ text[i + 1] = Gap /\ FactorMeant(text, P, i + 1, j, m) => FactorMeant(text, P, i, j, m)
         /\ text[j] = Gap /\ FactorMeant(text, P, i, j - 1, m) => FactorMeant(text, P, i, j, m)
<1>1. /\ i \in Nat /\ j \in Nat /\ Len(text) \in Nat /\ i < Len(text) /\ j <= Len(text) /\ i < j
      /\ text \in Seq(CalcChars) /\ i \in 0 .. Len(text) /\ i + 1 \in 0 .. Len(text)
  BY PartIs
<1>2. ASSUME text[i + 1] = Gap, FactorMeant(text, P, i + 1, j, m), NEW s \in States(text), s.at = i, Accepted(s)
      PROVE  FactorDone(text, P.factor[s], j, m)
  <2>1. PICK t \in States(text) : t = [s EXCEPT !.at = i + 1] /\ t.at = i + 1 /\ Accepted(t)
    <3>1. PICK h \in 0 .. Len(text) : h = i + 1
      BY <1>1
    <3>2. PICK t : t = [s EXCEPT !.at = h]
      OBVIOUS
    <3>3. t \in States(text) /\ t.at = h /\ (t.ok <=> s.ok) /\ (t.trap <=> s.trap)
      BY <3>2 DEF States
    <3> QED BY <1>2, <3>1, <3>2, <3>3 DEF Accepted
  <2>2. Behind(text, i, {Gap}) = Behind(text, i + 1, {Gap})
    <3>1. IsA(text, i, {Gap})
      BY <1>1, <1>2 DEF IsA
    <3> QED BY <1>1, <3>1, BehindSteps
  <2>3. skip(text, s) = skip(text, t)
    <3>1. skip(text, s) = [s EXCEPT !.at = Behind(text, i, {Gap})]
      BY <1>2 DEF skip
    <3>2. skip(text, t) = [t EXCEPT !.at = Behind(text, i + 1, {Gap})]
      BY <2>1 DEF skip
    <3> QED BY <2>1, <2>2, <3>1, <3>2 DEF States
  <2>4. P.factor[s] = P.factor[t]
    BY <1>1, <2>3, FactorSkips
  <2> QED BY <1>2, <2>1, <2>4 DEF FactorMeant
<1>3. ASSUME text[j] = Gap, FactorMeant(text, P, i, j - 1, m), NEW s \in States(text), s.at = i, Accepted(s)
      PROVE  FactorDone(text, P.factor[s], j, m)
  <2>1. PICK h \in 0 .. Len(text) : h = j - 1 /\ h + 1 = j /\ h < Len(text)
    BY <1>1
  <2>2. FactorDone(text, P.factor[s], h, m)
    BY <1>3, <2>1 DEF FactorMeant
  <2>3. Behind(text, h, {Gap}) = Behind(text, j, {Gap})
    <3>1. IsA(text, h, {Gap})
      BY <1>3, <2>1 DEF IsA
    <3> QED BY <1>1, <2>1, <3>1, BehindSteps
  <2> QED BY <2>2, <2>3 DEF FactorDone
<1> QED BY <1>2, <1>3 DEF FactorMeant

\* The operand in front of which the loops look for an operator.
LEMMA SkipOperand ==
  ASSUME NEW text \in Seq(CalcChars), NEW s \in States(text), Accepted(s), NEW j \in 0 .. Len(text), NEW v, s.v = v,
         Behind(text, s.at, {Gap}) = Behind(text, j, {Gap})
  PROVE  skip(text, s) = Operand(text, j, v)
<1>1. PICK t \in States(text) : t = skip(text, s)
  BY SkipIs
<1>2. t.at = Behind(text, j, {Gap}) /\ t.v = v /\ Accepted(t)
  BY <1>1, SkipFlags DEF Accepted
<1> QED BY <1>1, <1>2, IsOperand

\* The loops stop where none of their operators follows.
LEMMA LoopsEnd ==
  ASSUME NEW text \in Seq(CalcChars), NEW P, Parsing(text, P), NEW j \in 0 .. Len(text), NEW v \in Longs
  PROVE  /\ ~IsA(text, Behind(text, j, {Gap}), {"*", "/", "%"}) =>
              P.term_rest[Operand(text, j, v)] = Operand(text, j, v)
         /\ ~IsA(text, Behind(text, j, {Gap}), {"+", "-"}) =>
              P.expr_rest[Operand(text, j, v)] = Operand(text, j, v)
<1>1. PICK t \in States(text) : t = Operand(text, j, v)
  BY OperandIs
<1>2. t.at = Behind(text, j, {Gap}) /\ t.v = v /\ Accepted(t)
  BY <1>1, OperandIs
<1>3. Behind(text, t.at, {Gap}) = Behind(text, j, {Gap})
  BY <1>2, BehindSteps
<1>4. skip(text, t) = t
  BY <1>1, <1>2, <1>3, SkipOperand
<1> QED BY <1>1, <1>3, <1>4, TermStops, ExprStops

\* The products of two operands, and the quotients.
LEMMA ProductMeans ==
  ASSUME NEW text \in Seq(CalcChars), NEW r \in States(text), Accepted(r), NEW op \in {"*", "/", "%"},
         NEW a \in Longs, NEW b \in Longs
  PROVE  /\ \A v \in Longs : Applied(op, Value(a), Value(b)) = Value(v) => Multiplied(r, op, a, b) = [r EXCEPT !.v = v]
         /\ Applied(op, Value(a), Value(b)) = Error => Dead(Multiplied(r, op, a, b))
<1>1. a \in Int /\ b \in Int /\ Half \in Nat /\ Half > 0
  BY CalcFacts DEF Longs
<1>2. Value(a) \in Means /\ Value(b) \in Means /\ Value(a) # Over /\ Value(b) # Over
  BY MeansApart DEF Means
<1>3. PICK m : m = Applied(op, Value(a), Value(b))
  OBVIOUS
<1>4. PICK u \in States(text) : u = Multiplied(r, op, a, b)
  BY MultipliedIs
<1>5. CASE op = "*"
  <2>1. PICK w \in Int : w = a * b
    BY <1>1
  <2>2. m = Exact(w)
    <3>1. op \in {"/", "%"} => b # 0
      BY <1>5
    <3> QED BY <1>3, <1>5, <2>1, <3>1, AppliedValues
  <2>3. u = [r EXCEPT !.v = Wrap(w)]
    <3>1. Multiplied(r, op, a, b) = [r EXCEPT !.v = Wrap(a * b)]
      BY <1>5 DEF Multiplied
    <3> QED BY <1>4, <2>1, <3>1, Zenon
  <2>4. m # Error
    BY <2>2, ExactIs
  <2>5. ASSUME NEW v \in Longs, m = Value(v) PROVE Wrap(w) = v
    <3>1. w \in Longs
      BY <2>2, <2>5, ExactIs, MeansApart
    <3>2. Value(w) = Value(v)
      BY <2>2, <2>5, <3>1, ExactIs
    <3>3. w = v
      BY <3>2, MeansApart
    <3> QED BY <3>1, <3>3, WrapIs
  <2> QED BY <1>3, <1>4, <2>3, <2>4, <2>5
<1>6. CASE op # "*" /\ b = 0
  <2>1. m = Error
    <3>1. Value(b) = Value(0)
      BY <1>6
    <3>2. op \in {"/", "%"}
      BY <1>6
    <3> QED BY <1>2, <1>3, <3>1, <3>2, AppliedFaults
  <2>2. ~u.ok /\ (u.trap <=> r.trap)
    BY <1>4, <1>6, MultipliedIs
  <2>3. Dead(u)
    BY <2>2 DEF Dead, Accepted
  <2> QED BY <1>3, <1>4, <2>1, <2>3, MeansApart
<1>7. CASE op # "*" /\ b # 0
  <2>1. PICK q \in Int, w \in Int : q = Quotient(a, b) /\ w = Remainder(a, b)
    BY <1>7, QuotientIs
  <2>2. op \in {"/", "%"}
    BY <1>7
  <2>3. op = "/" => m = Exact(q)
    BY <1>3, <1>7, <2>1, AppliedValues
  <2>4. op = "%" => m = IF q \in Longs THEN Exact(w) ELSE Over
    BY <1>3, <1>7, <2>1, AppliedValues
  <2>5. m # Error
    BY <2>1, <2>2, <2>3, <2>4, ExactIs, MeansApart
  <2>6. ASSUME NEW v \in Longs, m = Value(v) PROVE u = [r EXCEPT !.v = v]
    <3>1. q \in Longs
      BY <2>1, <2>2, <2>3, <2>4, <2>6, ExactIs, MeansApart
    <3>2. ~(a = -Half /\ b = -1)
      <4>1. Half \notin Longs
        BY <1>1 DEF Longs
      <4>2. (a = -Half /\ b = -1) => q = Half
        BY <1>7, <2>1, QuotientIs
      <4> QED BY <3>1, <4>1, <4>2
    <3>3. u = [r EXCEPT !.v = IF op = "/" THEN q ELSE w]
      <4>1. Multiplied(r, op, a, b) = [r EXCEPT !.v = IF op = "/" THEN Quotient(a, b) ELSE Remainder(a, b)]
        BY <1>7, <3>2 DEF Multiplied, Divided
      <4> QED BY <1>4, <2>1, <4>1, Zenon
    <3>4. CASE op = "/"
      <4>1. Value(q) = Value(v)
        BY <2>1, <2>3, <2>6, <3>1, <3>4, ExactIs
      <4>2. q = v
        BY <4>1, MeansApart
      <4> QED BY <3>3, <3>4, <4>2
    <3>5. CASE op = "%"
      <4>1. m = Exact(w)
        BY <2>4, <3>1, <3>5
      <4>2. w \in Longs
        BY <2>1, <2>6, <4>1, ExactIs, MeansApart
      <4>3. Value(w) = Value(v)
        BY <2>1, <2>6, <4>1, <4>2, ExactIs
      <4>4. w = v
        BY <4>3, MeansApart
      <4> QED BY <3>3, <3>5, <4>4
    <3> QED BY <2>2, <3>4, <3>5
  <2> QED BY <1>3, <1>4, <2>5, <2>6
<1> QED BY <1>5, <1>6, <1>7

\* The sums and the differences.
LEMMA SumMeans ==
  ASSUME NEW op \in {"+", "-"}, NEW a \in Longs, NEW b \in Longs
  PROVE  /\ \A v \in Longs : Applied(op, Value(a), Value(b)) = Value(v) =>
              Wrap(IF op = "+" THEN a + b ELSE a - b) = v
         /\ Applied(op, Value(a), Value(b)) # Error
<1>1. a \in Int /\ b \in Int
  BY CalcFacts DEF Longs
<1>2. PICK w \in Int : w = IF op = "+" THEN a + b ELSE a - b
  BY <1>1
<1>3. PICK m : m = Applied(op, Value(a), Value(b))
  OBVIOUS
<1>4. m = Exact(w)
  <2>1. op \in {"/", "%"} => b # 0
    OBVIOUS
  <2>2. CASE op = "+"
    BY <1>2, <1>3, <2>1, <2>2, AppliedValues
  <2>3. CASE op = "-"
    BY <1>2, <1>3, <2>1, <2>3, AppliedValues
  <2> QED BY <2>2, <2>3
<1>5. ASSUME NEW v \in Longs, m = Value(v) PROVE Wrap(w) = v
  <2>1. w \in Longs
    BY <1>4, <1>5, ExactIs, MeansApart
  <2>2. Value(w) = Value(v)
    BY <1>4, <1>5, <2>1, ExactIs
  <2>3. w = v
    BY <2>2, MeansApart
  <2> QED BY <2>1, <2>3, WrapIs
<1> QED BY <1>2, <1>3, <1>4, <1>5, ExactIs

\* A factor is a term, a term an expression when no operator of it follows.
LEMMA FactorTerm ==
  ASSUME NEW text, NEW i, NEW j, PartOf(text, i, j), NEW P, Parsing(text, P), NEW m, FactorMeant(text, P, i, j, m)
  PROVE  TermMeant(text, P, i, j, m)
<1> SUFFICES ASSUME NEW s \in States(text), s.at = i, Accepted(s) PROVE TermDone(text, P, P.term[s], j, m)
  BY DEF TermMeant
<1>1. text \in Seq(CalcChars) /\ j \in Nat /\ j <= Len(text) /\ Len(text) \in Nat
  BY PartIs
<1>2. j \in 0 .. Len(text)
  BY <1>1
<1>3. PICK r \in States(text) : r = P.factor[s]
  BY <1>1, ParsingTyped
<1>4. FactorDone(text, r, j, m)
  BY <1>3 DEF FactorMeant
<1>5. P.term[s] = P.term_rest[r]
  BY <1>1, <1>3, FirstOperand
<1>6. ASSUME NEW v \in Longs, m = Value(v) PROVE P.term[s] = P.term_rest[Operand(text, j, v)]
  <2>1. Accepted(r) /\ r.v = v /\ Behind(text, r.at, {Gap}) = Behind(text, j, {Gap})
    BY <1>4, <1>6 DEF FactorDone
  <2>2. skip(text, r) = Operand(text, j, v)
    BY <1>1, <1>2, <2>1, SkipOperand
  <2> QED BY <1>1, <1>5, <2>2, TermSkips
<1>7. m = Error => Dead(P.term[s])
  BY <1>1, <1>4, <1>5, DeadStays DEF FactorDone
<1> QED BY <1>6, <1>7 DEF TermDone

\* The same for a term and the loop of parse_expr.
LEMMA TermExpr ==
  ASSUME NEW text, NEW i, NEW j, PartOf(text, i, j), NEW P, Parsing(text, P), NEW m, TermMeant(text, P, i, j, m),
         ~IsA(text, Behind(text, j, {Gap}), {"*", "/", "%"})
  PROVE  ExprMeant(text, P, i, j, m)
<1> SUFFICES ASSUME NEW s \in States(text), s.at = i, Accepted(s) PROVE ExprDone(text, P, P.expr[s], j, m)
  BY DEF ExprMeant
<1>1. text \in Seq(CalcChars) /\ j \in Nat /\ j <= Len(text) /\ Len(text) \in Nat
  BY PartIs
<1>2. j \in 0 .. Len(text)
  BY <1>1
<1>3. PICK r \in States(text) : r = P.term[s]
  BY <1>1, ParsingTyped
<1>4. TermDone(text, P, r, j, m)
  BY <1>3 DEF TermMeant
<1>5. P.expr[s] = P.expr_rest[r]
  BY <1>1, <1>3, FirstOperand
<1>6. ASSUME NEW v \in Longs, m = Value(v) PROVE P.expr[s] = P.expr_rest[Operand(text, j, v)]
  <2>1. r = P.term_rest[Operand(text, j, v)]
    BY <1>4, <1>6 DEF TermDone
  <2>2. r = Operand(text, j, v)
    BY <1>1, <1>2, <2>1, LoopsEnd
  <2> QED BY <1>5, <2>2
<1>7. m = Error => Dead(P.expr[s])
  BY <1>1, <1>4, <1>5, DeadStays DEF TermDone
<1> QED BY <1>6, <1>7 DEF ExprDone

\* What two phrases with an operator mean, when the first one has a value.
LEMMA SecondOperand ==
  ASSUME NEW op \in Operators, NEW x \in Means, NEW y \in Means,
         Applied(op, x, y) # Over
  PROVE  x # Over /\ y # Over /\ (Applied(op, x, y) # Error => x # Error /\ y # Error)
BY AppliedFaults, MeansApart

\* The loop of parse_term applies its operators from the left.
LEMMA TermPairMeant ==
  ASSUME NEW text, NEW i, NEW j, PartOf(text, i, j), NEW P, Parsing(text, P), NEW k \in i + 1 .. j - 2,
         text[k + 1] \in {"*", "/", "%"}, NEW x \in Means, NEW y \in Means,
         TermMeant(text, P, i, k, x), FactorMeant(text, P, k + 1, j, y)
  PROVE  TermMeant(text, P, i, j, Applied(text[k + 1], x, y))
<1> SUFFICES ASSUME NEW s \in States(text), s.at = i, Accepted(s)
             PROVE  TermDone(text, P, P.term[s], j, Applied(text[k + 1], x, y))
  BY DEF TermMeant
<1>1. text \in Seq(CalcChars) /\ i \in Nat /\ j \in Nat /\ j <= Len(text) /\ Len(text) \in Nat
  BY PartIs
<1>2. j \in 0 .. Len(text) /\ k \in 0 .. Len(text) /\ k < Len(text)
  BY <1>1
<1>3. PICK op \in {"*", "/", "%"} : op = text[k + 1]
  OBVIOUS
<1>4. PICK m : m = Applied(op, x, y)
  OBVIOUS
<1>5. TermDone(text, P, P.term[s], k, x)
  BY DEF TermMeant
<1>6. CASE m = Over
  <2>1. \A v : m # Value(v)
    BY <1>6, MeansApart
  <2> QED BY <1>3, <1>4, <1>6, <2>1, MeansApart DEF TermDone
<1>7. CASE x = Error
  <2>1. Dead(P.term[s])
    BY <1>5, <1>7 DEF TermDone
  <2>2. m = Over \/ m = Error
    BY <1>4, <1>7, AppliedFaults, MeansApart
  <2>3. \A v : m # Value(v)
    BY <2>2, MeansApart
  <2> QED BY <1>3, <1>4, <2>1, <2>3 DEF TermDone
<1>8. ASSUME m # Over, NEW a \in Longs, x = Value(a)
      PROVE  TermDone(text, P, P.term[s], j, m)
  <2>1. Behind(text, k, {Gap}) = k
    BY <1>1, <1>2, CharsApart, NoGap
  <2>2. PICK t \in States(text) : t = Operand(text, k, a)
    BY <1>1, <1>2, OperandIs
  <2>3. t.at = k /\ t.v = a /\ Accepted(t)
    BY <1>1, <1>2, <2>1, <2>2, OperandIs
  <2>4. P.term[s] = P.term_rest[t]
    BY <1>5, <1>8, <2>2 DEF TermDone
  <2>5. PICK c, r \in States(text) : TermRound(text, P, t, c, r)
    <3>1. IsA(text, k, {"*", "/", "%"}) /\ ~t.trap
      BY <1>2, <2>3 DEF IsA, Accepted
    <3> QED BY <1>1, <2>1, <2>3, <3>1, TermLoops
  <2>6. c.at = k + 1 /\ Accepted(c) /\ r = P.factor[c]
    BY <2>1, <2>3, <2>5 DEF TermRound, Accepted
  <2>7. FactorDone(text, r, j, y)
    BY <2>6 DEF FactorMeant
  <2>8. y # Over
    <3>1. op \in Operators
      BY DEF Operators
    <3> QED BY <1>4, <1>8, <3>1, SecondOperand
  <2>9. CASE y = Error
    <3>1. Dead(r)
      BY <2>7, <2>9 DEF FactorDone
    <3>2. P.term_rest[t] = [r EXCEPT !.v = 0]
      BY <2>5, <3>1 DEF TermRound, Dead
    <3>3. Dead(P.term_rest[t])
      BY <3>1, <3>2, DeadValue
    <3>4. m = Error
      BY <1>4, <1>8, <2>9, AppliedFaults, MeansApart
    <3>5. \A v : m # Value(v)
      BY <3>4, MeansApart
    <3> QED BY <2>4, <3>3, <3>5 DEF TermDone
  <2>10. ASSUME NEW b \in Longs, y = Value(b) PROVE TermDone(text, P, P.term[s], j, m)
    <3>1. Accepted(r) /\ r.v = b /\ Behind(text, r.at, {Gap}) = Behind(text, j, {Gap})
      BY <2>7, <2>10 DEF FactorDone
    <3>2. PICK u \in States(text) : u = Multiplied(r, op, a, b)
      BY <1>1, MultipliedIs
    <3>3. P.term_rest[t] = P.term_rest[u]
      <4>1. ~(r.trap \/ ~r.ok)
        BY <3>1 DEF Accepted
      <4>2. P.term_rest[t] = P.term_rest[Multiplied(r, text[Behind(text, t.at, {Gap}) + 1], t.v, r.v)]
        BY <2>5, <4>1 DEF TermRound
      <4>3. text[Behind(text, t.at, {Gap}) + 1] = op
        BY <1>3, <2>1, <2>3
      <4> QED BY <2>3, <3>1, <3>2, <4>2, <4>3
    <3>4. m = Applied(op, Value(a), Value(b))
      BY <1>4, <1>8, <2>10
    <3>5. ASSUME NEW v \in Longs, m = Value(v) PROVE P.term[s] = P.term_rest[Operand(text, j, v)]
      <4>0. Applied(op, Value(a), Value(b)) = Value(v) => Multiplied(r, op, a, b) = [r EXCEPT !.v = v]
        BY <1>1, <3>1, ProductMeans
      <4>1. u = [r EXCEPT !.v = v]
        BY <3>2, <3>4, <3>5, <4>0, Zenon
      <4>2. u.at = r.at /\ u.v = v /\ Accepted(u)
        BY <3>1, <4>1 DEF States, Accepted
      <4>3. skip(text, u) = Operand(text, j, v)
        <5>1. Behind(text, u.at, {Gap}) = Behind(text, j, {Gap})
          BY <3>1, <4>2, Zenon
        <5> QED BY <1>1, <1>2, <4>2, <5>1, SkipOperand, Zenon
      <4>4. P.term_rest[u] = P.term_rest[skip(text, u)]
        BY <1>1, <3>2, TermSkips, Zenon
      <4> QED BY <2>4, <3>3, <4>3, <4>4, Zenon
    <3>6. ASSUME m = Error PROVE Dead(P.term[s])
      <4>1. Dead(u)
        BY <1>1, <3>1, <3>2, <3>4, <3>6, ProductMeans
      <4> QED BY <1>1, <2>4, <3>3, <4>1, DeadStays
    <3> QED BY <3>5, <3>6 DEF TermDone
  <2> QED BY <2>8, <2>9, <2>10 DEF Means
<1>9. TermDone(text, P, P.term[s], j, m)
  <2>1. CASE x = Over
    <3>1. m = Over
      BY <1>4, <2>1, AppliedFaults
    <3>2. \A v : m # Value(v)
      BY <3>1, MeansApart
    <3> QED BY <3>1, <3>2, MeansApart DEF TermDone
  <2> QED BY <1>3, <1>4, <1>6, <1>7, <1>8, <2>1 DEF Means
<1> QED BY <1>3, <1>4, <1>9

\* So does the loop of parse_expr.
LEMMA ExprPairMeant ==
  ASSUME NEW text, NEW i, NEW j, PartOf(text, i, j), NEW P, Parsing(text, P), NEW k \in i + 1 .. j - 2,
         text[k + 1] \in {"+", "-"}, NEW x \in Means, NEW y \in Means,
         ExprMeant(text, P, i, k, x), TermMeant(text, P, k + 1, j, y),
         ~IsA(text, Behind(text, j, {Gap}), {"*", "/", "%"})
  PROVE  ExprMeant(text, P, i, j, Applied(text[k + 1], x, y))
<1> SUFFICES ASSUME NEW s \in States(text), s.at = i, Accepted(s)
             PROVE  ExprDone(text, P, P.expr[s], j, Applied(text[k + 1], x, y))
  BY DEF ExprMeant
<1>1. text \in Seq(CalcChars) /\ i \in Nat /\ j \in Nat /\ j <= Len(text) /\ Len(text) \in Nat
  BY PartIs
<1>2. j \in 0 .. Len(text) /\ k \in 0 .. Len(text) /\ k < Len(text)
  BY <1>1
<1>3. PICK op \in {"+", "-"} : op = text[k + 1]
  OBVIOUS
<1>4. PICK m : m = Applied(op, x, y)
  OBVIOUS
<1>5. ExprDone(text, P, P.expr[s], k, x)
  BY DEF ExprMeant
<1>6. CASE m = Over
  <2>1. \A v : m # Value(v)
    BY <1>6, MeansApart
  <2> QED BY <1>3, <1>4, <1>6, <2>1, MeansApart DEF ExprDone
<1>7. CASE x = Error
  <2>1. Dead(P.expr[s])
    BY <1>5, <1>7 DEF ExprDone
  <2>2. m = Over \/ m = Error
    BY <1>4, <1>7, AppliedFaults, MeansApart
  <2>3. \A v : m # Value(v)
    BY <2>2, MeansApart
  <2> QED BY <1>3, <1>4, <2>1, <2>3 DEF ExprDone
<1>8. ASSUME m # Over, NEW a \in Longs, x = Value(a)
      PROVE  ExprDone(text, P, P.expr[s], j, m)
  <2>1. Behind(text, k, {Gap}) = k
    BY <1>1, <1>2, CharsApart, NoGap
  <2>2. PICK t \in States(text) : t = Operand(text, k, a)
    BY <1>1, <1>2, OperandIs
  <2>3. t.at = k /\ t.v = a /\ Accepted(t)
    BY <1>1, <1>2, <2>1, <2>2, OperandIs
  <2>4. P.expr[s] = P.expr_rest[t]
    BY <1>5, <1>8, <2>2 DEF ExprDone
  <2>5. PICK c, r \in States(text) : ExprRound(text, P, t, c, r)
    <3>1. IsA(text, k, {"+", "-"}) /\ ~t.trap
      BY <1>2, <2>3 DEF IsA, Accepted
    <3> QED BY <1>1, <2>1, <2>3, <3>1, ExprLoops
  <2>6. c.at = k + 1 /\ Accepted(c) /\ r = P.term[c]
    BY <2>1, <2>3, <2>5 DEF ExprRound, Accepted
  <2>7. TermDone(text, P, r, j, y)
    BY <2>6 DEF TermMeant
  <2>8. y # Over
    <3>1. op \in Operators
      BY DEF Operators
    <3> QED BY <1>4, <1>8, <3>1, SecondOperand
  <2>9. CASE y = Error
    <3>1. Dead(r)
      BY <2>7, <2>9 DEF TermDone
    <3>2. P.expr_rest[t] = [r EXCEPT !.v = 0]
      BY <2>5, <3>1 DEF ExprRound, Dead
    <3>3. Dead(P.expr_rest[t])
      <4>1. Dead([r EXCEPT !.v = 0])
        BY <3>1, DeadValue
      <4> QED BY <3>2, <4>1, Zenon
    <3>4. m = Error
      BY <1>4, <1>8, <2>9, AppliedFaults, MeansApart
    <3>5. \A v : m # Value(v)
      BY <3>4, MeansApart
    <3> QED BY <2>4, <3>3, <3>5 DEF ExprDone
  <2>10. ASSUME NEW b \in Longs, y = Value(b) PROVE ExprDone(text, P, P.expr[s], j, m)
    <3>0. r = Operand(text, j, b)
      BY <1>1, <1>2, <2>7, <2>10, LoopsEnd DEF TermDone
    <3>1. Accepted(r) /\ r.v = b /\ r.at = Behind(text, j, {Gap})
      BY <1>1, <1>2, <3>0, OperandIs
    <3>2. PICK w : w = Wrap(IF op = "+" THEN a + b ELSE a - b)
      OBVIOUS
    <3>3. P.expr_rest[t] = P.expr_rest[[r EXCEPT !.v = w]]
      <4>1. ~(r.trap \/ ~r.ok)
        BY <3>1 DEF Accepted
      <4>2. P.expr_rest[t] = P.expr_rest[[r EXCEPT !.v =
              Wrap(IF text[Behind(text, t.at, {Gap}) + 1] = "+" THEN t.v + r.v ELSE t.v - r.v)]]
        BY <2>5, <4>1 DEF ExprRound
      <4>3. text[Behind(text, t.at, {Gap}) + 1] = op
        BY <1>3, <2>1, <2>3
      <4> QED BY <2>3, <3>1, <3>2, <4>2, <4>3
    <3>4. m = Applied(op, Value(a), Value(b))
      BY <1>4, <1>8, <2>10
    <3>5. ASSUME NEW v \in Longs, m = Value(v) PROVE P.expr[s] = P.expr_rest[Operand(text, j, v)]
      <4>1. w = v
        BY <3>2, <3>4, <3>5, SumMeans
      <4>2. PICK u : u = [r EXCEPT !.v = v]
        OBVIOUS
      <4>3. u \in States(text) /\ u.at = r.at /\ u.v = v /\ Accepted(u)
        BY <3>1, <4>2 DEF States, Accepted
      <4>4. u = Operand(text, j, v)
        <5>1. u.at = Behind(text, j, {Gap})
          BY <3>1, <4>3
        <5> QED BY <1>1, <4>3, <5>1, IsOperand
      <4> QED BY <2>4, <3>3, <4>1, <4>2, <4>4
    <3>6. m # Error
      BY <3>4, SumMeans
    <3> QED BY <3>5, <3>6 DEF ExprDone
  <2> QED BY <2>8, <2>9, <2>10 DEF Means
<1>9. ExprDone(text, P, P.expr[s], j, m)
  <2>1. CASE x = Over
    <3>1. m = Over
      BY <1>4, <2>1, AppliedFaults
    <3>2. \A v : m # Value(v)
      BY <3>1, MeansApart
    <3> QED BY <3>1, <3>2, MeansApart DEF ExprDone
  <2> QED BY <1>3, <1>4, <1>6, <1>7, <1>8, <2>1 DEF Means
<1> QED BY <1>3, <1>4, <1>9

\* The functions read the phrases of the text behind i, up to j, if the
\* characters that follow do not belong to them.
CompleteAt(text, P, i, j) ==
  \A m \in Means : ~IsA(text, j, Range(Digits)) =>
    /\ Phrase(text, "factor", i, j, m) => FactorMeant(text, P, i, j, m)
    /\ Phrase(text, "term", i, j, m) => TermMeant(text, P, i, j, m)
    /\ Phrase(text, "expr", i, j, m) /\ ~IsA(text, Behind(text, j, {Gap}), {"*", "/", "%"}) =>
         ExprMeant(text, P, i, j, m)

ShorterComplete(text, P, n) ==
  \A a, b \in 0 .. Len(text) : PartOf(text, a, b) /\ b - a < n => CompleteAt(text, P, a, b)

\* A character that is no digit.
LEMMA NoDigit ==
  ASSUME NEW text, NEW i, text[i + 1] \in Operators \cup {"(", ")", Gap}
  PROVE  ~IsA(text, i, Range(Digits))
<1>1. text[i + 1] \notin Range(Digits)
  BY DigitApart DEF Operators
<1> QED BY <1>1 DEF IsA

\* parse_factor reads every factor, if the functions read all shorter phrases.
LEMMA FactorComplete ==
  ASSUME NEW text, NEW i, NEW j, PartOf(text, i, j), NEW P, Parsing(text, P), ShorterComplete(text, P, j - i),
         NEW m \in Means, ~IsA(text, j, Range(Digits)), Phrase(text, "factor", i, j, m)
  PROVE  FactorMeant(text, P, i, j, m)
<1>1. /\ text \in Seq(CalcChars) /\ i \in Nat /\ j \in Nat /\ i < j /\ j <= Len(text) /\ Len(text) \in Nat
      /\ Len(text) <= CalcMax
  BY PartIs
<1>2. PICK L \in Nat : L = Len(text)
  BY <1>1
<1>3. i + 1 \in 0 .. L /\ j - 1 \in 0 .. L /\ j \in 0 .. L /\ i \in 0 .. L
        /\ j - (i + 1) < j - i /\ (j - 1) - i < j - i /\ (j - 1) - (i + 1) < j - i
  BY <1>1, <1>2
<1>4. FactorIn(text, i, j, m)
  BY FactorForward
<1>5. CASE (\A k \in i + 1 .. j : text[k] \in Range(Digits)) /\ m = Exact(Number(Span(text, i, j)))
  BY <1>5, NumMeant
<1>6. ASSUME text[i + 1] = "-", NEW x \in Means, Phrase(text, "factor", i + 1, j, x), m = Applied("-", Value(0), x)
      PROVE  FactorMeant(text, P, i, j, m)
  <2>1. PartOf(text, i + 1, j)
    BY <1>1, <1>2, <1>3, <1>6, PartPhrase
  <2>2. CompleteAt(text, P, i + 1, j)
    BY <1>2, <1>3, <2>1 DEF ShorterComplete
  <2>3. FactorMeant(text, P, i + 1, j, x)
    BY <1>6, <2>2 DEF CompleteAt
  <2> QED BY <1>6, <2>3, MinusMeant
<1>7. ASSUME text[i + 1] = "(", text[j] = ")", Phrase(text, "expr", i + 1, j - 1, m)
      PROVE  FactorMeant(text, P, i, j, m)
  <2>1. PICK h \in 0 .. L : h = j - 1 /\ h + 1 = j
    BY <1>1, <1>3
  <2>2. PartOf(text, i + 1, h)
    BY <1>1, <1>2, <1>3, <1>7, <2>1, PartPhrase
  <2>3. CompleteAt(text, P, i + 1, h)
    BY <1>2, <1>3, <2>1, <2>2 DEF ShorterComplete
  <2>4. text[h + 1] = ")"
    BY <1>7, <2>1
  <2>5. ~IsA(text, h, Range(Digits))
    BY <2>4, NoDigit
  <2>6. Behind(text, h, {Gap}) = h
    BY <1>1, <1>2, <2>1, <2>4, CharsApart, NoGap
  <2>7. ~IsA(text, Behind(text, h, {Gap}), {"*", "/", "%"})
    BY <2>4, <2>6, CharsApart DEF IsA
  <2>8. Phrase(text, "expr", i + 1, h, m)
    BY <1>7, <2>1
  <2>9. ExprMeant(text, P, i + 1, h, m)
    BY <2>3, <2>5, <2>7, <2>8 DEF CompleteAt
  <2> QED BY <1>7, <2>1, <2>9, ParenMeant
<1>8. ASSUME text[i + 1] = Gap, Phrase(text, "factor", i + 1, j, m)
      PROVE  FactorMeant(text, P, i, j, m)
  <2>1. PartOf(text, i + 1, j)
    BY <1>1, <1>2, <1>3, <1>8, PartPhrase
  <2>2. CompleteAt(text, P, i + 1, j)
    BY <1>2, <1>3, <2>1 DEF ShorterComplete
  <2>3. FactorMeant(text, P, i + 1, j, m)
    BY <1>8, <2>2 DEF CompleteAt
  <2> QED BY <1>8, <2>3, GapMeant
<1>9. ASSUME text[j] = Gap, Phrase(text, "factor", i, j - 1, m)
      PROVE  FactorMeant(text, P, i, j, m)
  <2>1. PICK h \in 0 .. L : h = j - 1 /\ h + 1 = j
    BY <1>1, <1>3
  <2>2. PartOf(text, i, h)
    BY <1>1, <1>2, <1>3, <1>9, <2>1, PartPhrase
  <2>3. CompleteAt(text, P, i, h)
    BY <1>2, <1>3, <2>1, <2>2 DEF ShorterComplete
  <2>4. text[h + 1] = Gap
    BY <1>9, <2>1
  <2>5. ~IsA(text, h, Range(Digits))
    BY <2>4, NoDigit
  <2>6. Phrase(text, "factor", i, h, m)
    BY <1>9, <2>1
  <2>7. FactorMeant(text, P, i, h, m)
    BY <2>3, <2>5, <2>6 DEF CompleteAt
  <2> QED BY <1>9, <2>1, <2>7, GapMeant
<1> QED BY <1>4, <1>5, <1>6, <1>7, <1>8, <1>9 DEF FactorIn

\* The two phrases of a pair, each on its own.
LEMMA PairParts ==
  ASSUME NEW text, NEW i, NEW j, PartOf(text, i, j), NEW lefts, NEW rights, NEW ops, NEW m,
         PairIn(text, i, j, lefts, rights, ops, m)
  PROVE  \E k \in i + 1 .. j - 2, x \in Means, y \in Means :
           /\ text[k + 1] \in ops /\ m = Applied(text[k + 1], x, y) /\ k \in 0 .. Len(text) /\ k + 1 \in 0 .. Len(text)
           /\ Phrase(text, lefts, i, k, x) /\ PartOf(text, i, k) /\ k - i < j - i
           /\ Phrase(text, rights, k + 1, j, y) /\ PartOf(text, k + 1, j) /\ j - (k + 1) < j - i
<1>1. /\ text \in Seq(CalcChars) /\ i \in Nat /\ j \in Nat /\ i < j /\ j <= Len(text) /\ Len(text) \in Nat
      /\ Len(text) <= CalcMax
  BY PartIs
<1>2. PICK k \in i + 1 .. j - 2 : \E x \in Means, y \in Means :
        /\ text[k + 1] \in ops /\ m = Applied(text[k + 1], x, y)
        /\ Phrase(text, lefts, i, k, x) /\ Phrase(text, rights, k + 1, j, y)
  BY DEF PairIn
<1>3. PICK x \in Means, y \in Means :
        /\ text[k + 1] \in ops /\ m = Applied(text[k + 1], x, y)
        /\ Phrase(text, lefts, i, k, x) /\ Phrase(text, rights, k + 1, j, y)
  BY <1>2
<1>4. k \in 0 .. Len(text) /\ k + 1 \in 0 .. Len(text) /\ i \in 0 .. Len(text) /\ j \in 0 .. Len(text)
        /\ k - i < j - i /\ j - (k + 1) < j - i
  BY <1>1
<1>5. PartOf(text, i, k) /\ PartOf(text, k + 1, j)
  BY <1>1, <1>3, <1>4, PartPhrase
<1> QED BY <1>3, <1>4, <1>5

\* parse_term reads every term.
LEMMA TermComplete ==
  ASSUME NEW text, NEW i, NEW j, PartOf(text, i, j), NEW P, Parsing(text, P), ShorterComplete(text, P, j - i),
         NEW m \in Means, ~IsA(text, j, Range(Digits)), Phrase(text, "term", i, j, m)
  PROVE  TermMeant(text, P, i, j, m)
<1>1. CASE Phrase(text, "factor", i, j, m)
  BY <1>1, FactorComplete, FactorTerm
<1>2. CASE PairIn(text, i, j, "term", "factor", {"*", "/", "%"}, m)
  <2>1. PICK k \in i + 1 .. j - 2, x \in Means, y \in Means :
          /\ text[k + 1] \in {"*", "/", "%"} /\ m = Applied(text[k + 1], x, y)
          /\ k \in 0 .. Len(text) /\ k + 1 \in 0 .. Len(text)
          /\ Phrase(text, "term", i, k, x) /\ PartOf(text, i, k) /\ k - i < j - i
          /\ Phrase(text, "factor", k + 1, j, y) /\ PartOf(text, k + 1, j) /\ j - (k + 1) < j - i
    BY <1>2, PairParts
  <2>2. i \in 0 .. Len(text) /\ j \in 0 .. Len(text)
    BY PartIs
  <2>3. CompleteAt(text, P, i, k) /\ CompleteAt(text, P, k + 1, j)
    BY <2>1, <2>2 DEF ShorterComplete
  <2>4. text[k + 1] \in Operators \cup {"(", ")", Gap}
    BY <2>1 DEF Operators
  <2>5. ~IsA(text, k, Range(Digits))
    BY <2>4, NoDigit
  <2>6. TermMeant(text, P, i, k, x) /\ FactorMeant(text, P, k + 1, j, y)
    BY <2>1, <2>3, <2>5 DEF CompleteAt
  <2>7. TermMeant(text, P, i, j, Applied(text[k + 1], x, y))
    BY <2>1, <2>6, TermPairMeant
  <2> QED BY <2>1, <2>7
<1> QED BY <1>1, <1>2, PhraseAt

\* parse_expr reads every expression.
LEMMA ExprComplete ==
  ASSUME NEW text, NEW i, NEW j, PartOf(text, i, j), NEW P, Parsing(text, P), ShorterComplete(text, P, j - i),
         NEW m \in Means, ~IsA(text, j, Range(Digits)), Phrase(text, "expr", i, j, m),
         ~IsA(text, Behind(text, j, {Gap}), {"*", "/", "%"})
  PROVE  ExprMeant(text, P, i, j, m)
<1>1. CASE Phrase(text, "term", i, j, m)
  <2>1. TermMeant(text, P, i, j, m)
    BY <1>1, TermComplete
  <2> QED BY <2>1, TermExpr
<1>2. CASE PairIn(text, i, j, "expr", "term", {"+", "-"}, m)
  <2>1. PICK k \in i + 1 .. j - 2, x \in Means, y \in Means :
          /\ text[k + 1] \in {"+", "-"} /\ m = Applied(text[k + 1], x, y)
          /\ k \in 0 .. Len(text) /\ k + 1 \in 0 .. Len(text)
          /\ Phrase(text, "expr", i, k, x) /\ PartOf(text, i, k) /\ k - i < j - i
          /\ Phrase(text, "term", k + 1, j, y) /\ PartOf(text, k + 1, j) /\ j - (k + 1) < j - i
    BY <1>2, PairParts
  <2>2. i \in 0 .. Len(text) /\ j \in 0 .. Len(text) /\ text \in Seq(CalcChars)
    BY PartIs
  <2>3. CompleteAt(text, P, i, k) /\ CompleteAt(text, P, k + 1, j)
    BY <2>1, <2>2 DEF ShorterComplete
  <2>4. text[k + 1] \in Operators \cup {"(", ")", Gap}
    BY <2>1 DEF Operators
  <2>5. ~IsA(text, k, Range(Digits))
    BY <2>4, NoDigit
  <2>6. Behind(text, k, {Gap}) = k
    BY <2>1, <2>2, CharsApart, NoGap
  <2>7. ~IsA(text, Behind(text, k, {Gap}), {"*", "/", "%"})
    BY <2>1, <2>6 DEF IsA
  <2>8. ExprMeant(text, P, i, k, x) /\ TermMeant(text, P, k + 1, j, y)
    BY <2>1, <2>3, <2>5, <2>7 DEF CompleteAt
  <2>9. ExprMeant(text, P, i, j, Applied(text[k + 1], x, y))
    BY <2>1, <2>8, ExprPairMeant
  <2> QED BY <2>1, <2>9
<1> QED BY <1>1, <1>2, PhraseAt

\* The parser reads every phrase.
LEMMA ParserComplete ==
  ASSUME NEW text, NEW i, NEW j, PartOf(text, i, j), NEW P, Parsing(text, P)
  PROVE  CompleteAt(text, P, i, j)
<1> DEFINE T == {n \in Nat : ShorterComplete(text, P, n)}
<1>1. 0 \in T
  <2>1. ASSUME NEW a \in 0 .. Len(text), NEW b \in 0 .. Len(text), PartOf(text, a, b) PROVE ~(b - a < 0)
    <3>1. a \in Nat /\ b \in Nat /\ a < b
      BY <2>1, PartIs
    <3> QED BY <3>1
  <2> QED BY <2>1 DEF ShorterComplete
<1>2. ASSUME NEW n \in Nat, n \in T PROVE n + 1 \in T
  <2>1. ASSUME NEW a \in 0 .. Len(text), NEW b \in 0 .. Len(text), PartOf(text, a, b), b - a < n + 1
        PROVE  CompleteAt(text, P, a, b)
    <3>1. a \in Nat /\ b \in Nat /\ a < b
      BY <2>1, PartIs
    <3>2. b - a <= n
      BY <2>1, <3>1
    <3>3. ShorterComplete(text, P, b - a)
      <4>1. ASSUME NEW c \in 0 .. Len(text), NEW d \in 0 .. Len(text), PartOf(text, c, d), d - c < b - a
            PROVE  CompleteAt(text, P, c, d)
        <5>1. c \in Nat /\ d \in Nat
          BY <4>1, PartIs
        <5>2. d - c < n
          BY <3>1, <3>2, <4>1, <5>1
        <5> QED BY <1>2, <4>1, <5>2 DEF ShorterComplete
      <4> QED BY <4>1 DEF ShorterComplete
    <3> QED BY <2>1, <3>3, FactorComplete, TermComplete, ExprComplete DEF CompleteAt
  <2> QED BY <2>1 DEF ShorterComplete
<1>3. Nat \subseteq T
  <2> HIDE DEF T
  <2> QED BY <1>1, <1>2, InductionOnSet
<1>4. /\ i \in Nat /\ j \in Nat /\ i < j /\ j <= Len(text) /\ Len(text) \in Nat
  BY PartIs
<1>5. PICK n \in Nat : n = (j - i) + 1 /\ j - i < n
  BY <1>4
<1>6. i \in 0 .. Len(text) /\ j \in 0 .. Len(text)
  BY <1>4
<1> QED BY <1>3, <1>5, <1>6 DEF ShorterComplete

\* expr_eval from its first state to its last.
Start == [at |-> 0, v |-> 0, ok |-> TRUE, trap |-> FALSE]
Outcome(text, s) ==
  CASE s.trap -> Trap
    [] ~s.trap /\ (~s.ok \/ s.at < Len(text)) -> Error
    [] OTHER -> Value(s.v)

\* expr_eval runs the parser on the whole text.
LEMMA EvalIs ==
  ASSUME NEW text \in Seq(CalcChars)
  PROVE  \E P : /\ Parsing(text, P) /\ Start \in States(text) /\ Start.at = 0 /\ Accepted(Start)
                /\ P.expr[Start] \in States(text) /\ expr_eval(text) = Outcome(text, skip(text, P.expr[Start]))
<1>1. PICK P : P = Parser(text, Len(text) + 1)
  OBVIOUS
<1>2. Parsing(text, P)
  BY <1>1, ParserIs
<1>3. Start \in States(text) /\ Start.at = 0 /\ Accepted(Start)
  <2>1. 0 \in Longs /\ 0 \in 0 .. Len(text)
    BY CalcFacts DEF Longs
  <2> QED BY <2>1 DEF Start, States, Accepted
<1>4. P.expr[Start] \in States(text)
  BY <1>2, <1>3, ParsingTyped
<1>5. expr_eval(text) = Outcome(text, skip(text, P.expr[Start]))
  BY <1>1, Zenon DEF expr_eval, Outcome, Start
<1> QED BY <1>2, <1>3, <1>4, <1>5

\* The three outcomes.
LEMMA OutcomeIs ==
  ASSUME NEW text \in Seq(CalcChars), NEW s \in States(text)
  PROVE  /\ s.trap => Outcome(text, s) = Trap
         /\ ~s.trap /\ (~s.ok \/ s.at < Len(text)) => Outcome(text, s) = Error
         /\ ~s.trap /\ s.ok /\ ~(s.at < Len(text)) => Outcome(text, s) = Value(s.v)
BY DEF Outcome

\* expr_eval returns nothing else.
LEMMA EvalTyped ==
  ASSUME NEW text \in Seq(CalcChars)
  PROVE  expr_eval(text) \in {Error, Trap} \cup {Value(v) : v \in Longs}
<1>1. PICK P : /\ Parsing(text, P) /\ Start \in States(text)
               /\ P.expr[Start] \in States(text) /\ expr_eval(text) = Outcome(text, skip(text, P.expr[Start]))
  BY EvalIs
<1>2. PICK s \in States(text) : s = skip(text, P.expr[Start])
  BY <1>1, SkipIs
<1>3. s.v \in Longs
  BY StateAt
<1>4. Outcome(text, s) \in {Error, Trap} \cup {Value(v) : v \in Longs}
  BY <1>3, OutcomeIs
<1> QED BY <1>1, <1>2, <1>4

\* The outcomes are told apart.
LEMMA OutcomesApart ==
  Trap # Error /\ None # Error /\ None # Trap /\ \A v : Value(v) # Trap /\ Value(v) # Error /\ Value(v) # None
BY DEF Trap, Error, None, Value

\* A text whose value is printed is an expression.
LEMMA EvalSound ==
  ASSUME NEW text \in Seq(CalcChars), Len(text) <= CalcMax, NEW v, expr_eval(text) = Value(v)
  PROVE  Reads(text, "expr", 0, Len(text))
<1>1. PICK P : /\ Parsing(text, P) /\ Start \in States(text) /\ Start.at = 0
               /\ P.expr[Start] \in States(text) /\ expr_eval(text) = Outcome(text, skip(text, P.expr[Start]))
  BY EvalIs
<1>2. PICK r \in States(text) : r = P.expr[Start]
  BY <1>1
<1>3. PICK s \in States(text) : s = skip(text, r)
  BY SkipIs
<1>4. ~s.trap /\ s.ok /\ ~(s.at < Len(text))
  <2>1. Outcome(text, s) = Value(v)
    BY <1>1, <1>2, <1>3
  <2> QED BY <2>1, OutcomeIs, OutcomesApart
<1>5. PICK L \in Nat : L = Len(text)
  OBVIOUS
<1>6. PICK j \in 0 .. L : j = r.at
  BY <1>5, StateAt
<1>7. Accepted(r)
  BY <1>3, <1>4, SkipFlags DEF Accepted
<1>8. s.at = L /\ s.at = Behind(text, j, {Gap})
  <2>1. s.at \in 0 .. L
    BY <1>5, StateAt
  <2>2. s.at = Behind(text, j, {Gap})
    BY <1>3, <1>6, SkipFlags
  <2> QED BY <1>4, <1>5, <2>1, <2>2
<1>9. SoundAt(text, P, Start)
  BY <1>1, ParserSound
<1>10. Reads(text, "expr", 0, j)
  BY <1>1, <1>2, <1>6, <1>7, <1>9 DEF SoundAt
<1>11. 0 \in 0 .. L /\ "expr" \in PhraseKinds
  BY DEF PhraseKinds
<1>12. PartOf(text, 0, j)
  BY <1>5, <1>10, <1>11, ReadsPart
<1>13. L \in j .. Len(text) /\ Gaps(text, j, L)
  BY <1>5, <1>6, <1>8, SkipGaps
<1> QED BY <1>5, <1>10, <1>11, <1>12, <1>13, GapsBehind

\* The value of an expression is what is printed, and "err" if it has none.
LEMMA EvalComplete ==
  ASSUME NEW text \in Seq(CalcChars), Len(text) <= CalcMax, NEW m \in Means, m # Over,
         Phrase(text, "expr", 0, Len(text), m)
  PROVE  expr_eval(text) = m
<1>1. PICK P : /\ Parsing(text, P) /\ Start \in States(text) /\ Start.at = 0 /\ Accepted(Start)
               /\ P.expr[Start] \in States(text) /\ expr_eval(text) = Outcome(text, skip(text, P.expr[Start]))
  BY EvalIs
<1>2. PICK L \in Nat : L = Len(text)
  OBVIOUS
<1>3. 0 \in 0 .. L /\ L \in 0 .. L
  OBVIOUS
<1>4. PartOf(text, 0, L)
  BY <1>2, <1>3, PartPhrase
<1>5. \A S : ~IsA(text, L, S)
  BY <1>2 DEF IsA
<1>6. Behind(text, L, {Gap}) = L
  BY <1>2, <1>3, <1>5, BehindSteps
<1>7. ExprMeant(text, P, 0, L, m)
  <2>1. CompleteAt(text, P, 0, L)
    BY <1>1, <1>4, ParserComplete
  <2>2. ~IsA(text, Behind(text, L, {Gap}), {"*", "/", "%"}) /\ ~IsA(text, L, Range(Digits))
    BY <1>5, <1>6
  <2> QED BY <1>2, <2>1, <2>2 DEF CompleteAt
<1>8. ExprDone(text, P, P.expr[Start], L, m)
  BY <1>1, <1>7 DEF ExprMeant
<1>9. CASE m = Error
  <2>1. Dead(P.expr[Start])
    BY <1>8, <1>9 DEF ExprDone
  <2>2. PICK s \in States(text) : s = skip(text, P.expr[Start])
    BY <1>1, SkipIs
  <2>3. Dead(s)
    BY <1>1, <2>1, <2>2, DeadMoves
  <2>4. Outcome(text, s) = Error
    BY <2>3, OutcomeIs DEF Dead
  <2> QED BY <1>1, <1>9, <2>2, <2>4
<1>10. ASSUME NEW v \in Longs, m = Value(v) PROVE expr_eval(text) = m
  <2>1. PICK t \in States(text) : t = Operand(text, L, v)
    BY <1>2, <1>3, OperandIs
  <2>2. t.at = L /\ t.v = v /\ Accepted(t)
    BY <1>2, <1>3, <1>6, <2>1, OperandIs
  <2>3. P.expr[Start] = P.expr_rest[t]
    BY <1>8, <1>10, <2>1 DEF ExprDone
  <2>4. P.expr[Start] = t
    BY <1>1, <1>2, <1>3, <1>5, <1>6, <2>1, <2>3, LoopsEnd
  <2>5. skip(text, t) = t
    <3>1. ~IsA(text, t.at, {Gap})
      BY <1>5, <2>2
    <3> QED BY <3>1, SkipIs
  <2>6. Outcome(text, t) = Value(v)
    BY <1>2, <2>2, OutcomeIs DEF Accepted
  <2> QED BY <1>1, <1>10, <2>4, <2>5, <2>6
<1> QED BY <1>9, <1>10 DEF Means

\* The phrases of a text are its meanings.
LEMMA WholeText ==
  ASSUME NEW text \in Seq(CalcChars)
  PROVE  Span(text, 0, Len(text)) = text
<1>1. PICK L \in Nat : L = Len(text)
  OBVIOUS
<1>2. 0 \in 0 .. L /\ L \in 0 .. L /\ L - 0 = L
  OBVIOUS
<1>3. PICK w \in Seq(CalcChars) : w = Span(text, 0, L) /\ Len(w) = L
  BY <1>1, <1>2, SpanIs
<1>4. ASSUME NEW k \in 1 .. L PROVE w[k] = text[k]
  <2>1. k \in 1 .. L - 0 /\ 0 + k = k
    BY <1>2
  <2>2. Span(text, 0, L)[k] = text[0 + k]
    BY <1>1, <1>2, <2>1, SpanIs
  <2> QED BY <1>3, <2>1, <2>2
<1>5. w = text
  BY <1>1, <1>3, <1>4, SameChars
<1> QED BY <1>1, <1>3, <1>5

\* A text means what the phrase that it is means.
LEMMA MeaningsAre ==
  ASSUME NEW text \in Seq(CalcChars), Len(text) <= CalcMax, NEW m
  PROVE  <<text, m>> \in Meanings <=> Phrase(text, "expr", 0, Len(text), m)
<1>1. PICK L \in Nat : L = Len(text)
  OBVIOUS
<1>2. PICK z : z = <<text, m>> /\ z[1] = text
  <2>1. PICK z : z = <<text, m>>
    OBVIOUS
  <2>2. z[1] = text
    BY <2>1
  <2> QED BY <2>1, <2>2
<1>3. Phrase(text, "expr", 0, L, m) <=> 0 < L /\ z \in Phrases[L].expr
  <2>1. Span(text, 0, L) = text /\ L - 0 = L
    BY <1>1, WholeText
  <2> QED BY <1>2, <2>1 DEF Phrase
<1>4. z \in Meanings <=> \E n \in 1 .. CalcMax : z \in Phrases[n].expr
  BY DEF Meanings
<1>5. CalcMax \in Nat /\ L <= CalcMax
  BY <1>1, CalcFacts
<1>6. ASSUME NEW n \in 1 .. CalcMax, z \in Phrases[n].expr PROVE n = L
  <2>1. Len(z[1]) = n
    BY <1>6, PhraseText
  <2> QED BY <1>1, <1>2, <2>1
<1>7. 0 < L => L \in 1 .. CalcMax
  BY <1>5
<1>8. ASSUME z \in Meanings PROVE 0 < L /\ z \in Phrases[L].expr
  <2>1. PICK n \in 1 .. CalcMax : z \in Phrases[n].expr
    BY <1>4, <1>8
  <2>2. n = L
    BY <1>6, <2>1
  <2>3. 0 < n
    BY <1>5
  <2> QED BY <2>1, <2>2, <2>3
<1> QED BY <1>1, <1>2, <1>3, <1>4, <1>7, <1>8

\* A number at the end of the text.
LEMMA LastNumber ==
  ASSUME NEW text \in Seq(CalcChars), NEW P, Parsing(text, P), NEW s \in States(text), Accepted(s), s.at < Len(text),
         \A k \in s.at + 1 .. Len(text) : text[k] \in Range(Digits), NEW N \in Nat,
         N = Number(Span(text, s.at, Len(text))), N <= Half
  PROVE  P.factor[s] = Operand(text, Len(text), Wrap(N))
<1>1. PICK L \in Nat : L = Len(text)
  OBVIOUS
<1>2. PICK i \in 0 .. L : i = s.at
  BY <1>1, StateAt
<1>3. L \in i .. L /\ L \in 0 .. L /\ i < L /\ \A S : ~IsA(text, L, S)
  BY <1>1, <1>2 DEF IsA
<1>4. text[i + 1] # Gap /\ text[i + 1] # "(" /\ text[i + 1] # "-"
  <2>1. i + 1 \in s.at + 1 .. L
    BY <1>2, <1>3
  <2>2. text[i + 1] \in Range(Digits)
    BY <1>1, <2>1
  <2> QED BY <2>2, DigitApart
<1>5. Behind(text, i, {Gap}) = i /\ Behind(text, L, {Gap}) = L
  <2>1. Behind(text, i, {Gap}) = i
    BY <1>1, <1>4, NoGap
  <2>2. Behind(text, L, {Gap}) = L
    BY <1>1, <1>3, BehindSteps
  <2> QED BY <2>1, <2>2
<1>6. Behind(text, i, Range(Digits)) = L
  BY <1>1, <1>2, <1>3, BehindOne
<1>7. PICK t \in States(text) : t = skip(text, s) /\ t.at = i /\ t.ok /\ ~t.trap
  <2>1. skip(text, s) \in States(text)
    BY SkipIs
  <2>2. skip(text, s).at = i /\ skip(text, s).ok /\ ~skip(text, s).trap
    BY <1>2, <1>5, SkipFlags DEF Accepted
  <2> QED BY <2>1, <2>2
<1>8. P.factor[s] = parse_num(text, t)
  <2>1. ~IsA(text, i, {"("}) /\ ~IsA(text, i, {"-"}) /\ ~s.trap
    BY <1>4 DEF IsA, Accepted
  <2> QED BY <1>2, <1>5, <1>7, <2>1, FactorNum
<1>9. PICK a, b, f :
        /\ a = Behind(text, t.at, {Gap}) /\ b = Behind(text, a, Range(Digits)) /\ DigitRun(f, text, a, b - a)
        /\ parse_num(text, t) = [at |-> b, v |-> f[b - a], ok |-> (t.ok /\ b > a), trap |-> t.trap]
  BY NumIs
<1>10. a = i /\ b = L
  BY <1>5, <1>6, <1>7, <1>9
<1>11. PICK r : r = P.factor[s] /\ r.at = L /\ r.v = f[L - i] /\ Accepted(r)
  <2>1. PICK r : r = [at |-> b, v |-> f[b - a], ok |-> (t.ok /\ b > a), trap |-> t.trap]
    OBVIOUS
  <2>2. r.at = b /\ r.v = f[b - a]
    BY <2>1
  <2>3. r.ok = (t.ok /\ b > a)
    BY <2>1
  <2>4. r.trap = t.trap
    BY <2>1
  <2>5. b > a
    BY <1>3, <1>10
  <2>6. Accepted(r)
    BY <1>7, <2>3, <2>4, <2>5, Zenon DEF Accepted
  <2>7. P.factor[s] = r
    BY <1>8, <1>9, <2>1, Zenon
  <2> QED BY <1>10, <2>2, <2>6, <2>7
<1>12. f[L - i] = Wrap(N)
  <2>1. DigitRun(f, text, i, L - i)
    BY <1>9, <1>10
  <2>2. \A k \in i + 1 .. L : text[k] \in Range(Digits)
    BY <1>1, <1>2
  <2>3. N = Number(Span(text, i, L))
    BY <1>1, <1>2
  <2> QED BY <1>1, <1>3, <2>1, <2>2, <2>3, NumberRead
<1>13. r \in States(text)
  BY <1>11, ParsingTyped
<1>14. r = Operand(text, L, Wrap(N))
  <2>1. r.at = Behind(text, L, {Gap}) /\ r.v = Wrap(N)
    BY <1>5, <1>11, <1>12
  <2>2. Accepted(r)
    BY <1>11
  <2> QED BY <1>13, <2>1, <2>2, IsOperand, Zenon
<1> QED BY <1>1, <1>11, <1>14

\* A factor that is the whole text.
LEMMA WholeFactor ==
  ASSUME NEW text \in Seq(CalcChars), NEW P, Parsing(text, P), Start \in States(text), NEW v \in Longs,
         P.factor[Start] = Operand(text, Len(text), v)
  PROVE  skip(text, P.expr[Start]) = Operand(text, Len(text), v) /\ Outcome(text, Operand(text, Len(text), v)) = Value(v)
<1>1. PICK L \in Nat : L = Len(text)
  OBVIOUS
<1>2. L \in 0 .. L /\ \A S : ~IsA(text, L, S)
  BY <1>1 DEF IsA
<1>3. Behind(text, L, {Gap}) = L
  BY <1>1, <1>2, BehindSteps
<1>4. PICK t \in States(text) : t = Operand(text, L, v)
  BY <1>1, <1>2, OperandIs
<1>5. t.at = L /\ t.v = v /\ Accepted(t)
  BY <1>1, <1>2, <1>3, <1>4, OperandIs
<1>6. P.term_rest[t] = t /\ P.expr_rest[t] = t
  BY <1>1, <1>2, <1>3, <1>4, LoopsEnd
<1>7. P.factor[Start] = t
  BY <1>1, <1>4
<1>8. P.term[Start] = t
  BY <1>6, <1>7, FirstOperand
<1>9. P.expr[Start] = t
  BY <1>6, <1>8, FirstOperand
<1>10. skip(text, t) = t
  <2>1. ~IsA(text, t.at, {Gap})
    BY <1>2, <1>5
  <2> QED BY <2>1, SkipIs
<1>11. Outcome(text, t) = Value(v)
  BY <1>1, <1>5, OutcomeIs DEF Accepted
<1> QED BY <1>1, <1>4, <1>9, <1>10, <1>11

\* The characters of the digits of a number stand for it.
LEMMA NumeralText ==
  ASSUME NEW u \in Nat
  PROVE  \E ds \in Seq(Range(Digits)) :
           /\ ds = [k \in DOMAIN Numeral(u, Radix) |-> Digits[Numeral(u, Radix)[k] + 1]]
           /\ Len(ds) > 0 /\ Number(ds) = u
<1>1. Radix \in Nat /\ Radix > 1
  BY CalcFacts
<1>2. PICK ns \in Seq(0 .. Radix - 1) : ns = Numeral(u, Radix) /\ Len(ns) > 0 /\ ValueOf(ns, Radix) = u
  BY <1>1, NumeralReads
<1>3. PICK n \in Nat : n = Len(ns) /\ n > 0 /\ DOMAIN ns = 1 .. n
  BY <1>2
<1>4. \A k \in 1 .. n : ns[k] \in 0 .. Radix - 1
  <2>1. PICK S : S = 0 .. Radix - 1
    OBVIOUS
  <2>2. ns \in Seq(S)
    BY <1>2, <2>1
  <2>3. \A k \in 1 .. Len(ns) : ns[k] \in S
    BY <2>2, ElementOfSeq
  <2> QED BY <1>3, <2>1, <2>3
<1>5. PICK ds : ds = [k \in DOMAIN ns |-> Digits[ns[k] + 1]]
  OBVIOUS
<1>6. \A k \in 1 .. n : ds[k] \in Range(Digits) /\ DigitValue(ds[k]) = ns[k]
  BY <1>3, <1>4, <1>5, DigitIs
<1>7. ds \in [1 .. n -> Range(Digits)]
  BY <1>3, <1>5, <1>6
<1>8. ds \in Seq(Range(Digits)) /\ Len(ds) = n /\ DOMAIN ds = 1 .. n
  BY <1>7
<1>9. [k \in DOMAIN ds |-> DigitValue(ds[k])] = ns
  <2>1. PICK vs : vs = [k \in DOMAIN ds |-> DigitValue(ds[k])]
    OBVIOUS
  <2>2. vs = [k \in 1 .. n |-> ns[k]]
    BY <1>6, <1>8, <2>1
  <2>3. ns = [k \in 1 .. n |-> ns[k]]
    BY <1>3
  <2> QED BY <2>1, <2>2, <2>3
<1>10. Number(ds) = u
  BY <1>2, <1>9 DEF Number
<1> QED BY <1>2, <1>3, <1>5, <1>8, <1>10

\* Digits are characters of a line.
LEMMA DigitChars == Range(Digits) \subseteq CalcChars /\ Seq(Range(Digits)) \subseteq Seq(CalcChars)
BY DEF CalcChars

\* A number that is no larger than the last long reads back.
LEMMA PlainReads ==
  ASSUME NEW v \in Longs, v >= 0
  PROVE  expr_eval(put_dec(v)) = Value(v)
<1>1. v \in Nat /\ Half \in Nat /\ v <= Half
  BY CalcFacts DEF Longs
<1>2. PICK ds \in Seq(Range(Digits)) :
        /\ ds = [k \in DOMAIN Numeral(v, Radix) |-> Digits[Numeral(v, Radix)[k] + 1]]
        /\ Len(ds) > 0 /\ Number(ds) = v
  BY <1>1, NumeralText
<1>3. ds \in Seq(CalcChars)
  BY DigitChars
<1>4. put_dec(v) = ds
  <2>1. PICK w : w = IF v < 0 THEN -(v + 1) + 1 ELSE v
    OBVIOUS
  <2>2. w = v /\ ~(v < 0)
    BY <1>1, <2>1
  <2>3. PICK e : e = <<>> /\ e \o ds = ds
    BY ConcatEmptySeq
  <2>4. put_dec(v) = (IF v < 0 THEN <<"-">> ELSE <<>>) \o [k \in DOMAIN Numeral(w, Radix) |-> Digits[Numeral(w, Radix)[k] + 1]]
    BY <2>1, Zenon DEF put_dec
  <2>5. put_dec(v) = <<>> \o ds
    BY <1>2, <2>2, <2>4, Zenon
  <2> QED BY <2>3, <2>5
<1>5. PICK P : /\ Parsing(ds, P) /\ Start \in States(ds) /\ Start.at = 0 /\ Accepted(Start)
               /\ P.expr[Start] \in States(ds) /\ expr_eval(ds) = Outcome(ds, skip(ds, P.expr[Start]))
  BY <1>3, EvalIs
<1>6. P.factor[Start] = Operand(ds, Len(ds), Wrap(v))
  <2>1. PICK L \in Nat : L = Len(ds) /\ L > 0
    BY <1>2
  <2>2. \A k \in Start.at + 1 .. Len(ds) : ds[k] \in Range(Digits)
    BY <1>5, <2>1
  <2>3. Span(ds, Start.at, Len(ds)) = ds
    BY <1>3, <1>5, WholeText
  <2>4. v = Number(Span(ds, Start.at, Len(ds))) /\ Start.at < Len(ds)
    BY <1>2, <1>5, <2>3
  <2> QED BY <1>1, <1>3, <1>5, <2>2, <2>4, LastNumber
<1>7. Wrap(v) = v
  BY <1>1, WrapIs
<1>8. skip(ds, P.expr[Start]) = Operand(ds, Len(ds), v) /\ Outcome(ds, Operand(ds, Len(ds), v)) = Value(v)
  BY <1>3, <1>5, <1>6, <1>7, WholeFactor
<1> QED BY <1>4, <1>5, <1>8

\* So does a negative one: the smallest long too, whose digits wrap once and
\* whose sign wraps them back.
LEMMA SignedReads ==
  ASSUME NEW v \in Longs, v < 0
  PROVE  expr_eval(put_dec(v)) = Value(v)
<1>1. Half \in Nat /\ Half > 0 /\ v \in Int
  BY CalcFacts DEF Longs
<1>2. PICK u \in Nat : u = -(v + 1) + 1 /\ u = -v /\ u > 0 /\ u <= Half
  BY <1>1 DEF Longs
<1>3. PICK ds \in Seq(Range(Digits)) :
        /\ ds = [k \in DOMAIN Numeral(u, Radix) |-> Digits[Numeral(u, Radix)[k] + 1]]
        /\ Len(ds) > 0 /\ Number(ds) = u
  BY NumeralText
<1>4. ds \in Seq(CalcChars) /\ "-" \in CalcChars
  BY DigitChars, CharSeqs DEF Operators
<1>5. PICK g \in Seq(CalcChars) : g = <<"-">> /\ Len(g) = 1 /\ g[1] = "-"
  BY <1>4, CharSeqs
<1>6. PICK n \in Nat : n = Len(ds) /\ n > 0
  BY <1>3
<1>7. PICK text \in Seq(CalcChars) : text = g \o ds /\ Len(text) = n + 1
  <2>1. g \o ds \in Seq(CalcChars) /\ Len(g \o ds) = 1 + n
    BY <1>4, <1>5, <1>6, ConcatProperties
  <2>2. 1 + n = n + 1
    OBVIOUS
  <2> QED BY <2>1, <2>2
<1>8. text[1] = "-" /\ \A k \in 2 .. n + 1 : text[k] = ds[k - 1]
  <2>1. \A k \in 1 .. 1 + n : text[k] = IF k <= 1 THEN g[k] ELSE ds[k - 1]
    BY <1>4, <1>5, <1>6, <1>7, ConcatProperties
  <2> QED BY <1>5, <1>6, <2>1
<1>9. put_dec(v) = text
  <2>1. PICK w : w = IF v < 0 THEN -(v + 1) + 1 ELSE v
    OBVIOUS
  <2>2. w = u
    BY <1>2, <2>1
  <2>4. put_dec(v) = (IF v < 0 THEN <<"-">> ELSE <<>>) \o [k \in DOMAIN Numeral(w, Radix) |-> Digits[Numeral(w, Radix)[k] + 1]]
    BY <2>1, Zenon DEF put_dec
  <2>5. put_dec(v) = <<"-">> \o ds
    BY <1>3, <2>2, <2>4, Zenon
  <2> QED BY <1>5, <1>7, <2>5
<1>10. Span(text, 1, n + 1) = ds
  <2>0. PICK l \in Nat : l = n + 1 /\ l = Len(text)
    BY <1>6, <1>7
  <2>1. 1 \in 0 .. l /\ l \in 1 .. l /\ l - 1 = n
    BY <1>6, <2>0
  <2>2. PICK x \in Seq(CalcChars) : x = Span(text, 1, l) /\ Len(x) = n
    BY <2>0, <2>1, SpanIs
  <2>3. ASSUME NEW k \in 1 .. n PROVE x[k] = ds[k]
    <3>1. k \in 1 .. l - 1 /\ 1 + k \in 2 .. n + 1 /\ (1 + k) - 1 = k
      BY <2>0, <2>1
    <3>4. \A h \in 1 .. l - 1 : Span(text, 1, l)[h] = text[1 + h]
      <4>1. PICK i \in 0 .. Len(text) : i = 1 /\ l \in i .. Len(text)
        BY <2>0, <2>1
      <4>2. \A h \in 1 .. l - i : Span(text, i, l)[h] = text[i + h]
        BY <4>1, SpanIs
      <4> QED BY <4>1, <4>2
    <3>2. x[k] = text[1 + k]
      BY <2>2, <3>1, <3>4
    <3>3. text[1 + k] = ds[(1 + k) - 1]
      BY <1>8, <3>1
    <3> QED BY <3>1, <3>2, <3>3
  <2>4. x = ds
    BY <1>4, <1>6, <2>2, <2>3, SameChars
  <2> QED BY <2>0, <2>2, <2>4
<1>11. PICK P : /\ Parsing(text, P) /\ Start \in States(text) /\ Start.at = 0 /\ Accepted(Start)
                /\ P.expr[Start] \in States(text) /\ expr_eval(text) = Outcome(text, skip(text, P.expr[Start]))
  BY EvalIs
<1>12. Behind(text, 0, {Gap}) = 0
  <2>1. 0 \in 0 .. Len(text) /\ text[0 + 1] # Gap
    BY <1>7, <1>8, CharsApart
  <2> QED BY <2>1, NoGap
<1>13. PICK c, d \in States(text) : Negated(text, P, Start, c, d)
  <2>1. IsA(text, 0, {"-"}) /\ ~Start.trap
    BY <1>6, <1>7, <1>8, <1>11 DEF IsA, Accepted
  <2> QED BY <1>11, <1>12, <2>1, FactorMinus
<1>14. c.at = 1 /\ Accepted(c) /\ d = P.factor[c] /\ P.factor[Start] = [d EXCEPT !.v = Wrap(-d.v)]
  BY <1>11, <1>12, <1>13 DEF Negated, Accepted
<1>15. d = Operand(text, Len(text), Wrap(u))
  <2>1. \A k \in 2 .. n + 1 : text[k] \in Range(Digits)
    <3> TAKE k \in 2 .. n + 1
    <3>1. k - 1 \in 1 .. n
      BY <1>6
    <3>2. ds[k - 1] \in Range(Digits)
      BY <1>6, <3>1
    <3> QED BY <1>8, <3>2
  <2>2. c.at + 1 = 2 /\ c.at < Len(text)
    BY <1>6, <1>7, <1>14
  <2>3. u = Number(Span(text, c.at, Len(text)))
    BY <1>3, <1>7, <1>10, <1>14
  <2>4. \A k \in c.at + 1 .. Len(text) : text[k] \in Range(Digits)
    BY <1>7, <2>1, <2>2
  <2>5. P.factor[c] = Operand(text, Len(text), Wrap(u))
    BY <1>2, <1>11, <1>14, <2>2, <2>3, <2>4, LastNumber
  <2> QED BY <1>14, <2>5
<1>16. Wrap(u) \in Longs /\ Wrap(-Wrap(u)) = v
  <2>1. CASE u < Half
    <3>1. u \in Longs /\ u \in Int /\ -u = v
      BY <1>1, <1>2, <2>1 DEF Longs
    <3>2. Wrap(u) = u
      BY <3>1, WrapIs
    <3>3. Wrap(v) = v
      BY <1>1, WrapIs
    <3> QED BY <3>1, <3>2, <3>3
  <2>2. CASE ~(u < Half)
    <3>1. u = Half /\ v = -Half /\ u \in Int /\ -v = u
      BY <1>1, <1>2, <2>2
    <3>2. Wrap(u) = v
      BY <3>1, WrapIs
    <3> QED BY <3>1, <3>2
  <2> QED BY <2>1, <2>2
<1>17. P.factor[Start] = Operand(text, Len(text), v)
  <2>1. d.at = Behind(text, Len(text), {Gap}) /\ d.v = Wrap(u) /\ Accepted(d)
    <3>1. Len(text) \in 0 .. Len(text)
      BY <1>7
    <3> QED BY <1>15, <1>16, <3>1, OperandIs
  <2>2. PICK r : r = [d EXCEPT !.v = v]
    OBVIOUS
  <2>3. r \in States(text) /\ r.at = d.at /\ r.v = v /\ Accepted(r)
    BY <2>1, <2>2 DEF States, Accepted
  <2>4. r.at = Behind(text, Len(text), {Gap})
    BY <2>1, <2>3
  <2>5. r = Operand(text, Len(text), v)
    BY <2>3, <2>4, IsOperand
  <2> QED BY <1>14, <1>16, <2>1, <2>2, <2>5
<1>18. skip(text, P.expr[Start]) = Operand(text, Len(text), v) /\ Outcome(text, Operand(text, Len(text), v)) = Value(v)
  BY <1>11, <1>17, WholeFactor
<1> QED BY <1>9, <1>11, <1>18

\* The inductive invariant of the calculator: what is shown is what the
\* evaluator makes of the line.
CalcInv == CalcTypeOK /\ (shown # None => shown = expr_eval(calc_line))

\* The calculator starts with an empty line.
LEMMA CalcStart == CalcInit => CalcInv
<1> SUFFICES ASSUME CalcInit PROVE CalcInv
  OBVIOUS
<1>1. calc_line = <<>> /\ shown = None
  BY DEF CalcInit
<1>2. <<>> \in Seq(CalcChars) /\ Len(<<>>) = 0 /\ CalcMax \in Nat
  BY CalcFacts
<1> QED BY <1>1, <1>2 DEF CalcInv, CalcTypeOK

\* Keys and lines keep the invariant.
LEMMA CalcStep == CalcInv /\ [CalcNext]_calcvars => CalcInv'
<1> SUFFICES ASSUME CalcInv, [CalcNext]_calcvars PROVE CalcInv'
  OBVIOUS
<1>1. calc_line \in Seq(CalcChars) /\ Len(calc_line) <= CalcMax /\ CalcMax \in Nat
  BY CalcFacts DEF CalcInv, CalcTypeOK
<1>2. ASSUME NEW c \in CalcChars, calc_key(c) PROVE CalcInv'
  <2>1. calc_line' = Append(calc_line, c) /\ shown' = None /\ Len(calc_line) < CalcMax
    BY <1>2 DEF calc_key
  <2>2. calc_line' \in Seq(CalcChars) /\ Len(calc_line') = Len(calc_line) + 1
    BY <1>1, <2>1
  <2> QED BY <1>1, <2>1, <2>2 DEF CalcInv, CalcTypeOK
<1>3. CASE calc_erase
  <2>1. calc_line # <<>> /\ calc_line' = Front(calc_line) /\ shown' = None
    BY <1>3 DEF calc_erase
  <2>2. Front(calc_line) \in Seq(CalcChars) /\ Len(Front(calc_line)) = Len(calc_line) - 1
    <3>1. PICK n \in Nat : n = Len(calc_line) /\ n > 0
      BY <1>1, <2>1, EmptySeq
    <3>2. Front(calc_line) = SubSeq(calc_line, 1, n - 1)
      BY <3>1 DEF Front
    <3>3. n - 1 \in 0 .. n /\ n - 1 \in Nat /\ \A k \in 1 .. n - 1 : k \in 1 .. n
      BY <3>1
    <3>4. SubSeq(calc_line, 1, n - 1) \in Seq(CalcChars) /\ Len(SubSeq(calc_line, 1, n - 1)) = n - 1
      BY <1>1, <3>1, <3>3, SubSeqProperties
    <3> QED BY <3>1, <3>2, <3>4
  <2> QED BY <1>1, <2>1, <2>2 DEF CalcInv, CalcTypeOK
<1>4. CASE calc_enter
  <2>1. shown' = expr_eval(calc_line) /\ calc_line' = calc_line
    BY <1>4 DEF calc_enter
  <2>2. shown' \in {Error, Trap} \cup {Value(v) : v \in Longs}
    BY <1>1, <2>1, EvalTyped
  <2> QED BY <1>1, <2>1, <2>2 DEF CalcInv, CalcTypeOK
<1>5. CASE calc_again
  <2>1. calc_line' = <<>> /\ shown' = None
    BY <1>5 DEF calc_again
  <2>2. <<>> \in Seq(CalcChars) /\ Len(<<>>) = 0
    OBVIOUS
  <2> QED BY <1>1, <2>1, <2>2 DEF CalcInv, CalcTypeOK
<1>6. CASE UNCHANGED calcvars
  <2>1. calc_line' = calc_line /\ shown' = shown
    BY <1>6 DEF calcvars
  <2> QED BY <2>1 DEF CalcInv, CalcTypeOK
<1> QED BY <1>2, <1>3, <1>4, <1>5, <1>6 DEF CalcNext

\* What is shown is what the line means.
LEMMA CalcShows == CalcInv => ShowsMeaning
<1> SUFFICES ASSUME CalcInv, shown # None
             PROVE  IF calc_line \in Texts
                    THEN <<calc_line, Over>> \in Meanings \/ <<calc_line, shown>> \in Meanings
                    ELSE shown \in {Error, Trap}
  BY DEF ShowsMeaning
<1>1. PICK text \in Seq(CalcChars) : text = calc_line /\ Len(text) <= CalcMax
  BY DEF CalcInv, CalcTypeOK
<1>2. shown = expr_eval(text)
  BY <1>1 DEF CalcInv
<1>3. ASSUME text \in Texts, <<text, Over>> \notin Meanings PROVE <<text, shown>> \in Meanings
  <2>1. PICK z \in Meanings : text = z[1]
    BY <1>3 DEF Texts
  <2>2. PICK n \in 1 .. CalcMax : z \in Phrases[n].expr
    BY <2>1 DEF Meanings
  <2>3. z = <<z[1], z[2]>> /\ z[2] \in Means
    BY <2>2, PhraseText
  <2>4. PICK m \in Means : m = z[2]
    BY <2>3
  <2>5. <<text, m>> \in Meanings
    BY <2>1, <2>3, <2>4
  <2>6. m # Over
    BY <1>3, <2>5
  <2>7. Phrase(text, "expr", 0, Len(text), m)
    BY <1>1, <2>5, MeaningsAre
  <2>8. expr_eval(text) = m
    BY <1>1, <2>6, <2>7, EvalComplete
  <2> QED BY <1>2, <2>5, <2>8
<1>4. ASSUME text \notin Texts PROVE shown \in {Error, Trap}
  <2>1. ASSUME NEW v, shown = Value(v) PROVE FALSE
    <3>1. PICK m \in Means : Phrase(text, "expr", 0, Len(text), m)
      BY <1>1, <1>2, <2>1, EvalSound DEF Reads
    <3>2. PICK z : z = <<text, m>>
      OBVIOUS
    <3>3. z \in Meanings /\ z[1] = text
      <4>1. <<text, m>> \in Meanings
        BY <1>1, <3>1, MeaningsAre
      <4>2. z[1] = text
        BY <3>2
      <4> QED BY <3>2, <4>1, <4>2
    <3> QED BY <1>4, <3>3 DEF Texts
  <2>2. shown \in {Error, Trap} \cup {Value(v) : v \in Longs}
    BY <1>2, EvalTyped
  <2> QED BY <2>1, <2>2
<1> QED BY <1>1, <1>3, <1>4

\* What put_dec prints is read back.
LEMMA CalcReads == CalcInv => ReadsBack
<1> SUFFICES ASSUME CalcInv, shown[1] = "value" PROVE expr_eval(put_dec(shown[2])) = shown
  BY DEF ReadsBack
<1>1. shown \in {None, Error, Trap} \cup {Value(v) : v \in Longs}
  BY DEF CalcInv, CalcTypeOK
<1>2. None[1] # "value" /\ Error[1] # "value" /\ Trap[1] # "value"
  BY DEF None, Error, Trap
<1>3. PICK v \in Longs : shown = Value(v)
  BY <1>1, <1>2
<1>4. shown[2] = v
  BY <1>3, MeansApart
<1>5. v \in Int
  BY CalcFacts DEF Longs
<1>6. expr_eval(put_dec(v)) = Value(v)
  BY <1>5, PlainReads, SignedReads
<1> QED BY <1>3, <1>4, <1>6

\* The same for what the calculator shows.
LEMMA CalcInductive == CalcSpec => []CalcInv
<1> QED BY CalcStart, CalcStep, PTL DEF CalcSpec
-----------------------------------------------------------------------------
(* The sessions.                                                           *)

\* A behaviour of Commands is one of each program: a step of a session is a
\* step of its program and leaves the others alone. What the programs promise
\* alone they promise together.
THEOREM SessionsImplement == CommandsSpec => PathSpec /\ MoonSpec /\ CalcSpec /\ ShellSpec
<1>1. CommandsInit => PathInit /\ MoonInit /\ CalcInit /\ ShellInit
  BY DEF CommandsInit
<1>2. [CommandsNext]_commandvars =>
        /\ [PathNext]_pathvars /\ [MoonNext]_moonvars /\ [CalcNext]_calcvars
        /\ [ShellNext]_<<vars, shellvars>>
  <2> SUFFICES ASSUME [CommandsNext]_commandvars
               PROVE  /\ [PathNext]_pathvars /\ [MoonNext]_moonvars /\ [CalcNext]_calcvars
                      /\ [ShellNext]_<<vars, shellvars>>
    OBVIOUS
  <2>1. CASE FilesSession
    <3>1. PathNext /\ UNCHANGED moonvars /\ UNCHANGED calcvars /\ UNCHANGED <<vars, shellvars>>
      BY <2>1, Zenon DEF FilesSession, In
    <3> QED BY <3>1
  <2>2. CASE MoonSession
    <3>1. MoonNext /\ UNCHANGED pathvars /\ UNCHANGED calcvars /\ UNCHANGED <<vars, shellvars>>
      BY <2>2, Zenon DEF MoonSession, In
    <3> QED BY <3>1
  <2>3. CASE CalcSession
    <3>1. CalcNext /\ UNCHANGED pathvars /\ UNCHANGED moonvars /\ UNCHANGED <<vars, shellvars>>
      BY <2>3, Zenon DEF CalcSession, In
    <3> QED BY <3>1
  <2>4. CASE PromptSession
    <3>1. ShellNext /\ UNCHANGED pathvars /\ UNCHANGED moonvars /\ UNCHANGED calcvars
      BY <2>4, Zenon DEF PromptSession, In
    <3> QED BY <3>1
  <2>5. CASE UNCHANGED commandvars
    <3>1. UNCHANGED pathvars /\ UNCHANGED moonvars /\ UNCHANGED calcvars /\ UNCHANGED <<vars, shellvars>>
      BY <2>5, Zenon DEF commandvars
    <3> QED BY <3>1
  <2> QED BY <2>1, <2>2, <2>3, <2>4, <2>5 DEF CommandsNext
<1> QED BY <1>1, <1>2, PTL DEF CommandsSpec, PathSpec, MoonSpec, CalcSpec, ShellSpec

\* The strings that cd builds and the clusters it keeps stay together.
LEMMA PathInductive == PathSpec => []PathInv
<1>1. PathInv /\ [PathNext]_pathvars => PathInv'
  BY PathStep, PathStutter
<1> QED BY <1>1, PathInitial, PTL DEF PathSpec

\* In every session of file commands, on every volume and for every length of
\* the path buffers: a path that does not climb above the working directory
\* leads where it means to lead, and the string of the prompt, the cluster
\* kept with it and what "ls" lists agree (abspath, walk and fat_chdir of
\* kernel/fat.c).
THEOREM PathsAlwaysLead == CommandsSpec => []PathsLead
<1>1. PathInv => PathsLead
  BY PathAgrees DEF PathsLead
<1> QED BY <1>1, PathInductive, SessionsImplement, PTL

\* In the same sessions fat_read looks for a file in the place in which
\* fat_write has saved it, though the two take the path apart differently.
THEOREM SavedAlwaysRead == CommandsSpec => []SavedIsRead
<1>1. PathInv => SavedIsRead
  BY PathSaved DEF SavedIsRead
<1> QED BY <1>1, PathInductive, SessionsImplement, PTL

\* The same for what moon has mounted and what it has listed last.
LEMMA MoonInductive == MoonSpec => []MoonInv
<1> QED BY MoonStart, MoonStep, PTL DEF MoonSpec

\* In every session of moon, for every partition table and every width of the
\* integers: an index below 2^31 mounts the partition of that index or is
\* refused, and a list that fits its buffer reads back as the table, each line
\* under the number that mounts it and the star at what is mounted (parse_idx,
\* SYS_MOUNT and SYS_PARTLIST with its emit helpers).
THEOREM MoonAlwaysTrue == CommandsSpec => []MoonTrue
<1>1. MoonInv => MoonTrue
  BY DEF MoonInv, MoonTrue
<1> QED BY <1>1, MoonInductive, SessionsImplement, PTL

\* In every session of the calculator, for every set of digits, every width of
\* the integers and every length of the line: an expression all of whose parts
\* are longs prints its exact value, a division by zero and a text that is no
\* expression print "err", and a printed value typed again is read as the same
\* value (the recursive descent of user/expr.c and put_dec of user/calc.c).
THEOREM CalcAlwaysRight == CommandsSpec => []CalcRight
<1>1. CalcInv => CalcRight
  BY CalcShows, CalcReads DEF CalcInv, CalcRight
<1> QED BY <1>1, CalcInductive, SessionsImplement, PTL
=============================================================================
