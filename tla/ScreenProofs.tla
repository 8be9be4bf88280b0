---------------------------- MODULE ScreenProofs ----------------------------
(***************************************************************************)
(* For every size of the screen, tab stop, alphabet and set of colours: no *)
(* operation of the terminal stores outside the screen, what is drawn      *)
(* after term_goto stays in its row, and the screen shows the end of the   *)
(* text written to it. For every length of line and of history: the shell *)
(* recalls the lines that were entered.                                    *)
(***************************************************************************)
EXTENDS Shell, FiniteSetTheorems, SequenceTheorems, WellFoundedInduction, TLAPS

\* A terminal between two steps of term_putc: the cursor may be one row below
\* the screen until scroll brings it back, with no wrap pending.
Between(t) ==
  /\ t \in [vga : Screen, row : 0 .. Rows, col : 0 .. Cols, wrap : BOOLEAN]
  /\ t.wrap <=> t.col = Cols
  /\ t.row = Rows => ~t.wrap

\* The same, from the parts of t.
LEMMA BetweenParts ==
  ASSUME NEW v \in Screen, NEW r \in 0 .. Rows, NEW c \in 0 .. Cols, NEW w \in BOOLEAN,
         w <=> c = Cols, r = Rows => ~w,
         NEW t, t = [vga |-> v, row |-> r, col |-> c, wrap |-> w]
  PROVE  Between(t)
  BY DEF Between

LEMMA BetweenNoWrap ==
  ASSUME NEW v \in Screen, NEW r \in 0 .. Rows, NEW c \in 0 .. Cols - 1,
         NEW t, t = [vga |-> v, row |-> r, col |-> c, wrap |-> FALSE]
  PROVE  Between(t)
<1>1. c \in 0 .. Cols /\ c # Cols BY VgaAssumption
<1>2. t \in [vga : Screen, row : 0 .. Rows, col : 0 .. Cols, wrap : BOOLEAN] BY <1>1
<1>3. t.wrap = FALSE /\ t.col = c OBVIOUS
<1> QED BY <1>1, <1>2, <1>3 DEF Between

\* A blank row and a blank screen have the types of a row and of a screen.
LEMMA BlankType ==
  ASSUME NEW a \in Colors
  PROVE  BlankRow(a) \in Line /\ Blank(a) \in Screen
  BY DEF BlankRow, Blank, Cell, Line, Screen

\* So has a screen that was shifted up or stored into.
LEMMA ShiftedType ==
  ASSUME NEW v \in Screen, NEW a \in Colors
  PROVE  Shifted(v, a) \in Screen
<1>1. \A r \in 0 .. Rows - 1 : (IF r = Rows - 1 THEN BlankRow(a) ELSE v[r + 1]) \in Line
  BY BlankType, VgaAssumption DEF Screen
<1> QED BY <1>1 DEF Shifted, Screen

LEMMA StoredType ==
  ASSUME NEW v \in Screen, NEW r \in 0 .. Rows - 1, NEW c \in 0 .. Cols - 1, NEW cell \in Cell
  PROVE  /\ Stored(v, r, c, cell) \in Screen
         /\ \A q \in 0 .. Rows - 1 : q # r => Stored(v, r, c, cell)[q] = v[q]
<1>1. v[r] \in Line BY DEF Screen
<1>2. [v[r] EXCEPT ![c] = cell] \in Line BY <1>1 DEF Line
<1>3. Stored(v, r, c, cell) = [v EXCEPT ![r] = [v[r] EXCEPT ![c] = cell]] BY DEF Stored
<1> QED BY <1>2, <1>3 DEF Screen

\* scroll, called when the cursor has left the screen, brings it back.
LEMMA ScrolledOK ==
  ASSUME NEW t, Between(t), NEW a \in Colors
  PROVE  TermOK(Scrolled(t, a))
<1>1. CASE t.row >= Rows
  <2>1. t.vga \in Screen /\ t.row = Rows /\ t.col \in 0 .. Cols /\ ~t.wrap /\ t.col # Cols
    BY <1>1, VgaAssumption DEF Between
  <2>2. Scrolled(t, a) = [vga |-> Shifted(t.vga, a), row |-> Rows - 1, col |-> t.col, wrap |-> FALSE]
    BY <1>1 DEF Scrolled, scroll
  <2>3. Shifted(t.vga, a) \in Screen BY <2>1, ShiftedType
  <2> QED BY <2>1, <2>2, <2>3, VgaAssumption DEF TermOK
<1>2. CASE ~(t.row >= Rows)
  <2>1. Scrolled(t, a) = t BY <1>2 DEF Scrolled
  <2> QED BY <1>2, <2>1, VgaAssumption DEF TermOK, Between
<1> QED BY <1>1, <1>2

\* Once the pending wrap has landed, only a newline or a carriage return can
\* still find one.
LEMMA LandOK ==
  ASSUME NEW t, TermOK(t), NEW a \in Colors, NEW c
  PROVE  TermOK(Land(t, a, c)) /\ (c \notin {NL, CR} => ~Land(t, a, c).wrap)
<1>1. CASE Lands(t, c)
  <2> DEFINE u == At(t, t.row + 1, 0, FALSE)
  <2>1. u = [vga |-> t.vga, row |-> t.row + 1, col |-> 0, wrap |-> FALSE] BY DEF At
  <2>2. t.vga \in Screen /\ t.row + 1 \in 0 .. Rows /\ 0 \in 0 .. Cols - 1
    BY VgaAssumption DEF TermOK
  <2> HIDE DEF u
  <2>3. Between(u) BY <2>1, <2>2, BetweenNoWrap
  <2>4. Land(t, a, c) = Scrolled(u, a) BY <1>1 DEF Land, u
  <2>5. TermOK(Scrolled(u, a)) BY <2>3, ScrolledOK
  <2>6. Scrolled(u, a).wrap = FALSE
    <3>1. scroll(u, a).wrap = FALSE BY DEF scroll
    <3>2. u.wrap = FALSE BY <2>1
    <3> QED BY <3>1, <3>2 DEF Scrolled
  <2> QED BY <2>4, <2>5, <2>6
<1>2. CASE ~Lands(t, c)
  BY <1>2 DEF Land, Lands, TermOK
<1> QED BY <1>1, <1>2

\* What a character does leaves the cursor on the screen or just below it.
LEMMA PutOK ==
  ASSUME NEW t, TermOK(t), NEW a \in Colors, NEW c \in Chars \cup Control,
         c \notin {NL, CR} => ~t.wrap
  PROVE  Between(Put(t, a, c))
<1> USE VgaAssumption
<1>a. /\ t.vga \in Screen /\ t.row \in 0 .. Rows - 1 /\ t.col \in 0 .. Cols
      /\ t.wrap \in BOOLEAN /\ (t.wrap <=> t.col = Cols)
  BY DEF TermOK
<1>b. 0 \in 0 .. Cols - 1 /\ t.row \in 0 .. Rows /\ t.row + 1 \in 0 .. Rows BY <1>a
<1>1. CASE c = NL
  <2>1. Put(t, a, c) = [vga |-> t.vga, row |-> t.row + 1, col |-> 0, wrap |-> FALSE]
    BY <1>1 DEF Put, At, NL, CR, BS, TAB
  <2> QED BY <2>1, <1>a, <1>b, BetweenNoWrap
<1>2. CASE c = CR
  <2>1. Put(t, a, c) = [vga |-> t.vga, row |-> t.row, col |-> 0, wrap |-> FALSE]
    BY <1>2 DEF Put, At, NL, CR, BS, TAB
  <2> QED BY <2>1, <1>a, <1>b, BetweenNoWrap
<1>3. CASE c = BS
  <2>1. Put(t, a, c) = Erased(t, a) BY <1>3 DEF Put, NL, CR, BS, TAB
  <2>2. CASE t.col > 0
    <3>1. t.wrap = FALSE BY <1>a, <1>3 DEF NL, CR, BS
    <3>2. Erased(t, a) = [vga |-> Stored(t.vga, t.row, t.col - 1, <<Space, a>>),
                          row |-> t.row, col |-> t.col - 1, wrap |-> FALSE]
      BY <2>2, <3>1 DEF Erased, Store, At
    <3>3. <<Space, a>> \in Cell BY DEF Cell
    <3>4. t.col - 1 \in 0 .. Cols - 1 BY <1>a, <2>2
    <3>5. Stored(t.vga, t.row, t.col - 1, <<Space, a>>) \in Screen
      BY <1>a, <3>3, <3>4, StoredType
    <3> QED BY <1>b, <2>1, <3>2, <3>4, <3>5, BetweenNoWrap
  <2>3. CASE ~(t.col > 0)
    <3>1. Erased(t, a) = t BY <2>3 DEF Erased
    <3> QED BY <2>1, <3>1 DEF Between, TermOK
  <2> QED BY <2>2, <2>3
<1>4. CASE c = TAB
  <2>1. Put(t, a, c) = Tabbed(t) BY <1>4 DEF Put, NL, CR, BS, TAB
  <2>2. t.wrap = FALSE BY <1>a, <1>4 DEF NL, CR, TAB
  <2>3. NextTab(t) \in Nat
    <3>1. t.col + TabStop \in Nat /\ TabStop \in Nat /\ TabStop > 0 BY <1>a
    <3>2. (t.col + TabStop) \div TabStop \in Nat BY <3>1
    <3> HIDE DEF NextTab
    <3> QED BY <3>1, <3>2 DEF NextTab
  <2>4. CASE NextTab(t) >= Cols
    <3>1. Tabbed(t) = [vga |-> t.vga, row |-> t.row + 1, col |-> 0, wrap |-> FALSE]
      BY <2>2, <2>4 DEF Tabbed, At
    <3> QED BY <1>a, <1>b, <2>1, <3>1, BetweenNoWrap
  <2>5. CASE ~(NextTab(t) >= Cols)
    <3>1. Tabbed(t) = [vga |-> t.vga, row |-> t.row, col |-> NextTab(t), wrap |-> FALSE]
      BY <2>2, <2>5 DEF Tabbed, At
    <3>2. NextTab(t) \in 0 .. Cols - 1 BY <2>3, <2>5
    <3> QED BY <1>a, <1>b, <2>1, <3>1, <3>2, BetweenNoWrap
  <2> QED BY <2>4, <2>5
<1>5. CASE c \in Chars
  <2>1. c \notin {NL, CR, BS, TAB} BY <1>5 DEF Control
  <2>2. ~t.wrap /\ t.col \in 0 .. Cols - 1 BY <2>1, <1>a
  <2> DEFINE v == Stored(t.vga, t.row, t.col, <<c, a>>)
  <2>3. Put(t, a, c) = [vga |-> v, row |-> t.row, col |-> t.col + 1,
                        wrap |-> t.wrap \/ t.col + 1 >= Cols]
    BY <2>1 DEF Put, Advance, Store, At
  <2>4. <<c, a>> \in Cell BY <1>5 DEF Cell
  <2>5. v \in Screen BY <1>a, <2>2, <2>4, StoredType
  <2>6. (t.wrap \/ t.col + 1 >= Cols) <=> t.col + 1 = Cols BY <1>a, <2>2
  <2> HIDE DEF v
  <2>7. (t.wrap \/ t.col + 1 >= Cols) \in BOOLEAN /\ t.col + 1 \in 0 .. Cols /\ t.row # Rows
    BY <1>a, <2>2
  <2> QED BY <1>b, <2>3, <2>5, <2>6, <2>7, BetweenParts
<1> QED BY <1>1, <1>2, <1>3, <1>4, <1>5 DEF Control

\* term_putc keeps the cursor and the wrap in step.
LEMMA PrintedOK ==
  ASSUME NEW t, TermOK(t), NEW a \in Colors, NEW c \in Chars \cup Control
  PROVE  TermOK(Printed(t, a, c))
  BY LandOK, PutOK, ScrolledOK DEF Printed

\* A character printed where no wrap is pending changes one cell of the row of
\* the cursor and moves the cursor one column on, to the pending wrap if the
\* row is full: the screen does not scroll.
LEMMA PlainStep ==
  ASSUME NEW t, TermOK(t), ~t.wrap, NEW a \in Colors, NEW c \in Chars
  PROVE  /\ Printed(t, a, c).row = t.row
         /\ Printed(t, a, c).col = t.col + 1
         /\ \A r \in 0 .. Rows - 1 : r # t.row => Printed(t, a, c).vga[r] = t.vga[r]
<1> USE VgaAssumption
<1> DEFINE v == Stored(t.vga, t.row, t.col, <<c, a>>)
<1>1. c \notin {NL, CR, BS, TAB} BY DEF Control
<1>2. Land(t, a, c) = t BY DEF Land, Lands
<1>3. t.vga \in Screen /\ t.row \in 0 .. Rows - 1 /\ t.col \in 0 .. Cols - 1 BY DEF TermOK
<1>4. <<c, a>> \in Cell BY DEF Cell
<1>5. \A r \in 0 .. Rows - 1 : r # t.row => v[r] = t.vga[r]
  BY <1>3, <1>4, StoredType
<1>6. Put(t, a, c) = [vga |-> v, row |-> t.row, col |-> t.col + 1,
                      wrap |-> t.wrap \/ t.col + 1 >= Cols]
  BY <1>1 DEF Put, Advance, Store, At
<1> HIDE DEF v
<1>7. Scrolled(Put(t, a, c), a) = Put(t, a, c) BY <1>3, <1>6 DEF Scrolled
<1>8. Printed(t, a, c) = Put(t, a, c) BY <1>2, <1>7 DEF Printed
<1> QED BY <1>5, <1>6, <1>8

\* IInv is inductive: the cursor stays on the screen, and the room a program
\* may still draw in is what is left of the row of the cursor.
THEOREM VgaInductive == Spec => []IInv
<1> USE VgaAssumption
<1>1. Init => IInv
  <2> SUFFICES ASSUME Init PROVE IInv OBVIOUS
  <2>1. term = [vga |-> Blank(FirstColor), row |-> 0, col |-> 0, wrap |-> FALSE]
    BY DEF Init, Clear
  <2>2. TypeOK BY <2>1, BlankType DEF Init, TypeOK, TermOK
  <2>3. Aligned BY DEF Init, Aligned, NotDrawing
  <2> QED BY <2>2, <2>3 DEF IInv
<1>2. IInv /\ [Next]_vars => IInv'
  <2> SUFFICES ASSUME IInv, [Next]_vars PROVE IInv' OBVIOUS
  <2> USE DEF IInv
  <2>a. TermOK(term) /\ attr \in Colors /\ saved \in Colors BY DEF TypeOK
  <2>b. drawing \in [row : 0 .. Rows - 1, left : 0 .. Cols] BY DEF Aligned
  <2>1. ASSUME NEW c \in Chars \cup Control, term_putc(c) PROVE IInv'
    <3>1. term' = Printed(term, attr, c) BY <2>1 DEF term_putc
    <3>2. TypeOK' BY <2>1, <2>a, <3>1, PrintedOK DEF term_putc, TypeOK
    <3>3. CASE Plain(c) /\ drawing.left > 0
      <4>1. c \in Chars BY <3>3 DEF Plain
      <4>2. drawing = [row |-> term.row, left |-> Cols - term.col] BY <3>3 DEF Aligned
      <4>3. ~term.wrap BY <2>a, <3>3, <4>2 DEF TermOK
      <4>4. term'.row = term.row /\ term'.col = term.col + 1
        BY <2>a, <3>1, <4>1, <4>3, PlainStep
      <4>5. drawing' = [row |-> drawing.row, left |-> drawing.left - 1]
        BY <2>1, <2>b, <3>3 DEF term_putc
      <4>6. term.col \in 0 .. Cols BY <2>a DEF TermOK
      <4> QED BY <2>b, <3>2, <3>3, <4>2, <4>4, <4>5, <4>6 DEF Aligned
    <3>4. CASE ~(Plain(c) /\ drawing.left > 0)
      <4>1. drawing' = NotDrawing BY <2>1, <3>4 DEF term_putc
      <4> QED BY <3>2, <4>1 DEF Aligned, NotDrawing
    <3> QED BY <3>3, <3>4
  <2>2. CASE term_clear
    <3>1. term' = [vga |-> Blank(attr), row |-> 0, col |-> 0, wrap |-> FALSE]
      BY <2>2 DEF term_clear, Clear
    <3>2. TypeOK' BY <2>a, <2>2, <3>1, BlankType DEF term_clear, TypeOK, TermOK
    <3>3. Aligned' BY <2>2 DEF term_clear, Aligned, NotDrawing
    <3> QED BY <3>2, <3>3
  <2>3. ASSUME NEW r \in -1 .. Rows, NEW c \in -1 .. Cols, term_goto(r, c) PROVE IInv'
    <3>1. Limit(r, Rows) \in 0 .. Rows - 1 /\ Limit(c, Cols) \in 0 .. Cols - 1 BY DEF Limit
    <3>2. term' = [vga |-> term.vga, row |-> Limit(r, Rows), col |-> Limit(c, Cols), wrap |-> FALSE]
      BY <2>3 DEF term_goto, At
    <3>3. TypeOK'
      <4>1. term.vga \in Screen BY <2>a DEF TermOK
      <4>2. Limit(c, Cols) \in 0 .. Cols /\ Limit(c, Cols) # Cols BY <3>1
      <4>3. term' \in [vga : Screen, row : 0 .. Rows - 1, col : 0 .. Cols, wrap : BOOLEAN]
            /\ term'.wrap = FALSE /\ term'.col # Cols
        BY <3>1, <3>2, <4>1, <4>2
      <4> QED BY <2>a, <2>3, <4>3 DEF term_goto, TypeOK, TermOK
    <3>4. drawing' = [row |-> Limit(r, Rows), left |-> Cols - Limit(c, Cols)]
      BY <2>3 DEF term_goto
    <3>5. Aligned' BY <3>1, <3>2, <3>4 DEF Aligned
    <3> QED BY <3>3, <3>5
  <2>4. ASSUME NEW a \in Colors, term_set_color(a) PROVE IInv'
    BY <2>4 DEF term_set_color, TypeOK, Aligned
  <2>5. CASE term_save_color BY <2>5 DEF term_save_color, TypeOK, Aligned
  <2>6. CASE term_reset_color BY <2>6 DEF term_reset_color, TypeOK, Aligned
  <2>7. CASE UNCHANGED vars BY <2>7 DEF vars, TypeOK, Aligned
  <2> QED BY <2>1, <2>2, <2>3, <2>4, <2>5, <2>6, <2>7 DEF Next
<1> QED BY <1>1, <1>2, PTL DEF Spec

\* No store of term_putc is outside the screen memory, whatever is printed and
\* wherever the cursor is sent.
THEOREM VgaTypeCorrect == Spec => []TypeOK
<1>1. IInv => TypeOK BY DEF IInv
<1> QED BY <1>1, VgaInductive, PTL

\* What is printed after term_goto changes no other row while the row it was
\* sent to has room: the last row can be filled without scrolling.
THEOREM VgaDrawnInPlace == Spec => DrawnInPlace
<1>1. ASSUME IInv, [Next]_vars
      PROVE  [drawing.left > 0 /\ (\E c \in Chars : term_putc(c)) =>
                \A r \in 0 .. Rows - 1 : r # drawing.row => term'.vga[r] = term.vga[r]]_vars
  <2> SUFFICES ASSUME drawing.left > 0, NEW c \in Chars, term_putc(c),
                      NEW r \in 0 .. Rows - 1, r # drawing.row
               PROVE  term'.vga[r] = term.vga[r]
    OBVIOUS
  <2>1. TermOK(term) /\ attr \in Colors BY <1>1 DEF IInv, TypeOK
  <2>2. drawing = [row |-> term.row, left |-> Cols - term.col] BY <1>1 DEF IInv, Aligned
  <2>3. ~term.wrap /\ drawing.row = term.row BY <2>1, <2>2, VgaAssumption DEF TermOK
  <2>4. term' = Printed(term, attr, c) BY DEF term_putc
  <2> QED BY <2>1, <2>3, <2>4, PlainStep
<1> QED BY <1>1, VgaInductive, PTL DEF Spec, DrawnInPlace

-----------------------------------------------------------------------------
(* The text on the screen. Layout, character by character.                 *)

LEMMA InductionOnSet ==
  ASSUME NEW T, 0 \in T, \A n \in Nat : n \in T => n + 1 \in T
  PROVE  Nat \subseteq T
<1> SUFFICES ASSUME Nat \ T # {} PROVE FALSE
  OBVIOUS
<1> DEFINE R == {p \in Nat \X Nat : p[1] < p[2]}
<1>1. IsWellFoundedOn(R, Nat)
  <2>1. R = OpToRel(<, Nat)
    BY DEF OpToRel
  <2> QED BY <2>1, NatLessThanWellFounded
<1>2. PICK x \in Nat \ T : \A y \in Nat \ T : ~(<<y, x>> \in R)
  <2>1. Nat \ T \subseteq Nat
    OBVIOUS
  <2> HIDE DEF R
  <2> QED BY <1>1, <2>1, WFMin
<1>3. x \in Nat /\ x # 0 /\ x - 1 \in Nat /\ (x - 1) + 1 = x
  OBVIOUS
<1>4. x - 1 \notin T
  BY <1>2, <1>3
<1>5. ~(<<x - 1, x>> \in R)
  BY <1>2, <1>3, <1>4
<1>6. ~(x - 1 < x)
  BY <1>3, <1>5, Zenon
<1> QED BY <1>3, <1>6

Grows(f, text, m) ==
  f = [n \in 0 .. m |-> IF n = 0 THEN << <<>> >> ELSE Grown(f[n - 1], text[n])]

LEMMA GrowsExists ==
  ASSUME NEW text, NEW m \in Nat
  PROVE  \E f : Grows(f, text, m)
<1> DEFINE T == {k \in Nat : \E f : Grows(f, text, k)}
<1>1. 0 \in T
  <2>1. Grows([n \in 0 .. 0 |-> << <<>> >>], text, 0)
    BY DEF Grows
  <2> QED BY <2>1
<1>2. ASSUME NEW k \in Nat, k \in T PROVE k + 1 \in T
  <2>1. PICK f : Grows(f, text, k)
    BY <1>2
  <2>2. PICK v : v = Grown(f[k], text[k + 1])
    OBVIOUS
  <2>3. PICK g : g = [n \in 0 .. k + 1 |-> IF n = k + 1 THEN v ELSE f[n]]
    OBVIOUS
  <2>4. f = [n \in 0 .. k |-> IF n = 0 THEN << <<>> >> ELSE Grown(f[n - 1], text[n])]
    BY <2>1 DEF Grows
  <2>5. ASSUME NEW n \in 0 .. k + 1
        PROVE  g[n] = IF n = 0 THEN << <<>> >> ELSE Grown(g[n - 1], text[n])
    <3>1. CASE n = k + 1
      <4>1. g[n] = v /\ g[n - 1] = f[k] /\ n # 0
        BY <2>3, <3>1
      <4> QED BY <2>2, <3>1, <4>1
    <3>2. CASE n # k + 1
      <4>1. n \in 0 .. k /\ g[n] = f[n]
        BY <2>3, <3>2
      <4>2. n # 0 => g[n - 1] = f[n - 1]
        BY <2>3, <4>1
      <4>3. f[n] = IF n = 0 THEN << <<>> >> ELSE Grown(f[n - 1], text[n])
        BY <2>4, <4>1
      <4> QED BY <4>1, <4>2, <4>3
    <3> QED BY <3>1, <3>2
  <2>6. g = [n \in 0 .. k + 1 |-> g[n]]
    BY <2>3
  <2>7. Grows(g, text, k + 1)
    BY <2>5, <2>6 DEF Grows
  <2> QED BY <2>7
<1>3. Nat \subseteq T
  <2> HIDE DEF T
  <2> QED BY <1>1, <1>2, InductionOnSet
<1> QED BY <1>3

LEMMA LayoutIs ==
  ASSUME NEW text, Len(text) \in Nat
  PROVE  \E f : Grows(f, text, Len(text)) /\ Layout(text) = f[Len(text)]
<1> DEFINE P(f) == Grows(f, text, Len(text))
<1>1. \E f : P(f)
  BY GrowsExists
<1>2. PICK f : f = CHOOSE g : P(g)
  OBVIOUS
<1>3. P(f)
  <2> HIDE DEF P
  <2> QED BY <1>1, <1>2
<1>4. Layout(text) = f[Len(text)]
  BY <1>2 DEF Layout, Grows
<1> QED BY <1>3, <1>4

LEMMA LayoutAppend ==
  ASSUME NEW S, NEW text \in Seq(S), NEW x \in S
  PROVE  Layout(Append(text, x)) = Grown(Layout(text), x)
<1>1. PICK n \in Nat : n = Len(text)
  OBVIOUS
<1>2. PICK more : more = Append(text, x)
  OBVIOUS
<1>3. Len(more) = n + 1 /\ more[n + 1] = x /\ \A k \in 1 .. n : more[k] = text[k]
  BY <1>1, <1>2
<1>4. PICK f : Grows(f, text, n) /\ Layout(text) = f[n]
  BY <1>1, LayoutIs
<1>5. n + 1 \in Nat
  OBVIOUS
<1>6. PICK g : Grows(g, more, n + 1) /\ Layout(more) = g[n + 1]
  BY <1>3, <1>5, LayoutIs
<1>7. g[n] = f[n]
  <2> DEFINE T == {i \in Nat : i <= n => g[i] = f[i]}
  <2>1. f = [k \in 0 .. n |-> IF k = 0 THEN << <<>> >> ELSE Grown(f[k - 1], text[k])]
    BY <1>4 DEF Grows
  <2>2. g = [k \in 0 .. n + 1 |-> IF k = 0 THEN << <<>> >> ELSE Grown(g[k - 1], more[k])]
    BY <1>6 DEF Grows
  <2>3. 0 \in T
    BY <1>1, <2>1, <2>2
  <2>4. ASSUME NEW i \in Nat, i \in T PROVE i + 1 \in T
    <3> SUFFICES ASSUME i + 1 <= n PROVE g[i + 1] = f[i + 1]
      OBVIOUS
    <3>1. g[i] = f[i] /\ more[i + 1] = text[i + 1]
      BY <1>1, <1>3, <2>4
    <3>2. f[i + 1] = Grown(f[i], text[i + 1])
      BY <1>1, <2>1
    <3>3. g[i + 1] = Grown(g[i], more[i + 1])
      BY <1>1, <2>2
    <3> QED BY <3>1, <3>2, <3>3
  <2>5. Nat \subseteq T
    <3> HIDE DEF T
    <3> QED BY <2>3, <2>4, InductionOnSet
  <2> QED BY <1>1, <2>5
<1>8. g[n + 1] = Grown(g[n], more[n + 1])
  <2>1. g = [k \in 0 .. n + 1 |-> IF k = 0 THEN << <<>> >> ELSE Grown(g[k - 1], more[k])]
    BY <1>6 DEF Grows
  <2>2. n + 1 \in 0 .. n + 1 /\ n + 1 # 0 /\ (n + 1) - 1 = n
    OBVIOUS
  <2>3. g[n + 1] = Grown(g[(n + 1) - 1], more[n + 1])
    BY <2>1, <2>2
  <2> QED BY <2>2, <2>3
<1> QED BY <1>2, <1>3, <1>4, <1>6, <1>7, <1>8

LEMMA LayoutEmpty == Layout(<<>>) = << <<>> >>
<1>1. PICK f : Grows(f, <<>>, 0) /\ Layout(<<>>) = f[0]
  BY LayoutIs
<1> QED BY <1>1 DEF Grows

\* The rows that have scrolled off, and whether a cell belongs to the text.
Skip(rs) == IF Len(rs) > Rows THEN Len(rs) - Rows ELSE 0

CellRight(v, rs, r, c) ==
  IF r + 1 + Skip(rs) <= Len(rs) /\ c + 1 <= Len(rs[r + 1 + Skip(rs)])
  THEN v[r][c] = rs[r + 1 + Skip(rs)][c + 1] ELSE v[r][c][1] = Space

\* The terminal shows the last rows of rs, with the cursor behind the last of them.
Shows(t, rs) ==
  /\ rs \in Seq(Seq(Cell)) /\ Len(rs) >= 1
  /\ \A k \in 1 .. Len(rs) : Len(rs[k]) <= Cols
  /\ t.row = Len(rs) - 1 - Skip(rs) /\ t.col = Len(rs[Len(rs)])
  /\ \A r \in 0 .. Rows - 1 : \A c \in 0 .. Cols - 1 : CellRight(t.vga, rs, r, c)

\* A new row: what a newline does, and the landing of a pending wrap.
LEMMA ShowsNewRow ==
  ASSUME NEW t, TermOK(t), NEW rs, Shows(t, rs), NEW a \in Colors
  PROVE  Shows(Scrolled(At(t, t.row + 1, 0, FALSE), a), Append(rs, <<>>))
<1> USE VgaAssumption
<1>1. PICK n \in Nat : n = Len(rs) /\ n >= 1
  BY DEF Shows
<1>2. PICK more : more = Append(rs, <<>>)
  OBVIOUS
<1>3. rs \in Seq(Seq(Cell)) /\ <<>> \in Seq(Cell)
  BY DEF Shows
<1>4. /\ more \in Seq(Seq(Cell)) /\ Len(more) = n + 1 /\ more[n + 1] = <<>>
      /\ \A k \in 1 .. n : more[k] = rs[k]
  BY <1>1, <1>2, <1>3, AppendProperties
<1>5. \A k \in 1 .. Len(more) : Len(more[k]) <= Cols
  <2>1. \A k \in 1 .. n : Len(rs[k]) <= Cols
    BY <1>1 DEF Shows
  <2>2. Len(more[n + 1]) <= Cols
    BY <1>4
  <2>3. \A k \in 1 .. n + 1 : k = n + 1 \/ k \in 1 .. n
    BY <1>1
  <2> HIDE VgaAssumption
  <2> QED BY <1>4, <2>1, <2>2, <2>3
<1>6. PICK u : u = Scrolled(At(t, t.row + 1, 0, FALSE), a)
  OBVIOUS
<1>7. t.row = n - 1 - Skip(rs)
  BY <1>1 DEF Shows
<1>8. \A r \in 0 .. Rows - 1 : \A c \in 0 .. Cols - 1 : CellRight(t.vga, rs, r, c)
  BY DEF Shows
<1>9. CASE n < Rows
  <2>1. Skip(rs) = 0 /\ Skip(more) = 0
    BY <1>1, <1>4, <1>9 DEF Skip
  <2>2. t.row + 1 = n /\ ~(t.row + 1 >= Rows)
    BY <1>7, <1>9, <2>1
  <2>3. u = At(t, t.row + 1, 0, FALSE)
    BY <1>6, <2>2 DEF Scrolled, At
  <2>4. u.vga = t.vga /\ u.row = n /\ u.col = 0
    BY <2>2, <2>3 DEF At
  <2>5. ASSUME NEW r \in 0 .. Rows - 1, NEW c \in 0 .. Cols - 1
        PROVE  CellRight(u.vga, more, r, c)
    <3>1. CellRight(t.vga, rs, r, c)
      BY <1>8
    <3>2. CASE r + 1 <= n
      <4>1. more[r + 1] = rs[r + 1] /\ r + 1 <= n + 1
        BY <1>4, <3>2
      <4> QED BY <1>1, <1>4, <2>1, <2>4, <3>1, <3>2, <4>1 DEF CellRight
    <3>3. CASE r + 1 > n
      <4>1. t.vga[r][c][1] = Space
        BY <1>1, <2>1, <3>1, <3>3 DEF CellRight
      <4>2. ~(r + 1 <= n + 1 /\ c + 1 <= Len(more[r + 1]))
        <5>1. CASE r + 1 = n + 1
          BY <1>4, <5>1
        <5>2. CASE r + 1 # n + 1
          BY <3>3, <5>2
        <5> QED BY <5>1, <5>2
      <4> QED BY <1>4, <2>1, <2>4, <4>1, <4>2 DEF CellRight
    <3> QED BY <3>2, <3>3
  <2>6. u.row = Len(more) - 1 - Skip(more) /\ u.col = Len(more[Len(more)])
    BY <1>4, <2>1, <2>4
  <2>7. Len(more) >= 1
    BY <1>4
  <2>8. Shows(u, more)
    BY <1>4, <1>5, <2>5, <2>6, <2>7, Zenon DEF Shows
  <2> QED BY <1>2, <1>6, <2>8
<1>10. CASE n >= Rows
  <2>1. Skip(rs) = n - Rows /\ Skip(more) = n + 1 - Rows
    BY <1>1, <1>4, <1>10 DEF Skip
  <2>2. t.row + 1 = Rows
    BY <1>7, <1>10, <2>1
  <2>3. u = scroll(At(t, t.row + 1, 0, FALSE), a)
    BY <1>6, <2>2 DEF Scrolled, At
  <2>4. u.vga = Shifted(t.vga, a) /\ u.row = Rows - 1 /\ u.col = 0
    BY <2>3 DEF scroll, At
  <2>5. ASSUME NEW r \in 0 .. Rows - 1, NEW c \in 0 .. Cols - 1
        PROVE  CellRight(u.vga, more, r, c)
    <3>1. r + 1 + Skip(more) = r + 1 + 1 + Skip(rs)
      BY <2>1
    <3>2. CASE r = Rows - 1
      <4>1. u.vga[r] = BlankRow(a)
        BY <2>4, <3>2 DEF Shifted
      <4>2. u.vga[r][c][1] = Space
        BY <4>1 DEF BlankRow
      <4>3. r + 1 + Skip(more) = n + 1
        BY <2>1, <3>2
      <4>4. Len(more[n + 1]) = 0 /\ ~(c + 1 <= 0)
        BY <1>4
      <4> QED BY <4>2, <4>3, <4>4 DEF CellRight
    <3>3. CASE r # Rows - 1
      <4>1. r + 1 \in 0 .. Rows - 1
        BY <3>3
      <4>2. u.vga[r] = t.vga[r + 1]
        BY <2>4, <3>3 DEF Shifted
      <4>3. CellRight(t.vga, rs, r + 1, c)
        BY <1>8, <4>1
      <4>4. PICK k \in Int : k = r + 1 + 1 + Skip(rs)
        BY <2>1
      <4>5. k \in 1 .. n /\ k <= n + 1
        BY <1>10, <2>1, <4>1, <4>4
      <4>6. more[k] = rs[k]
        BY <1>4, <4>5
      <4>7. IF c + 1 <= Len(rs[k]) THEN t.vga[r + 1][c] = rs[k][c + 1] ELSE t.vga[r + 1][c][1] = Space
        BY <1>1, <4>3, <4>4, <4>5 DEF CellRight
      <4> QED BY <1>4, <3>1, <4>2, <4>4, <4>5, <4>6, <4>7 DEF CellRight
    <3> QED BY <3>2, <3>3
  <2>6. u.row = Len(more) - 1 - Skip(more) /\ u.col = Len(more[Len(more)])
    BY <1>4, <2>1, <2>4
  <2>7. Len(more) >= 1
    BY <1>4
  <2>8. Shows(u, more)
    BY <1>4, <1>5, <2>5, <2>6, <2>7, Zenon DEF Shows
  <2> QED BY <1>2, <1>6, <2>8
<1>11. n < Rows \/ n >= Rows
  BY <1>1
<1> QED BY <1>9, <1>10, <1>11, Zenon

\* A new character in the last row.
LEMMA ShowsNewCell ==
  ASSUME NEW t, TermOK(t), NEW rs, Shows(t, rs), Len(rs[Len(rs)]) < Cols, NEW x \in Cell,
         NEW u, u.vga = Stored(t.vga, t.row, t.col, x), u.row = t.row, u.col = t.col + 1
  PROVE  Shows(u, [rs EXCEPT ![Len(rs)] = Append(@, x)])
<1> USE VgaAssumption
<1>1. PICK n \in Nat : n = Len(rs) /\ n >= 1
  BY DEF Shows
<1>2. rs \in Seq(Seq(Cell)) /\ rs[n] \in Seq(Cell)
  BY <1>1 DEF Shows
<1>3. PICK last : last = Append(rs[n], x)
  OBVIOUS
<1>4. PICK m \in Nat : m = Len(rs[n])
  BY <1>2
<1>5. /\ last \in Seq(Cell) /\ Len(last) = m + 1 /\ last[m + 1] = x
      /\ \A k \in 1 .. m : last[k] = rs[n][k]
  BY <1>2, <1>3, <1>4, AppendProperties
<1>6. PICK more : more = [rs EXCEPT ![n] = last]
  OBVIOUS
<1>7. more = [rs EXCEPT ![Len(rs)] = Append(@, x)]
  BY <1>1, <1>3, <1>6
<1>8. /\ more \in Seq(Seq(Cell)) /\ Len(more) = n /\ more[n] = last
      /\ \A k \in 1 .. n : k # n => more[k] = rs[k]
  BY <1>1, <1>2, <1>5, <1>6
<1>9. m < Cols /\ m = t.col
  BY <1>1, <1>4 DEF Shows
<1>10. \A k \in 1 .. Len(more) : Len(more[k]) <= Cols
  <2>1. \A k \in 1 .. n : Len(rs[k]) <= Cols
    BY <1>1 DEF Shows
  <2>2. Len(more[n]) <= Cols
    BY <1>5, <1>8, <1>9
  <2> HIDE VgaAssumption
  <2> QED BY <1>8, <2>1, <2>2
<1>11. Skip(more) = Skip(rs)
  BY <1>1, <1>8 DEF Skip
<1>12. t.row = n - 1 - Skip(rs) /\ Skip(rs) \in Nat
  BY <1>1 DEF Shows, Skip
<1>13. t.vga \in Screen /\ t.row \in 0 .. Rows - 1 /\ m \in 0 .. Cols - 1
  BY <1>9 DEF TermOK
<1>14. t.vga[t.row] \in Line
  BY <1>13 DEF Screen
<1>15. u.vga = [t.vga EXCEPT ![t.row] = [t.vga[t.row] EXCEPT ![m] = x]]
  BY <1>9 DEF Stored
<1>16. \A r \in 0 .. Rows - 1 : r # t.row => u.vga[r] = t.vga[r]
  BY <1>13, <1>15 DEF Screen
<1>17. u.vga[t.row] = [t.vga[t.row] EXCEPT ![m] = x]
  BY <1>13, <1>15 DEF Screen
<1>18. u.vga[t.row][m] = x /\ \A c \in 0 .. Cols - 1 : c # m => u.vga[t.row][c] = t.vga[t.row][c]
  BY <1>13, <1>14, <1>17 DEF Line
<1>19. ASSUME NEW r \in 0 .. Rows - 1, NEW c \in 0 .. Cols - 1
       PROVE  CellRight(u.vga, more, r, c)
  <2>1. CellRight(t.vga, rs, r, c)
    BY DEF Shows
  <2>2. PICK k \in Int : k = r + 1 + Skip(rs)
    BY <1>12
  <2>3. k >= 1 /\ (k = n <=> r = t.row)
    BY <1>12, <2>2
  <2>4. IF k <= n /\ c + 1 <= Len(rs[k]) THEN t.vga[r][c] = rs[k][c + 1] ELSE t.vga[r][c][1] = Space
    BY <1>1, <2>1, <2>2 DEF CellRight
  <2>5. IF k <= n /\ c + 1 <= Len(more[k]) THEN u.vga[r][c] = more[k][c + 1] ELSE u.vga[r][c][1] = Space
    <3>1. CASE k # n
      <4>1. u.vga[r] = t.vga[r]
        BY <1>16, <2>3, <3>1
      <4>2. k <= n => more[k] = rs[k]
        BY <1>8, <2>3, <3>1
      <4> QED BY <2>4, <4>1, <4>2
    <3>2. CASE k = n /\ c = m
      <4>1. u.vga[r][c] = x /\ more[k] = last /\ last[c + 1] = x
        BY <1>5, <1>8, <1>18, <2>3, <3>2
      <4> QED BY <1>5, <3>2, <4>1
    <3>3. CASE k = n /\ c # m
      <4>1. u.vga[r][c] = t.vga[r][c] /\ more[k] = last
        BY <1>8, <1>18, <2>3, <3>3
      <4>2. c + 1 <= m + 1 <=> c + 1 <= m
        BY <3>3
      <4>3. c + 1 <= m => last[c + 1] = rs[n][c + 1]
        BY <1>5
      <4> QED BY <1>4, <1>5, <2>4, <3>3, <4>1, <4>2, <4>3
    <3> QED BY <3>1, <3>2, <3>3
  <2> QED BY <1>8, <1>11, <2>2, <2>5 DEF CellRight
<1>20. u.row = Len(more) - 1 - Skip(more) /\ u.col = Len(more[Len(more)])
  BY <1>5, <1>8, <1>9, <1>11, <1>12
<1>21. Len(more) >= 1
  BY <1>1, <1>8
<1>22. Shows(u, more)
  BY <1>8, <1>10, <1>19, <1>20, <1>21, Zenon DEF Shows
<1> QED BY <1>7, <1>22

\* term_putc of a newline or a printable character adds it to what is shown.
LEMMA PrintedShows ==
  ASSUME NEW t, TermOK(t), NEW rs, Shows(t, rs), NEW a \in Colors, NEW c \in Chars \cup {NL}
  PROVE  Shows(Printed(t, a, c), Grown(rs, <<c, a>>))
<1> USE VgaAssumption
<1>1. CASE c = NL
  <2>1. Land(t, a, c) = t
    BY <1>1 DEF Land, Lands
  <2>2. Put(t, a, c) = At(t, t.row + 1, 0, FALSE)
    BY <1>1 DEF Put, NL, CR, BS, TAB
  <2>3. Grown(rs, <<c, a>>) = Append(rs, <<>>)
    BY <1>1 DEF Grown
  <2> QED BY <2>1, <2>2, <2>3, ShowsNewRow DEF Printed
<1>2. CASE c # NL
  <2>1. c \in Chars /\ c \notin {NL, CR, BS, TAB}
    BY <1>2 DEF Control
  <2>2. <<c, a>> \in Cell /\ <<c, a>>[1] # NL
    BY <2>1 DEF Cell
  <2>3. PICK x : x = <<c, a>>
    OBVIOUS
  <2>4. ASSUME NEW u, TermOK(u), NEW qs, Shows(u, qs), Len(qs[Len(qs)]) < Cols
        PROVE  Shows(Scrolled(Put(u, a, c), a), [qs EXCEPT ![Len(qs)] = Append(@, x)])
    <3>1. PICK v : v = Stored(u.vga, u.row, u.col, x)
      OBVIOUS
    <3>2. Put(u, a, c) = [vga |-> v, row |-> u.row, col |-> u.col + 1,
                          wrap |-> u.wrap \/ u.col + 1 >= Cols]
      BY <2>1, <2>3, <3>1 DEF Put, Advance, Store, At
    <3>3. PICK w : w = Put(u, a, c)
      OBVIOUS
    <3>4. w.vga = v /\ w.row = u.row /\ w.col = u.col + 1
      BY <3>2, <3>3
    <3>5. u.row \in 0 .. Rows - 1
      BY <2>4 DEF TermOK
    <3>6. Scrolled(w, a) = w
      BY <3>4, <3>5 DEF Scrolled
    <3>7. x \in Cell
      BY <2>2, <2>3
    <3>8. Shows(w, [qs EXCEPT ![Len(qs)] = Append(@, x)])
      BY <2>4, <3>1, <3>4, <3>7, ShowsNewCell
    <3> QED BY <3>3, <3>6, <3>8
  <2>5. Len(rs[Len(rs)]) = t.col /\ t.col \in 0 .. Cols /\ (t.wrap <=> t.col = Cols)
    BY DEF Shows, TermOK
  <2>6. CASE t.wrap
    <3>1. PICK u : u = Scrolled(At(t, t.row + 1, 0, FALSE), a)
      OBVIOUS
    <3>2. Land(t, a, c) = u
      BY <2>1, <2>6, <3>1 DEF Land, Lands
    <3>3. TermOK(u)
      BY <3>2, LandOK
    <3>4. PICK qs : qs = Append(rs, <<>>)
      OBVIOUS
    <3>5. Shows(u, qs)
      BY <3>1, <3>4, ShowsNewRow
    <3>6. rs \in Seq(Seq(Cell))
      BY DEF Shows
    <3>7. Len(qs) = Len(rs) + 1 /\ qs[Len(qs)] = <<>> /\ Len(qs[Len(qs)]) < Cols
      BY <3>4, <3>6
    <3>8. Shows(Scrolled(Put(u, a, c), a), [qs EXCEPT ![Len(qs)] = Append(@, x)])
      BY <2>4, <3>3, <3>5, <3>7
    <3>9. [qs EXCEPT ![Len(qs)] = Append(@, x)] = [qs EXCEPT ![Len(rs) + 1] = <<x>>]
      BY <3>7
    <3>10. [qs EXCEPT ![Len(rs) + 1] = <<x>>] = Append(rs, <<x>>)
      <4>1. PICK n \in Nat : n = Len(rs)
        BY <3>6
      <4>2. x \in Cell /\ <<x>> \in Seq(Cell)
        BY <2>2, <2>3
      <4>3. PICK p : p = [qs EXCEPT ![n + 1] = <<x>>]
        OBVIOUS
      <4>4. PICK q : q = Append(rs, <<x>>)
        OBVIOUS
      <4>5. qs \in Seq(Seq(Cell)) /\ Len(qs) = n + 1 /\ \A k \in 1 .. n : qs[k] = rs[k]
        BY <3>4, <3>6, <4>1, AppendProperties, EmptySeq
      <4>6. p \in Seq(Seq(Cell)) /\ Len(p) = n + 1 /\ \A k \in 1 .. n + 1 : p[k] = IF k = n + 1 THEN <<x>> ELSE qs[k]
        BY <4>1, <4>2, <4>3, <4>5
      <4>7. q \in Seq(Seq(Cell)) /\ Len(q) = n + 1 /\ q[n + 1] = <<x>> /\ \A k \in 1 .. n : q[k] = rs[k]
        BY <3>6, <4>1, <4>2, <4>4, AppendProperties
      <4>8. \A k \in 1 .. n + 1 : p[k] = q[k]
        <5>1. \A k \in 1 .. n + 1 : k = n + 1 \/ (k # n + 1 /\ k \in 1 .. n)
          BY <4>1
        <5> QED BY <4>5, <4>6, <4>7, <5>1, Zenon
      <4>9. p = q
        BY <4>6, <4>7, <4>8, SeqEqual
      <4> QED BY <4>1, <4>3, <4>4, <4>9
    <3>11. Grown(rs, x) = Append(rs, <<x>>)
      BY <2>2, <2>3, <2>5, <2>6 DEF Grown
    <3> QED BY <2>3, <3>2, <3>8, <3>9, <3>10, <3>11 DEF Printed
  <2>7. CASE ~t.wrap
    <3>1. Land(t, a, c) = t
      BY <2>7 DEF Land, Lands
    <3>2. Len(rs[Len(rs)]) < Cols
      BY <2>5, <2>7
    <3>3. Grown(rs, x) = [rs EXCEPT ![Len(rs)] = Append(@, x)]
      BY <2>2, <2>3, <2>5, <2>7 DEF Grown
    <3>4. Shows(Scrolled(Put(t, a, c), a), [rs EXCEPT ![Len(rs)] = Append(@, x)])
      BY <2>4, <3>2
    <3> QED BY <2>3, <3>1, <3>3, <3>4 DEF Printed
  <2> QED BY <2>6, <2>7
<1> QED BY <1>1, <1>2

\* A cleared screen shows the empty text.
LEMMA ClearShows ==
  ASSUME NEW a \in Colors
  PROVE  Shows(Clear(a), Layout(<<>>))
<1> USE VgaAssumption
<1>1. PICK rs : rs = << <<>> >>
  OBVIOUS
<1>2. rs \in Seq(Seq(Cell)) /\ Len(rs) = 1 /\ rs[1] = <<>> /\ Len(rs[1]) = 0
  BY <1>1
<1>3. Skip(rs) = 0
  BY <1>2 DEF Skip
<1>4. ASSUME NEW r \in 0 .. Rows - 1, NEW c \in 0 .. Cols - 1
      PROVE  CellRight(Clear(a).vga, rs, r, c)
  <2>1. Clear(a).vga[r][c][1] = Space
    BY DEF Clear, Blank, BlankRow
  <2>2. ~(r + 1 <= 1 /\ c + 1 <= Len(rs[r + 1]))
    BY <1>2
  <2> QED BY <1>2, <1>3, <2>1, <2>2 DEF CellRight
<1>5. Clear(a).row = 0 /\ Clear(a).col = 0
  BY DEF Clear
<1>6. \A k \in 1 .. Len(rs) : Len(rs[k]) <= Cols
  BY <1>2
<1>7. Shows(Clear(a), rs)
  BY <1>2, <1>3, <1>4, <1>5, <1>6 DEF Shows
<1> QED BY <1>1, <1>7, LayoutEmpty

\* The text that is followed is on the screen.
Text == (Chars \cup {NL}) \X Colors
Follows == out # Untracked => out \in Seq(Text) /\ Shows(term, Layout(out))

LEMMA FollowsShows == Follows => ShowsTail
<1> SUFFICES ASSUME Shows(term, Layout(out)) PROVE ShowsTail
  BY DEF Follows, ShowsTail
<1>1. \A r \in 0 .. Rows - 1 : \A c \in 0 .. Cols - 1 : CellRight(term.vga, Layout(out), r, c)
  BY DEF Shows
<1> QED BY <1>1 DEF ShowsTail, CellRight, Skip

\* What is on the screen after a clear is the end of what was written since,
\* however long its lines are and however they end.
THEOREM ScreenShowsTail == Spec => []ShowsTail
<1> USE VgaAssumption
<1>1. Init => Follows
  BY ClearShows, EmptySeq DEF Init, Follows
<1>2. IInv /\ Follows /\ [Next]_vars => Follows'
  <2> SUFFICES ASSUME IInv, Follows, [Next]_vars PROVE Follows'
    OBVIOUS
  <2>a. TermOK(term) /\ attr \in Colors
    BY DEF IInv, TypeOK
  <2>1. ASSUME NEW c \in Chars \cup Control, term_putc(c) PROVE Follows'
    <3> SUFFICES ASSUME out' # Untracked PROVE (out \in Seq(Text) /\ Shows(term, Layout(out)))'
      BY DEF Follows
    <3>1. out # Untracked /\ c \notin Control \ {NL} /\ out' = Append(out, <<c, attr>>)
      BY <2>1 DEF term_putc, Followed
    <3>2. c \in Chars \cup {NL}
      BY <3>1 DEF Control
    <3>3. out \in Seq(Text) /\ Shows(term, Layout(out))
      BY <3>1 DEF Follows
    <3>4. <<c, attr>> \in Text
      BY <2>a, <3>2 DEF Text
    <3>5. out' \in Seq(Text)
      BY <3>1, <3>3, <3>4, AppendProperties
    <3>6. Layout(out') = Grown(Layout(out), <<c, attr>>)
      BY <3>1, <3>3, <3>4, LayoutAppend
    <3>7. term' = Printed(term, attr, c)
      BY <2>1 DEF term_putc
    <3>8. Shows(term', Layout(out'))
      BY <2>a, <3>2, <3>3, <3>6, <3>7, PrintedShows
    <3> QED BY <3>5, <3>8
  <2>2. CASE term_clear
    BY <2>2, <2>a, ClearShows, EmptySeq DEF term_clear, Follows
  <2>3. ASSUME NEW r \in -1 .. Rows, NEW c \in -1 .. Cols, term_goto(r, c) PROVE Follows'
    BY <2>3 DEF term_goto, Follows, Untracked
  <2>4. ASSUME UNCHANGED <<term, out>> PROVE Follows'
    BY <2>4 DEF Follows, Untracked
  <2> QED BY <2>1, <2>2, <2>3, <2>4
    DEF Next, vars, term_set_color, term_save_color, term_reset_color
<1>3. Follows => ShowsTail
  BY FollowsShows
<1> QED BY <1>1, <1>2, <1>3, VgaInductive, PTL DEF Spec

-----------------------------------------------------------------------------
(* The history of the shell. NotRepeated, line by line.                    *)

Keeps(f, s, m) ==
  f = [n \in 0 .. m |->
        IF n = 0 THEN <<>>
        ELSE IF n > 1 /\ s[n] = s[n - 1] THEN f[n - 1]
        ELSE Append(f[n - 1], s[n])]

LEMMA KeepsExists ==
  ASSUME NEW s, NEW m \in Nat
  PROVE  \E f : Keeps(f, s, m)
<1> DEFINE T == {k \in Nat : \E f : Keeps(f, s, k)}
<1>1. 0 \in T
  <2>1. Keeps([n \in 0 .. 0 |-> <<>>], s, 0)
    BY DEF Keeps
  <2> QED BY <2>1
<1>2. ASSUME NEW k \in Nat, k \in T PROVE k + 1 \in T
  <2>1. PICK f : Keeps(f, s, k)
    BY <1>2
  <2>2. PICK v : v = IF k + 1 > 1 /\ s[k + 1] = s[k] THEN f[k] ELSE Append(f[k], s[k + 1])
    OBVIOUS
  <2>3. PICK g : g = [n \in 0 .. k + 1 |-> IF n = k + 1 THEN v ELSE f[n]]
    OBVIOUS
  <2>4. f = [n \in 0 .. k |-> IF n = 0 THEN <<>>
                              ELSE IF n > 1 /\ s[n] = s[n - 1] THEN f[n - 1]
                              ELSE Append(f[n - 1], s[n])]
    BY <2>1 DEF Keeps
  <2>5. ASSUME NEW n \in 0 .. k + 1
        PROVE  g[n] = IF n = 0 THEN <<>>
                      ELSE IF n > 1 /\ s[n] = s[n - 1] THEN g[n - 1]
                      ELSE Append(g[n - 1], s[n])
    <3>1. CASE n = k + 1
      <4>1. g[n] = v /\ g[n - 1] = f[k] /\ n # 0 /\ n - 1 = k
        BY <2>3, <3>1
      <4> QED BY <2>2, <3>1, <4>1
    <3>2. CASE n # k + 1
      <4>1. n \in 0 .. k /\ g[n] = f[n]
        BY <2>3, <3>2
      <4>2. n # 0 => g[n - 1] = f[n - 1]
        BY <2>3, <4>1
      <4>3. f[n] = IF n = 0 THEN <<>>
                   ELSE IF n > 1 /\ s[n] = s[n - 1] THEN f[n - 1]
                   ELSE Append(f[n - 1], s[n])
        BY <2>4, <4>1
      <4> QED BY <4>1, <4>2, <4>3
    <3> QED BY <3>1, <3>2
  <2>6. g = [n \in 0 .. k + 1 |-> g[n]]
    BY <2>3
  <2>7. Keeps(g, s, k + 1)
    BY <2>5, <2>6 DEF Keeps
  <2> QED BY <2>7
<1>3. Nat \subseteq T
  <2> HIDE DEF T
  <2> QED BY <1>1, <1>2, InductionOnSet
<1> QED BY <1>3

LEMMA NotRepeatedIs ==
  ASSUME NEW s, Len(s) \in Nat
  PROVE  \E f : Keeps(f, s, Len(s)) /\ NotRepeated(s) = f[Len(s)]
<1> DEFINE P(f) == Keeps(f, s, Len(s))
<1>1. \E f : P(f)
  BY KeepsExists
<1>2. PICK f : f = CHOOSE g : P(g)
  OBVIOUS
<1>3. P(f)
  <2> HIDE DEF P
  <2> QED BY <1>1, <1>2
<1>4. NotRepeated(s) = f[Len(s)]
  BY <1>2 DEF NotRepeated, Keeps
<1> QED BY <1>3, <1>4

LEMMA NotRepeatedAppend ==
  ASSUME NEW S, NEW s \in Seq(S), NEW x \in S
  PROVE  NotRepeated(Append(s, x)) =
           IF s # <<>> /\ s[Len(s)] = x THEN NotRepeated(s) ELSE Append(NotRepeated(s), x)
<1>1. PICK n \in Nat : n = Len(s)
  OBVIOUS
<1>2. PICK more : more = Append(s, x)
  OBVIOUS
<1>3. Len(more) = n + 1 /\ more[n + 1] = x /\ \A k \in 1 .. n : more[k] = s[k]
  BY <1>1, <1>2
<1>4. PICK f : Keeps(f, s, n) /\ NotRepeated(s) = f[n]
  BY <1>1, NotRepeatedIs
<1>5. n + 1 \in Nat
  BY <1>1
<1>6. PICK g : Keeps(g, more, n + 1) /\ NotRepeated(more) = g[n + 1]
  BY <1>3, <1>5, NotRepeatedIs
<1>f. f = [k \in 0 .. n |-> IF k = 0 THEN <<>>
                            ELSE IF k > 1 /\ s[k] = s[k - 1] THEN f[k - 1]
                            ELSE Append(f[k - 1], s[k])]
  BY <1>4 DEF Keeps
<1>g. g = [k \in 0 .. n + 1 |-> IF k = 0 THEN <<>>
                                ELSE IF k > 1 /\ more[k] = more[k - 1] THEN g[k - 1]
                                ELSE Append(g[k - 1], more[k])]
  BY <1>6 DEF Keeps
<1>7. g[n] = f[n]
  <2> DEFINE T == {i \in Nat : i <= n => g[i] = f[i]}
  <2>3. 0 \in T
    BY <1>1, <1>f, <1>g
  <2>4. ASSUME NEW i \in Nat, i \in T PROVE i + 1 \in T
    <3> SUFFICES ASSUME i + 1 <= n PROVE g[i + 1] = f[i + 1]
      OBVIOUS
    <3>1. g[i] = f[i] /\ more[i + 1] = s[i + 1] /\ (i # 0 => more[i] = s[i])
      BY <1>1, <1>3, <2>4
    <3>k. PICK k \in Nat : k = i + 1 /\ k - 1 = i /\ k # 0 /\ k \in 0 .. n /\ k \in 0 .. n + 1
      BY <1>1
    <3>2. f[k] = IF k > 1 /\ s[k] = s[k - 1] THEN f[k - 1] ELSE Append(f[k - 1], s[k])
      BY <1>f, <3>k
    <3>3. g[k] = IF k > 1 /\ more[k] = more[k - 1] THEN g[k - 1] ELSE Append(g[k - 1], more[k])
      BY <1>g, <3>k
    <3>4. k > 1 => i # 0
      BY <3>k
    <3> QED BY <3>1, <3>2, <3>3, <3>4, <3>k
  <2>5. Nat \subseteq T
    <3> HIDE DEF T
    <3> QED BY <2>3, <2>4, InductionOnSet
  <2> QED BY <1>1, <2>5
<1>8. g[n + 1] = IF n + 1 > 1 /\ more[n + 1] = more[n] THEN g[n] ELSE Append(g[n], more[n + 1])
  <2>1. PICK k \in Nat : k = n + 1 /\ k - 1 = n /\ k # 0 /\ k \in 0 .. n + 1
    BY <1>1
  <2>2. g[k] = IF k > 1 /\ more[k] = more[k - 1] THEN g[k - 1] ELSE Append(g[k - 1], more[k])
    BY <1>g, <2>1
  <2> QED BY <2>1, <2>2
<1>9. n + 1 > 1 <=> s # <<>>
  BY <1>1
<1>10. n + 1 > 1 => more[n] = s[n]
  BY <1>1, <1>3
<1> QED BY <1>1, <1>2, <1>3, <1>4, <1>6, <1>7, <1>8, <1>9, <1>10

LEMMA NotRepeatedEmpty == NotRepeated(<<>>) = <<>>
<1>1. PICK f : Keeps(f, <<>>, 0) /\ NotRepeated(<<>>) = f[0]
  BY NotRepeatedIs
<1> QED BY <1>1 DEF Keeps

\* hist_push keeps the last HistN lines of what was pushed.
LEMMA PushKeepsRecent ==
  ASSUME NEW S, NEW all \in Seq(S), NEW l \in S, l # <<>>, all # <<>> => all[Len(all)] # l
  PROVE  hist_push(Recent(all), l) = Recent(Append(all, l))
<1>0. HistN \in Nat /\ HistN >= 1
  BY ShellAssumption
<1>1. PICK n \in Nat : n = Len(all)
  OBVIOUS
<1>2. PICK more : more = Append(all, l)
  OBVIOUS
<1>3. more \in Seq(S) /\ Len(more) = n + 1 /\ more[n + 1] = l /\ \A k \in 1 .. n : more[k] = all[k]
  BY <1>1, <1>2, AppendProperties
<1>4. PICK h : h = Recent(all)
  OBVIOUS
<1>5. PICK i \in Nat : i = IF n > HistN THEN n - HistN + 1 ELSE 1
  <2>1. n > HistN => n - HistN + 1 \in Nat
    BY <1>0, <1>1
  <2>2. (IF n > HistN THEN n - HistN + 1 ELSE 1) \in Nat
    BY <2>1
  <2> QED BY <2>2
<1>c. (n > HistN => i = n - HistN + 1) /\ (~(n > HistN) => i = 1)
  BY <1>5, Zenon
<1>a. i >= 1 /\ i <= n + 1 /\ i \in 1 .. n + 1 /\ n \in i - 1 .. n
  BY <1>0, <1>1, <1>5
<1>6. h = SubSeq(all, i, n)
  <2>1. Recent(all) = SubSeq(all, IF Len(all) > HistN THEN Len(all) - HistN + 1 ELSE 1, Len(all))
    BY DEF Recent
  <2> QED BY <1>1, <1>4, <1>5, <2>1
<1>7. h \in Seq(S) /\ Len(h) = n - i + 1 /\ \A k \in 1 .. n - i + 1 : h[k] = all[i + k - 1]
  <2>1. Len(all) = n /\ i \in 1 .. Len(all) + 1 /\ n \in i - 1 .. Len(all)
    BY <1>1, <1>a
  <2> QED BY <1>6, <2>1, SubSeqProperties
<1>8. h # <<>> => Last(h) # l
  <2> SUFFICES ASSUME h # <<>> PROVE Last(h) # l
    OBVIOUS
  <2>a. Len(h) \in Nat /\ Len(h) # 0
    BY <1>7
  <2>1. n >= 1 /\ Len(h) >= 1 /\ h[Len(h)] = all[n]
    BY <1>1, <1>5, <1>7, <1>a, <2>a
  <2>2. all # <<>>
    BY <1>1, <2>1
  <2> QED BY <1>1, <2>1, <2>2 DEF Last
<1>9. hist_push(h, l) = IF Len(h) < HistN THEN Append(h, l) ELSE Append(Tail(h), l)
  BY <1>8 DEF hist_push
<1>10. PICK j \in Nat : j = IF n + 1 > HistN THEN n + 1 - HistN + 1 ELSE 1
  <2>1. n + 1 > HistN => n + 1 - HistN + 1 \in Nat
    BY <1>0, <1>1
  <2>2. (IF n + 1 > HistN THEN n + 1 - HistN + 1 ELSE 1) \in Nat
    BY <2>1
  <2> QED BY <2>2
<1>11. PICK r : r = Recent(more)
  OBVIOUS
<1>12. r = SubSeq(more, j, n + 1)
  <2>1. Recent(more) = SubSeq(more, IF Len(more) > HistN THEN Len(more) - HistN + 1 ELSE 1, Len(more))
    BY DEF Recent
  <2> QED BY <1>0, <1>1, <1>3, <1>10, <1>11, <2>1
<1>13. j \in 1 .. n + 1 + 1 /\ n + 1 \in j - 1 .. n + 1
  BY <1>0, <1>1, <1>10
<1>14. r \in Seq(S) /\ Len(r) = n + 1 - j + 1 /\ \A k \in 1 .. n + 1 - j + 1 : r[k] = more[j + k - 1]
  <2>1. Len(more) = n + 1 /\ j \in 1 .. Len(more) + 1 /\ n + 1 \in j - 1 .. Len(more)
    BY <1>3, <1>13
  <2> QED BY <1>3, <1>12, <2>1, SubSeqProperties
<1>b. Len(h) = n - i + 1 /\ Len(h) \in Nat
  BY <1>7
<1>15. CASE Len(h) < HistN
  <2>1. n < HistN /\ i = 1 /\ j = 1
    <3>1. n - i + 1 < HistN
      BY <1>15, <1>b
    <3>2. n < HistN /\ i = 1
      BY <1>0, <1>1, <1>c, <3>1
    <3> QED BY <1>0, <1>1, <1>10, <3>2
  <2>2. PICK p : p = Append(h, l)
    OBVIOUS
  <2>3. p \in Seq(S) /\ Len(p) = n + 1 /\ p[n + 1] = l /\ \A k \in 1 .. n : p[k] = h[k]
    BY <1>1, <1>7, <2>1, <2>2, AppendProperties
  <2>4. \A k \in 1 .. n + 1 : p[k] = r[k]
    <3>1. \A k \in 1 .. n : p[k] = r[k]
      BY <1>1, <1>3, <1>7, <1>14, <2>1, <2>3
    <3>2. p[n + 1] = r[n + 1]
      BY <1>1, <1>3, <1>14, <2>1, <2>3
    <3>3. \A k \in 1 .. n + 1 : k = n + 1 \/ k \in 1 .. n
      BY <1>1
    <3> QED BY <3>1, <3>2, <3>3, Zenon
  <2>5. Len(r) = n + 1
    BY <1>0, <1>1, <1>14, <2>1
  <2>6. p = r
    BY <1>14, <2>3, <2>4, <2>5, SeqEqual
  <2> QED BY <1>2, <1>4, <1>9, <1>11, <1>15, <2>2, <2>6
<1>16. CASE ~(Len(h) < HistN)
  <2>1. n >= HistN /\ i = n - HistN + 1 /\ j = i + 1 /\ Len(h) = HistN
    <3>1. ~(n - i + 1 < HistN)
      BY <1>16, <1>b
    <3>2. n >= HistN /\ i = n - HistN + 1
      BY <1>0, <1>1, <1>c, <3>1
    <3>3. j = i + 1
      BY <1>0, <1>1, <1>10, <3>2
    <3>4. Len(h) = HistN
      BY <1>0, <1>1, <1>b, <3>2
    <3> QED BY <3>2, <3>3, <3>4
  <2>2. h # <<>> /\ HistN - 1 \in Nat
    BY <1>0, <1>7, <2>1
  <2>3. PICK q : q = Tail(h)
    OBVIOUS
  <2>4. q \in Seq(S) /\ Len(q) = HistN - 1 /\ \A k \in 1 .. HistN - 1 : q[k] = h[k + 1]
    BY <1>0, <1>7, <2>1, <2>2, <2>3
  <2>5. PICK p : p = Append(q, l)
    OBVIOUS
  <2>6. p \in Seq(S) /\ Len(p) = HistN /\ p[HistN] = l /\ \A k \in 1 .. HistN - 1 : p[k] = q[k]
    BY <1>0, <2>2, <2>4, <2>5, AppendProperties
  <2>7. \A k \in 1 .. HistN : p[k] = r[k]
    <3>1. ASSUME NEW k \in 1 .. HistN - 1 PROVE p[k] = r[k]
      <4>1. p[k] = h[k + 1]
        BY <1>0, <2>4, <2>6
      <4>2. h[k + 1] = all[i + k]
        BY <1>0, <1>1, <1>7, <2>1
      <4>3. r[k] = more[i + k]
        BY <1>0, <1>1, <1>14, <2>1
      <4>4. i + k \in 1 .. n
        BY <1>0, <1>1, <2>1
      <4> QED BY <1>3, <4>1, <4>2, <4>3, <4>4
    <3>2. p[HistN] = r[HistN]
      BY <1>0, <1>1, <1>3, <1>14, <2>1, <2>6
    <3>3. \A k \in 1 .. HistN : k = HistN \/ k \in 1 .. HistN - 1
      BY <1>0
    <3> QED BY <3>1, <3>2, <3>3, Zenon
  <2>8. Len(r) = HistN
    BY <1>0, <1>1, <1>14, <2>1
  <2>9. p = r
    BY <1>14, <2>6, <2>7, <2>8, SeqEqual
  <2> QED BY <1>2, <1>4, <1>9, <1>11, <1>16, <2>3, <2>5, <2>9
<1> QED BY <1>15, <1>16

\* The lines entered and the lines kept; the line recalled is the one shown.
HTypes ==
  /\ line \in Seq(Chars) /\ hidx \in Int
  /\ hist \in Seq(Seq(Chars)) /\ entered \in Seq(Seq(Chars))
Kept ==
  /\ NotRepeated(entered) \in Seq(Seq(Chars))
  /\ entered # <<>> =>
       /\ NotRepeated(entered) # <<>>
       /\ NotRepeated(entered)[Len(NotRepeated(entered))] = entered[Len(entered)]
  /\ entered = <<>> => NotRepeated(entered) = <<>>
  /\ hist = Recent(NotRepeated(entered))
Recalled ==
  /\ phase = "prompting" => hidx = -1
  /\ phase = "edit" => hidx = -1 \/ (hidx \in 0 .. Len(hist) - 1 /\ line = hist[hidx + 1])
HInv == HTypes /\ Kept /\ Recalled

\* Entering a line.
LEMMA EnterKeeps == HTypes /\ Kept /\ enter => Kept' /\ hist' \in Seq(Seq(Chars)) /\ entered' \in Seq(Seq(Chars))
<1> SUFFICES ASSUME HTypes, Kept, enter
             PROVE  Kept' /\ hist' \in Seq(Seq(Chars)) /\ entered' \in Seq(Seq(Chars))
  OBVIOUS
<1>1. /\ hist' = hist_push(hist, line)
      /\ entered' = IF line = <<>> THEN entered ELSE Append(entered, line)
  BY DEF enter
<1>2. PICK S : S = Seq(Chars)
  OBVIOUS
<1>3. line \in S /\ hist \in Seq(S) /\ entered \in Seq(S)
  BY <1>2 DEF HTypes
<1>4. PICK all : all = NotRepeated(entered)
  OBVIOUS
<1>5. all \in Seq(S) /\ hist = Recent(all)
  BY <1>2, <1>4 DEF Kept
<1>6. CASE line = <<>>
  <2>1. hist' = hist /\ entered' = entered
    BY <1>1, <1>6 DEF hist_push
  <2> QED BY <1>2, <1>3, <2>1 DEF Kept
<1>7. CASE line # <<>> /\ entered # <<>> /\ entered[Len(entered)] = line
  <2>1. entered' = Append(entered, line)
    BY <1>1, <1>7
  <2>2. NotRepeated(entered') = all
    BY <1>3, <1>4, <1>7, <2>1, NotRepeatedAppend
  <2>3. all # <<>> /\ all[Len(all)] = line
    BY <1>4, <1>7 DEF Kept
  <2>4. hist # <<>> /\ Last(hist) = line
    <3>1. HistN \in Nat /\ HistN >= 1
      BY ShellAssumption
    <3>2. PICK n \in Nat : n = Len(all) /\ n >= 1
      BY <1>5, <2>3
    <3>3. PICK i \in Nat : i = IF n > HistN THEN n - HistN + 1 ELSE 1
      BY <3>1, <3>2
    <3>4. i >= 1 /\ i <= n
      BY <3>1, <3>2, <3>3
    <3>5. hist = SubSeq(all, i, n)
      <4>1. Recent(all) = SubSeq(all, IF Len(all) > HistN THEN Len(all) - HistN + 1 ELSE 1, Len(all))
        BY DEF Recent
      <4> QED BY <1>5, <3>2, <3>3, <4>1
    <3>6. i \in Int /\ n \in Int /\ \A k \in i .. n : all[k] \in S
      BY <1>5, <3>2, <3>3, <3>4
    <3>7. Len(hist) = n - i + 1 /\ \A k \in 1 .. n - i + 1 : hist[k] = all[i + k - 1]
      BY <3>4, <3>5, <3>6, SubSeqProperties
    <3>8. Len(hist) # 0 /\ hist[Len(hist)] = all[n]
      <4>1. PICK m \in Nat : m = n - i + 1 /\ m >= 1 /\ i + m - 1 = n
        <5>1. n - i + 1 \in Nat /\ n - i + 1 >= 1 /\ i + (n - i + 1) - 1 = n
          BY <3>4, <3>6
        <5> QED BY <5>1
      <4>2. Len(hist) = m /\ m \in 1 .. m /\ hist[m] = all[i + m - 1]
        BY <3>7, <4>1
      <4> QED BY <4>1, <4>2
    <3> QED BY <2>3, <3>2, <3>8 DEF Last
  <2>5. hist' = hist
    BY <1>1, <2>4 DEF hist_push
  <2>6. entered' \in Seq(S) /\ entered' # <<>> /\ entered'[Len(entered')] = line
    BY <1>3, <2>1, AppendProperties
  <2> QED BY <1>2, <1>3, <1>4, <1>5, <2>2, <2>3, <2>5, <2>6 DEF Kept
<1>8. CASE line # <<>> /\ ~(entered # <<>> /\ entered[Len(entered)] = line)
  <2>1. entered' = Append(entered, line)
    BY <1>1, <1>8
  <2>2. NotRepeated(entered') = Append(all, line)
    BY <1>3, <1>4, <1>8, <2>1, NotRepeatedAppend
  <2>3. all # <<>> => all[Len(all)] # line
    BY <1>4, <1>8 DEF Kept
  <2>4. hist' = Recent(Append(all, line))
    BY <1>1, <1>3, <1>5, <1>8, <2>3, PushKeepsRecent
  <2>5. entered' \in Seq(S) /\ entered' # <<>> /\ entered'[Len(entered')] = line
    BY <1>3, <2>1, AppendProperties
  <2>6. PICK more : more = Append(all, line)
    OBVIOUS
  <2>7. more \in Seq(S) /\ more # <<>> /\ more[Len(more)] = line
    BY <1>3, <1>5, <2>6, AppendProperties
  <2>8. Recent(more) \in Seq(S)
    <3>1. HistN \in Nat /\ HistN >= 1
      BY ShellAssumption
    <3>2. PICK n \in Nat : n = Len(more)
      BY <2>7
    <3>3. PICK i \in Nat : i = IF n > HistN THEN n - HistN + 1 ELSE 1
      BY <3>1, <3>2
    <3>4. i >= 1
      BY <3>1, <3>2, <3>3
    <3>5. Recent(more) = SubSeq(more, i, n)
      <4>1. Recent(more) = SubSeq(more, IF Len(more) > HistN THEN Len(more) - HistN + 1 ELSE 1, Len(more))
        BY DEF Recent
      <4> QED BY <3>2, <3>3, <4>1
    <3>6. i \in Int /\ n \in Int /\ \A k \in i .. n : more[k] \in S
      BY <2>7, <3>2, <3>3, <3>4
    <3> QED BY <3>5, <3>6, SubSeqProperties
  <2> QED BY <1>2, <2>2, <2>4, <2>5, <2>6, <2>7, <2>8 DEF Kept
<1> QED BY <1>6, <1>7, <1>8

LEMMA HistoryStart == ShellInit => HInv
<1>1. Recent(<<>>) = <<>>
  BY SubSeqEmpty, ShellAssumption DEF Recent
<1>2. <<>> \in Seq(Seq(Chars)) /\ <<>> \in Seq(Chars)
  OBVIOUS
<1> SUFFICES ASSUME ShellInit PROVE HInv
  OBVIOUS
<1>3. /\ line = <<>> /\ hist = <<>> /\ hidx = -1 /\ entered = <<>>
      /\ phase # "prompting" /\ phase # "edit"
  BY DEF ShellInit
<1>4. HTypes /\ Recalled
  BY <1>2, <1>3 DEF HTypes, Recalled
<1>5. Kept
  BY <1>1, <1>2, <1>3, NotRepeatedEmpty DEF Kept
<1> QED BY <1>4, <1>5 DEF HInv

LEMMA HistoryStep == HInv /\ [ShellNext]_<<vars, shellvars>> => HInv'
<1> SUFFICES ASSUME HInv, [ShellNext]_<<vars, shellvars>> PROVE HInv'
  OBVIOUS
<1>a. HTypes /\ Kept /\ Recalled
  BY DEF HInv
<1>b. \A k \in 1 .. Len(hist) : hist[k] \in Seq(Chars)
  BY <1>a DEF HTypes
<1>1. ASSUME UNCHANGED <<line, hist, hidx, entered>>, phase' = phase \/ phase' \in {"prompt", "running"}
      PROVE  HInv'
  BY <1>1, <1>a DEF HInv, HTypes, Kept, Recalled
<1>2. CASE emit
  BY <1>1, <1>2 DEF emit
<1>3. CASE start_line
  <2>1. phase = "prompting" /\ phase' = "edit" /\ UNCHANGED <<line, hist, hidx, entered>>
    BY <1>3 DEF start_line, Ready
  <2> QED BY <1>a, <2>1 DEF HInv, HTypes, Kept, Recalled
<1>4. ASSUME NEW p \in Prompts, put_prompt(p) PROVE HInv'
  <2>1. phase' = "prompting" /\ line' = <<>> /\ hidx' = -1 /\ UNCHANGED <<hist, entered>>
    BY <1>4 DEF put_prompt
  <2>2. <<>> \in Seq(Chars)
    OBVIOUS
  <2> QED BY <1>a, <2>1, <2>2 DEF HInv, HTypes, Kept, Recalled
<1>5. ASSUME NEW l \in Seq(Chars), NEW h \in Int, NEW chars, Edited(l, h, chars),
             h = -1 \/ (h \in 0 .. Len(hist) - 1 /\ l = hist[h + 1])
      PROVE  HInv'
  <2>1. phase = "edit" /\ phase' = phase /\ line' = l /\ hidx' = h /\ UNCHANGED <<hist, entered>>
    BY <1>5 DEF Edited, Ready
  <2> QED BY <1>5, <1>a, <2>1 DEF HInv, HTypes, Kept, Recalled
<1>6. line \in Seq(Chars) /\ -1 \in Int
  BY <1>a DEF HTypes
<1>7. ASSUME NEW c \in Keys, type_key(c) PROVE HInv'
  <2>1. c \in Chars
    BY ShellAssumption
  <2>2. Append(line, c) \in Seq(Chars)
    BY <1>6, <2>1, AppendProperties
  <2> QED BY <1>5, <1>6, <1>7, <2>2 DEF type_key
<1>8. CASE type_bs
  <2>1. line # <<>> => Front(line) \in Seq(Chars)
    BY <1>6 DEF Front
  <2> QED BY <1>5, <1>6, <1>8, <2>1 DEF type_bs
<1>9. CASE type_other
  BY <1>5, <1>6, <1>9 DEF type_other
<1>10. ASSUME NEW h \in Int, Recall(h), h = -1 \/ h \in 0 .. Len(hist) - 1 PROVE HInv'
  <2>1. PICK l : l = IF h < 0 THEN <<>> ELSE hist[h + 1]
    OBVIOUS
  <2>2. Edited(l, h, Erasing(line) \o l)
    BY <1>10, <2>1 DEF Recall
  <2>3. h # -1 => (h \in 0 .. Len(hist) - 1 /\ l = hist[h + 1] /\ h + 1 \in 1 .. Len(hist))
    BY <1>10, <2>1
  <2>4. h = -1 => l = <<>>
    BY <2>1
  <2>5. l \in Seq(Chars)
    BY <1>b, <2>3, <2>4, EmptySeq
  <2> QED BY <1>5, <2>2, <2>3, <2>5
<1>11. Len(hist) \in Nat /\ (hist # <<>> => Len(hist) >= 1)
  BY <1>a DEF HTypes
<1>12. CASE type_up
  <2>1. CASE hist = <<>>
    BY <1>1, <1>12, <2>1 DEF type_up, shellvars
  <2>2. CASE hist # <<>>
    <3>1. Ready("edit")
      BY <1>12, <2>2 DEF type_up, Recall, Edited
    <3>2. hidx = -1 \/ hidx \in 0 .. Len(hist) - 1
      BY <1>a, <3>1 DEF Ready, Recalled
    <3>3. PICK h : h = IF hidx < 0 THEN Len(hist) - 1 ELSE IF hidx > 0 THEN hidx - 1 ELSE hidx
      OBVIOUS
    <3>4. h \in Int /\ h \in 0 .. Len(hist) - 1
      BY <1>11, <2>2, <3>2, <3>3
    <3>5. Recall(h)
      BY <1>12, <2>2, <3>3 DEF type_up
    <3> QED BY <1>10, <3>4, <3>5
  <2> QED BY <2>1, <2>2
<1>13. CASE type_down
  <2>1. CASE hidx < 0
    BY <1>1, <1>13, <2>1 DEF type_down, shellvars
  <2>2. CASE ~(hidx < 0)
    <3>1. Ready("edit")
      BY <1>13, <2>2 DEF type_down, Recall, Edited
    <3>2. hidx \in 0 .. Len(hist) - 1
      BY <1>a, <2>2, <3>1 DEF Ready, Recalled
    <3>3. PICK h : h = IF hidx = Len(hist) - 1 THEN -1 ELSE hidx + 1
      OBVIOUS
    <3>4. h \in Int /\ (h = -1 \/ h \in 0 .. Len(hist) - 1)
      BY <1>11, <3>2, <3>3
    <3>5. Recall(h)
      BY <1>13, <2>2, <3>3 DEF type_down
    <3> QED BY <1>10, <3>4, <3>5
  <2> QED BY <2>1, <2>2
<1>14. CASE enter
  <2>1. Kept' /\ hist' \in Seq(Seq(Chars)) /\ entered' \in Seq(Seq(Chars))
    BY <1>14, <1>a, EnterKeeps
  <2>2. phase' = "running" /\ line' = line /\ hidx' = hidx
    BY <1>14 DEF enter
  <2> QED BY <1>a, <2>1, <2>2 DEF HInv, HTypes, Recalled
<1>15. CASE run_clear
  BY <1>1, <1>15 DEF run_clear, Back
<1>16. CASE run_program
  <2>1. phase' = "prompt" /\ line' = line /\ hidx' = hidx /\ hist' = <<>> /\ entered' = <<>>
    BY <1>16 DEF run_program, Back
  <2>2. Recent(<<>>) = <<>>
    BY SubSeqEmpty, ShellAssumption DEF Recent
  <2>3. <<>> \in Seq(Seq(Chars))
    OBVIOUS
  <2> QED BY <1>a, <2>1, <2>2, <2>3, NotRepeatedEmpty DEF HInv, HTypes, Kept, Recalled
<1>17. ASSUME NEW text \in Outputs, run_output(text) PROVE HInv'
  BY <1>1, <1>17 DEF run_output, Back
<1>18. CASE UNCHANGED <<vars, shellvars>>
  BY <1>1, <1>18 DEF shellvars
<1> QED BY <1>2, <1>3, <1>4, <1>7, <1>8, <1>9, <1>12, <1>13, <1>14, <1>15, <1>16, <1>17, <1>18
  DEF ShellNext

\* hist_push and the arrow keys: the history is the last HistN lines entered,
\* a line entered twice in a row once, and a line that was recalled and not
\* touched since is the line of the history hidx stands for.
THEOREM HistoryAlwaysRight == ShellSpec => []HistoryRight
<1>1. ShellInit => HInv
  BY HistoryStart
<1>2. HInv => HistoryRight
  <2> SUFFICES ASSUME HInv PROVE HistoryRight
    OBVIOUS
  <2>1. hidx \in Int /\ Kept /\ Recalled
    BY DEF HInv, HTypes
  <2>2. hidx >= 0 /\ phase = "edit" => hidx < Len(hist) /\ line = hist[hidx + 1]
    <3>1. hist \in Seq(Seq(Chars))
      BY DEF HInv, HTypes
    <3> QED BY <2>1, <3>1 DEF Recalled
  <2> QED BY <2>1, <2>2 DEF HistoryRight, Kept
<1> QED BY <1>1, <1>2, HistoryStep, PTL DEF ShellSpec

-----------------------------------------------------------------------------
(* The line of the shell on the screen.                                    *)

\* A carriage return is followed by a newline, so that no command leaves the
\* cursor in front of what it wrote. (cat of a file that ends in a carriage
\* return does.)
Mends(text) ==
  \A k \in 1 .. Len(text) : text[k] = CR => \E j \in 1 .. Len(text) : j > k /\ text[j] = NL
HasNL(text) == \E j \in 1 .. Len(text) : text[j] = NL
OutputsMend == \A text \in Outputs : Mends(text)

\* Nothing is below the cursor, and nothing at it and to its right.
Below(t) ==
  \A r \in 0 .. Rows - 1 : r > t.row => \A c \in 0 .. Cols - 1 : t.vga[r][c][1] = Space
Right(t) == \A c \in 0 .. Cols - 1 : c >= t.col => t.vga[t.row][c][1] = Space

\* n characters of text in the colour a, from column c of a row.
Holds(row, c, text, n, a) == \A k \in 1 .. n : row[c + k - 1] = <<text[k], a>>

\* The prompt p is on its way to the screen: what is pending is the rest of it.
Prompting(t, h, p, q) ==
  /\ Len(q) <= Len(p) /\ h.col + Len(p) < Cols
  /\ \A k \in 1 .. Len(q) : q[k] = p[Len(p) - Len(q) + k]
  /\ t.row = h.row /\ t.col = h.col + (Len(p) - Len(q))
  /\ Holds(t.vga[h.row], h.col, p, Len(p) - Len(q), PromptColor)

\* The line l behind column f: b characters are still to be erased, then the
\* characters of l from n + 1 on are written.
Changing(t, f, l, q, b, n) ==
  /\ Len(q) = b + (Len(l) - n) /\ n <= Len(l)
  /\ \A k \in 1 .. b : q[k] = BS
  /\ \A k \in n + 1 .. Len(l) : q[b + k - n] = l[k]
  /\ t.col = f + n + b /\ t.col < Cols
  /\ Holds(t.vga[t.row], f, l, n, FirstColor)
Editing(t, h, p, l, q) ==
  /\ h.col + Len(p) + Len(l) < Cols /\ t.row = h.row
  /\ Holds(t.vga[h.row], h.col, p, Len(p), PromptColor)
  /\ \E b \in 0 .. Len(q) : \E n \in 0 .. Len(l) : Changing(t, h.col + Len(p), l, q, b, n)

SType ==
  /\ TermOK(term) /\ attr \in Colors /\ fits \in BOOLEAN
  /\ line \in Seq(Chars) /\ prompt \in Seq(Chars) /\ pending \in Seq(Chars \cup Control)
  /\ home \in [row : 0 .. Rows - 1, col : 0 .. Cols]
Cleared == Below(term) /\ Mends(pending) /\ (Right(term) \/ HasNL(pending))
Showing ==
  /\ phase = "prompting" =>
       /\ attr = PromptColor /\ pending \in Seq(Chars) /\ line = <<>>
       /\ fits => Prompting(term, home, prompt, pending)
  /\ phase = "edit" =>
       /\ attr = FirstColor /\ pending \in Seq(Chars \cup {BS})
       /\ fits => Editing(term, home, prompt, line, pending)
SInv == OutputsMend /\ SType /\ Cleared /\ Showing

\* A new row is blank, whether it was on the screen or scrolled in.
LEMMA NewRowClears ==
  ASSUME NEW t, TermOK(t), Below(t), NEW a \in Colors, NEW w
  PROVE  LET u == Scrolled(At(t, t.row + 1, 0, w), a) IN Below(u) /\ Right(u)
<1> USE VgaAssumption
<1>1. PICK u : u = Scrolled(At(t, t.row + 1, 0, w), a)
  OBVIOUS
<1>2. t.row \in 0 .. Rows - 1
  BY DEF TermOK
<1>3. CASE t.row + 1 < Rows
  <2>1. u.vga = t.vga /\ u.row = t.row + 1
    BY <1>1, <1>2, <1>3 DEF Scrolled, At
  <2>2. Below(u)
    <3> SUFFICES ASSUME NEW r \in 0 .. Rows - 1, r > u.row, NEW c \in 0 .. Cols - 1
                 PROVE  u.vga[r][c][1] = Space
      BY DEF Below
    <3>1. r > t.row
      BY <1>2, <2>1
    <3> QED BY <2>1, <3>1 DEF Below
  <2>3. Right(u)
    <3>1. u.row \in 0 .. Rows - 1 /\ u.row > t.row
      BY <1>2, <1>3, <2>1
    <3> QED BY <2>1, <3>1 DEF Below, Right
  <2> QED BY <1>1, <2>2, <2>3
<1>4. CASE ~(t.row + 1 < Rows)
  <2>1. u.vga = Shifted(t.vga, a) /\ u.row = Rows - 1
    BY <1>1, <1>2, <1>4 DEF Scrolled, scroll, At
  <2>2. Below(u)
    BY <2>1 DEF Below
  <2>3. Right(u)
    <3>1. u.vga[u.row] = BlankRow(a)
      BY <2>1 DEF Shifted
    <3> QED BY <3>1 DEF Right, BlankRow
  <2> QED BY <1>1, <2>2, <2>3
<1> QED BY <1>3, <1>4

\* A store where the cursor is, or to its left, disturbs neither.
LEMMA StoreClears ==
  ASSUME NEW t, t.vga \in Screen, t.row \in 0 .. Rows - 1, t.col \in Int,
         NEW k \in 0 .. Cols - 1, NEW cell \in Cell,
         NEW u, u.vga = Stored(t.vga, t.row, k, cell), u.row = t.row, u.col \in Int
  PROVE  /\ Below(t) => Below(u)
         /\ Right(t) /\ ((k < u.col /\ t.col <= u.col) \/ (cell[1] = Space /\ t.col <= k + 1 /\ u.col = k)) => Right(u)
         /\ u.vga[t.row][k] = cell
         /\ \A c \in 0 .. Cols - 1 : c # k => u.vga[t.row][c] = t.vga[t.row][c]
<1> USE VgaAssumption
<1>1. t.vga[t.row] \in Line
  BY DEF Screen
<1>2. u.vga = [t.vga EXCEPT ![t.row] = [t.vga[t.row] EXCEPT ![k] = cell]]
  BY DEF Stored
<1>3. \A r \in 0 .. Rows - 1 : r # t.row => u.vga[r] = t.vga[r]
  BY <1>2 DEF Screen
<1>4. u.vga[t.row] = [t.vga[t.row] EXCEPT ![k] = cell]
  BY <1>2 DEF Screen
<1>5. u.vga[t.row][k] = cell /\ \A c \in 0 .. Cols - 1 : c # k => u.vga[t.row][c] = t.vga[t.row][c]
  BY <1>1, <1>4 DEF Line
<1>6. Below(t) => Below(u)
  <2> SUFFICES ASSUME Below(t), NEW r \in 0 .. Rows - 1, r > u.row, NEW c \in 0 .. Cols - 1
               PROVE  u.vga[r][c][1] = Space
    BY DEF Below
  <2>1. r > t.row /\ r # t.row
    OBVIOUS
  <2> QED BY <1>3, <2>1 DEF Below
<1>7. ASSUME Right(t), (k < u.col /\ t.col <= u.col) \/ (cell[1] = Space /\ t.col <= k + 1 /\ u.col = k)
      PROVE  Right(u)
  <2> SUFFICES ASSUME NEW c \in 0 .. Cols - 1, c >= u.col PROVE u.vga[u.row][c][1] = Space
    BY DEF Right
  <2>1. CASE c = k
    BY <1>5, <1>7, <2>1
  <2>2. CASE c # k
    <3>1. c >= t.col
      BY <1>7, <2>2
    <3> QED BY <1>5, <1>7, <2>2, <3>1 DEF Right
  <2> QED BY <2>1, <2>2
<1> QED BY <1>5, <1>6, <1>7

\* A character printed where no wrap is pending.
HasPut(t, u, cell) ==
  /\ u.row = t.row /\ u.col = t.col + 1
  /\ u.vga[t.row][t.col] = cell
  /\ \A k \in 0 .. Cols - 1 : k # t.col => u.vga[t.row][k] = t.vga[t.row][k]
LEMMA PutChar ==
  ASSUME NEW t, TermOK(t), t.col < Cols, NEW a \in Colors, NEW c \in Chars,
         NEW u, u = Printed(t, a, c)
  PROVE  HasPut(t, u, <<c, a>>) /\ (Below(t) => Below(u)) /\ (Right(t) => Right(u))
<1> USE VgaAssumption
<1> DEFINE v == Stored(t.vga, t.row, t.col, <<c, a>>)
<1>1. c \notin {NL, CR, BS, TAB}
  BY DEF Control
<1>w. ~t.wrap
  BY DEF TermOK
<1>2. Land(t, a, c) = t
  BY <1>w DEF Land, Lands
<1>3. t.vga \in Screen /\ t.row \in 0 .. Rows - 1 /\ t.col \in 0 .. Cols - 1
  BY DEF TermOK
<1>4. <<c, a>> \in Cell
  BY DEF Cell
<1>5. Put(t, a, c) = [vga |-> v, row |-> t.row, col |-> t.col + 1,
                      wrap |-> t.wrap \/ t.col + 1 >= Cols]
  BY <1>1 DEF Put, Advance, Store, At
<1> HIDE DEF v
<1>6. Scrolled(Put(t, a, c), a) = Put(t, a, c)
  BY <1>3, <1>5 DEF Scrolled
<1>7. u = Put(t, a, c)
  BY <1>2, <1>6 DEF Printed
<1>8. u.vga = v /\ u.row = t.row /\ u.col = t.col + 1
  BY <1>5, <1>7
<1>9. PICK k \in 0 .. Cols - 1 : k = t.col
  BY <1>3
<1>10. PICK cell \in Cell : cell = <<c, a>>
  BY <1>4
<1>11. /\ t.vga \in Screen /\ t.row \in 0 .. Rows - 1 /\ t.col \in Int /\ u.col \in Int
       /\ u.vga = Stored(t.vga, t.row, k, cell) /\ u.row = t.row
  BY <1>3, <1>8, <1>9, <1>10 DEF v
<1>12. k < u.col /\ t.col <= u.col
  BY <1>3, <1>8, <1>9
<1>13. /\ Below(t) => Below(u)
       /\ Right(t) => Right(u)
       /\ u.vga[t.row][k] = cell
       /\ \A j \in 0 .. Cols - 1 : j # k => u.vga[t.row][j] = t.vga[t.row][j]
  BY <1>11, <1>12, StoreClears
<1> QED BY <1>8, <1>9, <1>10, <1>13 DEF HasPut

\* A backspace where no wrap is pending.
LEMMA PutBackspace ==
  ASSUME NEW t, TermOK(t), t.col < Cols, t.col > 0, NEW a \in Colors,
         NEW u, u = Printed(t, a, BS)
  PROVE  /\ u.row = t.row /\ u.col = t.col - 1
         /\ \A k \in 0 .. Cols - 1 : k # t.col - 1 => u.vga[t.row][k] = t.vga[t.row][k]
         /\ Below(t) => Below(u)
         /\ Right(t) => Right(u)
<1> USE VgaAssumption
<1> DEFINE v == Stored(t.vga, t.row, t.col - 1, <<Space, a>>)
<1>w. ~t.wrap
  BY DEF TermOK
<1>1. Land(t, a, BS) = t
  BY <1>w DEF Land, Lands
<1>2. t.vga \in Screen /\ t.row \in 0 .. Rows - 1 /\ t.col \in 0 .. Cols - 1 /\ t.col - 1 \in 0 .. Cols - 1
  BY DEF TermOK
<1>3. Put(t, a, BS) = [vga |-> v, row |-> t.row, col |-> t.col - 1, wrap |-> t.wrap]
  BY DEF Put, Erased, Store, At, NL, CR, BS, TAB
<1> HIDE DEF v
<1>4. Scrolled(Put(t, a, BS), a) = Put(t, a, BS)
  BY <1>2, <1>3 DEF Scrolled
<1>5. u = Put(t, a, BS)
  BY <1>1, <1>4 DEF Printed
<1>6. u.vga = v /\ u.row = t.row /\ u.col = t.col - 1
  BY <1>3, <1>5
<1>7. PICK k \in 0 .. Cols - 1 : k = t.col - 1
  BY <1>2
<1>8. PICK cell \in Cell : cell = <<Space, a>>
  BY DEF Cell
<1>9. /\ t.vga \in Screen /\ t.row \in 0 .. Rows - 1 /\ t.col \in Int /\ u.col \in Int
      /\ u.vga = Stored(t.vga, t.row, k, cell) /\ u.row = t.row
  BY <1>2, <1>6, <1>7, <1>8 DEF v
<1>10. cell[1] = Space /\ t.col <= k + 1 /\ u.col = k
  BY <1>2, <1>6, <1>7, <1>8
<1>11. /\ Below(t) => Below(u)
       /\ Right(t) => Right(u)
       /\ \A j \in 0 .. Cols - 1 : j # k => u.vga[t.row][j] = t.vga[t.row][j]
  BY <1>9, <1>10, StoreClears
<1> QED BY <1>6, <1>7, <1>11

LEMMA TabForward ==
  ASSUME NEW t, t.col \in Nat
  PROVE  NextTab(t) \in Nat /\ NextTab(t) >= t.col
<1>1. TabStop \in Nat /\ TabStop > 0
  BY VgaAssumption
<1>2. PICK n \in Nat : n = t.col + TabStop
  BY <1>1
<1>3. PICK q \in Nat : q = n \div TabStop
  BY <1>1
<1>4. PICK m \in Nat : m = TabStop
  BY <1>1
<1>5. n = m * q + (n % m) /\ n % m < m
  BY <1>1, <1>3, <1>4
<1>6. PICK p \in Nat : p = m * q
  BY <1>3, <1>4
<1>7. p >= t.col
  <2>1. n % m \in Nat
    BY <1>1, <1>2, <1>4
  <2>2. PICK d \in Nat : d = n % m
    BY <2>1
  <2>3. n = p + d /\ d < m /\ n = t.col + m
    BY <1>2, <1>4, <1>5, <1>6, <2>2
  <2> QED BY <1>2, <1>4, <1>6, <2>2, <2>3
<1>8. NextTab(t) = p
  BY <1>2, <1>3, <1>4, <1>6 DEF NextTab
<1> QED BY <1>7, <1>8

\* term_putc writes nothing below the cursor, and nothing at it or to its
\* right unless it is a carriage return; a newline starts a blank row.
LEMMA PrintedClears ==
  ASSUME NEW t, TermOK(t), Below(t), NEW a \in Colors, NEW c \in Chars \cup Control
  PROVE  /\ Below(Printed(t, a, c))
         /\ c # CR /\ (Right(t) \/ c = NL) => Right(Printed(t, a, c))
<1> USE VgaAssumption
<1>1. PICK u : u = Land(t, a, c)
  OBVIOUS
<1>2. TermOK(u) /\ (c \notin {NL, CR} => ~u.wrap)
  BY <1>1, LandOK
<1>3. Below(u) /\ (Right(t) => Right(u))
  <2>1. CASE Lands(t, c)
    <3>1. PICK w : w = FALSE
      OBVIOUS
    <3>2. u = Scrolled(At(t, t.row + 1, 0, w), a)
      BY <1>1, <2>1, <3>1 DEF Land
    <3> QED BY <3>2, NewRowClears
  <2>2. CASE ~Lands(t, c)
    BY <1>1, <2>2 DEF Land
  <2> QED BY <2>1, <2>2
<1>4. PICK x : x = Printed(t, a, c)
  OBVIOUS
<1>5. x = Scrolled(Put(u, a, c), a)
  BY <1>1, <1>4 DEF Printed
<1>6. u.row \in 0 .. Rows - 1 /\ u.col \in 0 .. Cols /\ (u.wrap <=> u.col = Cols)
  BY <1>2 DEF TermOK
<1>7. c \notin {NL, CR} => u.col < Cols /\ Land(u, a, c) = u /\ x = Printed(u, a, c)
  <2> SUFFICES ASSUME c \notin {NL, CR} PROVE u.col < Cols /\ Land(u, a, c) = u /\ x = Printed(u, a, c)
    OBVIOUS
  <2>1. u.col < Cols
    BY <1>2, <1>6
  <2>2. Land(u, a, c) = u
    BY <1>2 DEF Land, Lands
  <2> QED BY <1>5, <2>1, <2>2 DEF Printed
<1>8. Below(x) /\ (c # CR /\ (Right(u) \/ c = NL) => Right(x))
  <2>1. CASE c = NL
    <3>1. PICK w : w = FALSE
      OBVIOUS
    <3>2. Put(u, a, c) = At(u, u.row + 1, 0, w)
      BY <2>1, <3>1 DEF Put, NL, CR, BS, TAB
    <3>3. x = Scrolled(At(u, u.row + 1, 0, w), a)
      BY <1>5, <3>2
    <3> QED BY <1>2, <1>3, <3>3, NewRowClears
  <2>2. CASE c = CR
    <3>1. Put(u, a, c) = At(u, u.row, 0, FALSE)
      BY <2>2 DEF Put, NL, CR, BS, TAB
    <3>2. x = At(u, u.row, 0, FALSE)
      BY <1>5, <1>6, <3>1 DEF Scrolled, At
    <3>3. x.vga = u.vga /\ x.row = u.row
      BY <3>2 DEF At
    <3> QED BY <1>3, <2>2, <3>3 DEF Below
  <2>3. CASE c = BS
    <3>1. c \notin {NL, CR}
      BY <2>3 DEF NL, CR, BS
    <3>2. CASE u.col > 0
      <4>1. x = Printed(u, a, BS) /\ u.col < Cols
        BY <1>7, <2>3, <3>1
      <4>2. (Below(u) => Below(x)) /\ (Right(u) => Right(x))
        BY <1>2, <3>2, <4>1, PutBackspace
      <4> QED BY <1>3, <3>1, <4>2
    <3>3. CASE ~(u.col > 0)
      <4>1. Put(u, a, c) = u
        BY <2>3, <3>3 DEF Put, Erased, NL, CR, BS, TAB
      <4>2. x = u
        BY <1>5, <1>6, <4>1 DEF Scrolled
      <4> QED BY <1>3, <3>1, <4>2
    <3> QED BY <3>2, <3>3
  <2>4. CASE c = TAB
    <3>1. Put(u, a, c) = Tabbed(u) /\ c # NL
      BY <2>4 DEF Put, NL, CR, BS, TAB
    <3>2. CASE NextTab(u) >= Cols
      <4>1. PICK w : w = u.wrap
        OBVIOUS
      <4>2. x = Scrolled(At(u, u.row + 1, 0, w), a)
        BY <1>5, <3>1, <3>2, <4>1 DEF Tabbed
      <4> QED BY <1>2, <1>3, <4>2, NewRowClears
    <3>3. CASE ~(NextTab(u) >= Cols)
      <4>1. Put(u, a, c) = At(u, u.row, NextTab(u), u.wrap)
        BY <3>1, <3>3 DEF Tabbed
      <4>2. x = At(u, u.row, NextTab(u), u.wrap)
        BY <1>5, <1>6, <4>1 DEF Scrolled, At
      <4>3. x.vga = u.vga /\ x.row = u.row /\ x.col = NextTab(u)
        BY <4>2 DEF At
      <4>4. NextTab(u) \in Nat /\ NextTab(u) >= u.col
        BY <1>6, TabForward
      <4>5. Below(x)
        BY <1>3, <4>3 DEF Below
      <4>6. Right(u) => Right(x)
        BY <1>6, <4>3, <4>4 DEF Right
      <4> QED BY <3>1, <4>5, <4>6
    <3> QED BY <3>2, <3>3
  <2>5. CASE c \in Chars
    <3>1. c \notin {NL, CR}
      BY <2>5 DEF Control
    <3>2. x = Printed(u, a, c) /\ u.col < Cols
      BY <1>7, <3>1
    <3>3. (Below(u) => Below(x)) /\ (Right(u) => Right(x))
      BY <1>2, <2>5, <3>2, PutChar
    <3> QED BY <1>3, <3>1, <3>3
  <2> QED BY <2>1, <2>2, <2>3, <2>4, <2>5 DEF Control
<1> QED BY <1>3, <1>4, <1>8

\* A pending text that is not empty: its head, its tail.
LEMMA Unqueue ==
  ASSUME NEW S, NEW q \in Seq(S), q # <<>>
  PROVE  /\ Len(q) \in Nat /\ Len(q) >= 1 /\ Head(q) = q[1] /\ q[1] \in S
         /\ Tail(q) \in Seq(S) /\ Len(Tail(q)) = Len(q) - 1
         /\ \A k \in 1 .. Len(q) - 1 : Tail(q)[k] = q[k + 1]
  OBVIOUS

LEMMA PromptingStep ==
  ASSUME NEW t, TermOK(t), NEW h \in [row : 0 .. Rows - 1, col : 0 .. Cols],
         NEW p \in Seq(Chars), NEW q \in Seq(Chars), q # <<>>, Prompting(t, h, p, q)
  PROVE  Prompting(Printed(t, PromptColor, Head(q)), h, p, Tail(q))
<1>0. Cols \in Nat /\ PromptColor \in Colors
  BY VgaAssumption, ShellAssumption
<1>1. PICK c \in Chars : c = Head(q)
  BY Unqueue
<1>2. PICK z \in Nat : z = Len(q) /\ z >= 1
  BY Unqueue
<1>3. PICK rest : rest = Tail(q)
  OBVIOUS
<1>4. c = q[1] /\ Len(rest) = z - 1 /\ \A k \in 1 .. z - 1 : rest[k] = q[k + 1]
  BY <1>1, <1>2, <1>3, Unqueue
<1>5. PICK y \in Nat : y = Len(p)
  OBVIOUS
<1>6. PICK e \in Int : e = y - z
  BY <1>2, <1>5
<1>7. /\ z <= y /\ h.col + y < Cols /\ \A k \in 1 .. z : q[k] = p[e + k]
      /\ t.row = h.row /\ t.col = h.col + e
      /\ \A k \in 1 .. e : t.vga[h.row][h.col + k - 1] = <<p[k], PromptColor>>
  BY <1>2, <1>5, <1>6 DEF Prompting, Holds
<1>8. PICK u : u = Printed(t, PromptColor, c)
  OBVIOUS
<1>9. h.col \in Nat /\ e \in Nat /\ t.col < Cols /\ t.col \in Nat
  BY <1>0, <1>2, <1>5, <1>6, <1>7
<1>10. /\ u.row = t.row /\ u.col = t.col + 1
       /\ u.vga[t.row][t.col] = <<c, PromptColor>>
       /\ \A k \in 0 .. Cols - 1 : k # t.col => u.vga[t.row][k] = t.vga[t.row][k]
  <2>1. PICK a \in Colors : a = PromptColor
    BY <1>0
  <2>2. TermOK(t) /\ t.col < Cols /\ c \in Chars /\ u = Printed(t, a, c)
    BY <1>1, <1>8, <1>9, <2>1
  <2>3. /\ u.row = t.row /\ u.col = t.col + 1
        /\ u.vga[t.row][t.col] = <<c, a>>
        /\ \A k \in 0 .. Cols - 1 : k # t.col => u.vga[t.row][k] = t.vga[t.row][k]
    <3>1. HasPut(t, u, <<c, a>>)
      BY <2>2, PutChar
    <3> QED BY <3>1 DEF HasPut
  <2> QED BY <2>1, <2>3
<1>11. c = p[e + 1]
  BY <1>2, <1>4, <1>7
<1>12. ASSUME NEW k \in 1 .. e + 1 PROVE u.vga[h.row][h.col + k - 1] = <<p[k], PromptColor>>
  <2>1. CASE k = e + 1
    <3>1. h.col + k - 1 = t.col
      BY <1>7, <1>9, <2>1
    <3> QED BY <1>7, <1>10, <1>11, <2>1, <3>1
  <2>2. CASE k # e + 1
    <3>1. k \in 1 .. e
      BY <1>9, <2>2
    <3>2. h.col + k - 1 \in 0 .. Cols - 1 /\ h.col + k - 1 # t.col
      <4>1. t.col = h.col + e
        BY <1>7
      <4>2. Cols \in Nat
        BY VgaAssumption
      <4> QED BY <1>9, <3>1, <4>1, <4>2
    <3>3. t.vga[h.row][h.col + k - 1] = <<p[k], PromptColor>>
      BY <1>7, <3>1
    <3>4. u.vga[t.row][h.col + k - 1] = t.vga[t.row][h.col + k - 1]
      BY <1>10, <3>2
    <3> QED BY <1>7, <3>3, <3>4
  <2> QED BY <2>1, <2>2
<1>13. y - Len(rest) = e + 1 /\ Len(rest) <= y
  BY <1>2, <1>4, <1>5, <1>6, <1>7
<1>14. \A k \in 1 .. Len(rest) : rest[k] = p[y - Len(rest) + k]
  <2> SUFFICES ASSUME NEW k \in 1 .. z - 1 PROVE rest[k] = p[e + 1 + k]
    BY <1>4, <1>13
  <2>1. k + 1 \in 1 .. z /\ e + (k + 1) = e + 1 + k
    BY <1>2, <1>6
  <2> QED BY <1>4, <1>7, <2>1
<1>15. u.row = h.row /\ u.col = h.col + (e + 1)
  BY <1>7, <1>9, <1>10
<1>16. Prompting(u, h, p, rest)
  BY <1>5, <1>7, <1>12, <1>13, <1>14, <1>15 DEF Prompting, Holds
<1> QED BY <1>1, <1>3, <1>8, <1>16

LEMMA PromptingStarts ==
  ASSUME NEW t, TermOK(t), NEW p \in Seq(Chars), t.col + Len(p) < Cols
  PROVE  Prompting(t, [row |-> t.row, col |-> t.col], p, p)
<1>1. t.col \in Nat /\ Len(p) \in Nat
  BY VgaAssumption DEF TermOK
<1>2. Len(p) - Len(p) = 0
  BY <1>1
<1>3. \A k \in 1 .. Len(p) : 0 + k = k
  BY <1>1
<1> QED BY <1>1, <1>2, <1>3 DEF Prompting, Holds

LEMMA PromptingDone ==
  ASSUME NEW t, TermOK(t), NEW h \in [row : 0 .. Rows - 1, col : 0 .. Cols],
         NEW p \in Seq(Chars), Prompting(t, h, p, <<>>)
  PROVE  Editing(t, h, p, <<>>, <<>>)
<1>0. Cols \in Nat /\ h.col \in Nat
  BY VgaAssumption
<1>1. PICK y \in Nat : y = Len(p)
  OBVIOUS
<1>2. Len(<<>>) = 0 /\ y - 0 = y
  BY <1>1
<1>3. /\ h.col + y < Cols /\ t.row = h.row /\ t.col = h.col + y
      /\ Holds(t.vga[h.row], h.col, p, y, PromptColor)
  BY <1>1, <1>2 DEF Prompting
<1>4. Changing(t, h.col + y, <<>>, <<>>, 0, 0)
  BY <1>0, <1>1, <1>3 DEF Changing, Holds
<1>5. 0 \in 0 .. Len(<<>>)
  OBVIOUS
<1>6. \E b \in 0 .. Len(<<>>) : \E n \in 0 .. Len(<<>>) : Changing(t, h.col + y, <<>>, <<>>, b, n)
  BY <1>4, <1>5, Zenon
<1>7. h.col + y + Len(<<>>) < Cols
  BY <1>0, <1>1, <1>3
<1> QED BY <1>1, <1>3, <1>6, <1>7 DEF Editing

LEMMA EditingDone ==
  ASSUME NEW t, NEW h \in [row : 0 .. Rows - 1, col : 0 .. Cols],
         NEW p \in Seq(Chars), NEW l \in Seq(Chars), Editing(t, h, p, l, <<>>)
  PROVE  /\ t.row = h.row /\ t.col = h.col + Len(p) + Len(l)
         /\ Holds(t.vga[h.row], h.col, p, Len(p), PromptColor)
         /\ Holds(t.vga[h.row], h.col + Len(p), l, Len(l), FirstColor)
<1>0. Len(<<>>) = 0 /\ h.col \in Int
  BY VgaAssumption
<1>1. PICK b \in 0 .. Len(<<>>) : \E n \in 0 .. Len(l) : Changing(t, h.col + Len(p), l, <<>>, b, n)
  BY DEF Editing
<1>2. PICK n \in 0 .. Len(l) : Changing(t, h.col + Len(p), l, <<>>, b, n)
  BY <1>1
<1>3. b = 0
  BY <1>0, <1>1
<1>4. Len(<<>>) = b + (Len(l) - n) /\ t.col = h.col + Len(p) + n + b
      /\ Holds(t.vga[t.row], h.col + Len(p), l, n, FirstColor)
  BY <1>2 DEF Changing
<1>5. n = Len(l)
  BY <1>0, <1>2, <1>3, <1>4
<1>6. t.row = h.row /\ Holds(t.vga[h.row], h.col, p, Len(p), PromptColor)
  BY DEF Editing
<1>7. t.col = h.col + Len(p) + Len(l)
  BY <1>0, <1>3, <1>4, <1>5
<1> QED BY <1>4, <1>5, <1>6, <1>7

\* A new line m takes the place of l: b characters are erased and the rest of
\* m is written behind the n that stay.
LEMMA EditingNew ==
  ASSUME NEW t, NEW h \in [row : 0 .. Rows - 1, col : 0 .. Cols],
         NEW p \in Seq(Chars), NEW l \in Seq(Chars), Editing(t, h, p, l, <<>>),
         NEW m \in Seq(Chars), h.col + Len(p) + Len(m) < Cols,
         NEW q, NEW b \in 0 .. Len(q), NEW n \in 0 .. Len(m),
         Len(q) = b + (Len(m) - n), n + b = Len(l),
         \A k \in 1 .. n : m[k] = l[k], \A k \in 1 .. b : q[k] = BS,
         \A k \in n + 1 .. Len(m) : q[b + k - n] = m[k]
  PROVE  Editing(t, h, p, m, q)
<1>1. /\ t.row = h.row /\ t.col = h.col + Len(p) + Len(l)
      /\ Holds(t.vga[h.row], h.col, p, Len(p), PromptColor)
      /\ Holds(t.vga[h.row], h.col + Len(p), l, Len(l), FirstColor)
  BY EditingDone
<1>2. h.col + Len(p) + Len(l) < Cols
  BY DEF Editing
<1>3. PICK f \in Int : f = h.col + Len(p)
  BY VgaAssumption
<1>4. t.col = f + n + b /\ t.col < Cols
  <2>1. t.col = f + Len(l) /\ t.col < Cols
    BY <1>1, <1>2, <1>3
  <2>2. n \in Int /\ b \in Int /\ f + (n + b) = f + n + b
    BY <1>3
  <2> QED BY <2>1, <2>2
<1>5. Holds(t.vga[t.row], f, m, n, FirstColor)
  <2> SUFFICES ASSUME NEW k \in 1 .. n PROVE t.vga[t.row][f + k - 1] = <<m[k], FirstColor>>
    BY DEF Holds
  <2>1. k \in 1 .. Len(l)
    OBVIOUS
  <2>2. t.vga[h.row][f + k - 1] = <<l[k], FirstColor>>
    BY <1>1, <1>3, <2>1 DEF Holds
  <2> QED BY <1>1, <2>2
<1>6. n <= Len(m)
  OBVIOUS
<1>7. Changing(t, f, m, q, b, n)
  BY <1>4, <1>5, <1>6, Zenon DEF Changing
<1> QED BY <1>1, <1>3, <1>7, Zenon DEF Editing

\* One character of a change reaches the screen: a backspace erases the last
\* of the characters that have to go, or the next character of l is written.
LEMMA EditingStep ==
  ASSUME NEW t, TermOK(t), NEW h \in [row : 0 .. Rows - 1, col : 0 .. Cols],
         NEW p \in Seq(Chars), NEW l \in Seq(Chars), NEW q \in Seq(Chars \cup {BS}), q # <<>>,
         Editing(t, h, p, l, q)
  PROVE  Editing(Printed(t, FirstColor, Head(q)), h, p, l, Tail(q))
<1>0. Cols \in Nat /\ FirstColor \in Colors /\ h.col \in Nat
  BY VgaAssumption
<1>1. PICK c \in Chars \cup {BS} : c = Head(q)
  BY Unqueue
<1>2. PICK z \in Nat : z = Len(q) /\ z >= 1
  BY Unqueue
<1>3. PICK rest : rest = Tail(q)
  OBVIOUS
<1>4. c = q[1] /\ Len(rest) = z - 1 /\ \A k \in 1 .. z - 1 : rest[k] = q[k + 1]
  BY <1>1, <1>2, <1>3, Unqueue
<1>5. PICK y \in Nat : y = Len(p)
  OBVIOUS
<1>6. PICK m \in Nat : m = Len(l)
  OBVIOUS
<1>7. PICK f \in Nat : f = h.col + y
  BY <1>0, <1>5
<1>8. /\ f + m < Cols /\ t.row = h.row
      /\ \A k \in 1 .. y : t.vga[h.row][h.col + k - 1] = <<p[k], PromptColor>>
  BY <1>5, <1>6, <1>7 DEF Editing, Holds
<1>9. PICK b \in 0 .. z : \E n \in 0 .. m : Changing(t, f, l, q, b, n)
  BY <1>2, <1>5, <1>6, <1>7 DEF Editing
<1>10. PICK n \in 0 .. m : Changing(t, f, l, q, b, n)
  BY <1>9
<1>11. /\ z = b + (m - n) /\ \A k \in 1 .. b : q[k] = BS
       /\ \A k \in n + 1 .. m : q[b + k - n] = l[k]
       /\ t.col = f + n + b /\ t.col < Cols
       /\ \A k \in 1 .. n : t.vga[t.row][f + k - 1] = <<l[k], FirstColor>>
  BY <1>2, <1>6, <1>10 DEF Changing, Holds
<1>12. b \in Nat /\ n \in Nat /\ n <= m /\ b <= z
  BY <1>2, <1>6, <1>9, <1>10
<1>a. z = b + (m - n) /\ t.col = f + n + b /\ t.col < Cols /\ f + m < Cols
  BY <1>8, <1>11
<1>b. /\ Cols \in Nat /\ f \in Nat /\ m \in Nat /\ z \in Nat /\ b \in Nat /\ n \in Nat
      /\ n <= m /\ b <= z /\ t.col \in Nat
  <2>a. f \in Nat /\ n \in Nat /\ b \in Nat /\ t.col = f + n + b
    BY <1>7, <1>12, <1>a, Zenon
  <2>1. t.col \in Nat
    BY <2>a
  <2>2. Cols \in Nat /\ f \in Nat /\ m \in Nat /\ z \in Nat
    BY <1>0, <1>2, <1>6, <1>7
  <2> QED BY <1>12, <2>1, <2>2, Zenon
<1>13. PICK a \in Colors : a = FirstColor
  BY <1>0
<1>14. PICK u : u = Printed(t, a, c)
  OBVIOUS
<1>15. ASSUME u.row = t.row, u.col >= f,
              \A k \in 0 .. f - 1 : u.vga[t.row][k] = t.vga[t.row][k],
              \E d \in 0 .. z - 1 : \E i \in 0 .. m : Changing(u, f, l, rest, d, i)
       PROVE  Editing(u, h, p, l, rest)
  <2>1. Holds(u.vga[h.row], h.col, p, y, PromptColor)
    <3> SUFFICES ASSUME NEW k \in 1 .. y PROVE u.vga[h.row][h.col + k - 1] = <<p[k], PromptColor>>
      BY DEF Holds
    <3>1. h.col + k - 1 \in 0 .. f - 1
      BY <1>0, <1>5, <1>7
    <3> QED BY <1>8, <1>15, <3>1
  <2>2. u.row = h.row /\ h.col + y + m < Cols
    BY <1>7, <1>8, <1>15
  <2> QED BY <1>4, <1>5, <1>6, <1>7, <1>15, <2>1, <2>2, Zenon DEF Editing
<1>16. CASE b > 0
  <2>1. c = BS
    BY <1>4, <1>11, <1>12, <1>16
  <2>2. t.col > 0
    BY <1>7, <1>11, <1>12, <1>16
  <2>3. /\ u.row = t.row /\ u.col = t.col - 1
        /\ \A k \in 0 .. Cols - 1 : k # t.col - 1 => u.vga[t.row][k] = t.vga[t.row][k]
    <3>1. TermOK(t) /\ t.col < Cols /\ t.col > 0 /\ u = Printed(t, a, BS)
      BY <1>11, <1>14, <2>1, <2>2
    <3> QED BY <3>1, PutBackspace
  <2>4. u.col = f + n + (b - 1) /\ u.col < Cols /\ u.col >= f /\ t.col \in Int
    <3>1. u.col = t.col - 1
      BY <2>3
    <3> QED BY <1>16, <1>a, <1>b, <3>1
  <2>5. \A k \in 0 .. f - 1 : u.vga[t.row][k] = t.vga[t.row][k]
    <3> SUFFICES ASSUME NEW k \in 0 .. f - 1 PROVE u.vga[t.row][k] = t.vga[t.row][k]
      OBVIOUS
    <3>1. k \in 0 .. Cols - 1 /\ k # t.col - 1
      BY <1>16, <1>a, <1>b
    <3> QED BY <2>3, <3>1
  <2>6. PICK d \in 0 .. z - 1 : d = b - 1
    BY <1>2, <1>12, <1>16
  <2>7. Len(rest) = d + (m - n)
    BY <1>2, <1>4, <1>6, <1>11, <1>12, <2>6
  <2>8. \A k \in 1 .. d : rest[k] = BS
    <3> SUFFICES ASSUME NEW k \in 1 .. d PROVE rest[k] = BS
      OBVIOUS
    <3>1. k \in 1 .. z - 1 /\ k + 1 \in 1 .. b
      BY <1>2, <1>12, <2>6
    <3> QED BY <1>4, <1>11, <3>1
  <2>9. \A k \in n + 1 .. m : rest[d + k - n] = l[k]
    <3> SUFFICES ASSUME NEW k \in n + 1 .. m PROVE rest[d + k - n] = l[k]
      OBVIOUS
    <3>1. PICK j \in Int : j = d + k - n
      BY <1>12, <2>6
    <3>2. j \in 1 .. z - 1 /\ j + 1 = b + k - n
      BY <1>2, <1>6, <1>11, <1>12, <1>16, <2>6, <3>1
    <3> QED BY <1>4, <1>11, <3>1, <3>2
  <2>10. \A k \in 1 .. n : u.vga[u.row][f + k - 1] = <<l[k], FirstColor>>
    <3> SUFFICES ASSUME NEW k \in 1 .. n PROVE u.vga[u.row][f + k - 1] = <<l[k], FirstColor>>
      OBVIOUS
    <3>1. f + k - 1 \in 0 .. Cols - 1 /\ f + k - 1 # t.col - 1
      BY <1>16, <1>a, <1>b
    <3> QED BY <1>11, <2>3, <3>1
  <2>11. u.col = f + n + d
    BY <2>4, <2>6
  <2>12. Changing(u, f, l, rest, d, n)
    BY <1>6, <1>12, <2>4, <2>7, <2>8, <2>9, <2>10, <2>11, Zenon DEF Changing, Holds
  <2>13. \E e \in 0 .. z - 1 : \E i \in 0 .. m : Changing(u, f, l, rest, e, i)
    BY <1>10, <2>6, <2>12, Zenon
  <2>14. Editing(u, h, p, l, rest)
    BY <1>15, <2>3, <2>4, <2>5, <2>13
  <2> QED BY <1>1, <1>3, <1>13, <1>14, <2>14
<1>17. CASE b = 0
  <2>1. n < m /\ n + 1 \in n + 1 .. m /\ b + (n + 1) - n = 1
    BY <1>2, <1>6, <1>11, <1>12, <1>17
  <2>2. c = l[n + 1]
    BY <1>4, <1>11, <2>1
  <2>3. c \in Chars
    BY <1>6, <1>12, <2>1, <2>2
  <2>4. /\ u.row = t.row /\ u.col = t.col + 1
        /\ u.vga[t.row][t.col] = <<c, a>>
        /\ \A k \in 0 .. Cols - 1 : k # t.col => u.vga[t.row][k] = t.vga[t.row][k]
    <3>1. TermOK(t) /\ t.col < Cols /\ c \in Chars /\ u = Printed(t, a, c)
      BY <1>11, <1>14, <2>3
    <3>2. HasPut(t, u, <<c, a>>)
      BY <3>1, PutChar
    <3> QED BY <3>2 DEF HasPut
  <2>5. u.col = f + (n + 1) + 0 /\ u.col < Cols /\ u.col >= f /\ t.col = f + n
    <3>1. u.col = t.col + 1 /\ n < m
      BY <2>1, <2>4
    <3> QED BY <1>17, <1>a, <1>b, <3>1
  <2>6. \A k \in 0 .. f - 1 : u.vga[t.row][k] = t.vga[t.row][k]
    <3> SUFFICES ASSUME NEW k \in 0 .. f - 1 PROVE u.vga[t.row][k] = t.vga[t.row][k]
      OBVIOUS
    <3>1. k \in 0 .. Cols - 1 /\ k # t.col
      BY <1>17, <1>a, <1>b
    <3> QED BY <2>4, <3>1
  <2>7. PICK i \in 0 .. m : i = n + 1
    BY <1>6, <1>12, <2>1
  <2>8. Len(rest) = 0 + (m - i)
    BY <1>2, <1>4, <1>6, <1>11, <1>12, <1>17, <2>7
  <2>9. \A k \in 1 .. 0 : rest[k] = BS
    OBVIOUS
  <2>10. \A k \in i + 1 .. m : rest[0 + k - i] = l[k]
    <3> SUFFICES ASSUME NEW k \in i + 1 .. m PROVE rest[0 + k - i] = l[k]
      OBVIOUS
    <3>1. PICK j \in Int : j = 0 + k - i
      BY <1>12, <2>7
    <3>2. j \in 1 .. z - 1 /\ j + 1 = b + k - n /\ k \in n + 1 .. m
      BY <1>2, <1>6, <1>11, <1>12, <1>17, <2>7, <3>1
    <3> QED BY <1>4, <1>11, <3>1, <3>2
  <2>11. \A k \in 1 .. i : u.vga[u.row][f + k - 1] = <<l[k], FirstColor>>
    <3> SUFFICES ASSUME NEW k \in 1 .. i PROVE u.vga[u.row][f + k - 1] = <<l[k], FirstColor>>
      OBVIOUS
    <3>1. CASE k = i
      <4>1. f + k - 1 = t.col
        BY <1>7, <1>12, <2>5, <2>7, <3>1
      <4> QED BY <1>13, <2>2, <2>4, <2>7, <3>1, <4>1
    <3>2. CASE k # i
      <4>1. k \in 1 .. n /\ f + k - 1 \in 0 .. Cols - 1 /\ f + k - 1 # t.col
        BY <1>17, <1>a, <1>b, <2>7, <3>2
      <4> QED BY <1>11, <2>4, <4>1
    <3> QED BY <3>1, <3>2
  <2>12. u.col = f + i + 0 /\ i <= m
    BY <1>6, <1>12, <2>1, <2>5, <2>7
  <2>13. Changing(u, f, l, rest, 0, i)
    BY <1>6, <2>5, <2>8, <2>9, <2>10, <2>11, <2>12, Zenon DEF Changing, Holds
  <2>14. 0 \in 0 .. z - 1
    BY <1>2
  <2>15. \E e \in 0 .. z - 1 : \E j \in 0 .. m : Changing(u, f, l, rest, e, j)
    BY <2>7, <2>13, <2>14, Zenon
  <2>16. Editing(u, h, p, l, rest)
    BY <1>15, <2>4, <2>5, <2>6, <2>15
  <2> QED BY <1>1, <1>3, <1>13, <1>14, <2>16
<1> QED BY <1>12, <1>16, <1>17

LEMMA MendsTail ==
  ASSUME NEW S, NEW q \in Seq(S), q # <<>>, Mends(q)
  PROVE  /\ Mends(Tail(q))
         /\ q[1] = CR => HasNL(Tail(q))
         /\ HasNL(q) /\ q[1] # NL => HasNL(Tail(q))
<1>1. PICK z \in Nat : z = Len(q) /\ z >= 1
  BY Unqueue
<1>2. PICK rest : rest = Tail(q)
  OBVIOUS
<1>3. Len(rest) = z - 1 /\ \A k \in 1 .. z - 1 : rest[k] = q[k + 1]
  BY <1>1, <1>2, Unqueue
<1>4. ASSUME NEW j \in 1 .. z, j # 1, q[j] = NL PROVE j - 1 \in 1 .. z - 1 /\ rest[j - 1] = NL
  <2>1. j - 1 \in 1 .. z - 1 /\ (j - 1) + 1 = j
    BY <1>1, <1>4
  <2> QED BY <1>3, <1>4, <2>1
<1>5. \A k \in 1 .. z : q[k] = CR => \E j \in 1 .. z : j > k /\ q[j] = NL
  BY <1>1 DEF Mends
<1>6. Mends(rest)
  <2> SUFFICES ASSUME NEW k \in 1 .. z - 1, rest[k] = CR
               PROVE  \E j \in 1 .. z - 1 : j > k /\ rest[j] = NL
    BY <1>3 DEF Mends
  <2>1. k + 1 \in 1 .. z /\ q[k + 1] = CR
    BY <1>1, <1>3
  <2>2. PICK j \in 1 .. z : j > k + 1 /\ q[j] = NL
    BY <1>5, <2>1
  <2>3. j # 1 /\ j - 1 > k
    BY <2>2
  <2> QED BY <1>4, <2>2, <2>3
<1>7. q[1] = CR => HasNL(rest)
  <2> SUFFICES ASSUME q[1] = CR PROVE HasNL(rest)
    OBVIOUS
  <2>1. PICK j \in 1 .. z : j > 1 /\ q[j] = NL
    BY <1>1, <1>5
  <2>2. j # 1
    BY <2>1
  <2> QED BY <1>3, <1>4, <2>1, <2>2 DEF HasNL
<1>8. HasNL(q) /\ q[1] # NL => HasNL(rest)
  <2> SUFFICES ASSUME HasNL(q), q[1] # NL PROVE HasNL(rest)
    OBVIOUS
  <2>1. PICK j \in 1 .. z : q[j] = NL
    BY <1>1 DEF HasNL
  <2>2. j # 1
    BY <2>1
  <2> QED BY <1>3, <1>4, <2>1, <2>2 DEF HasNL
<1> QED BY <1>2, <1>6, <1>7, <1>8

LEMMA NoReturn ==
  ASSUME NEW q \in Seq(Chars \cup {BS})
  PROVE  q \in Seq(Chars \cup Control) /\ Mends(q)
<1>1. Chars \cup {BS} \subseteq Chars \cup Control /\ CR \notin Chars \cup {BS}
  BY VgaAssumption DEF Control, CR, BS, NL, TAB
<1>2. q \in Seq(Chars \cup Control)
  BY <1>1, SeqMonotonic
<1>3. \A k \in 1 .. Len(q) : q[k] # CR
  BY <1>1
<1> QED BY <1>2, <1>3 DEF Mends

LEMMA ClearClears ==
  ASSUME NEW a \in Colors
  PROVE  TermOK(Clear(a)) /\ Below(Clear(a)) /\ Right(Clear(a))
<1> USE VgaAssumption
<1>1. TermOK(Clear(a))
  BY BlankType DEF Clear, TermOK
<1>2. \A r \in 0 .. Rows - 1 : \A c \in 0 .. Cols - 1 : Clear(a).vga[r][c][1] = Space
  BY DEF Clear, Blank, BlankRow
<1>3. Clear(a).row \in 0 .. Rows - 1
  BY DEF Clear
<1> QED BY <1>1, <1>2, <1>3 DEF Below, Right

\* With nothing on its way the cursor is in front of nothing.
LEMMA Calm ==
  ASSUME Cleared, pending = <<>>
  PROVE  Below(term) /\ Right(term)
<1>1. ~HasNL(<<>>)
  BY DEF HasNL
<1> QED BY <1>1 DEF Cleared

LEMMA EmitShows == HInv /\ SInv /\ emit => SInv'
<1> SUFFICES ASSUME HInv, SInv, emit PROVE SInv'
  OBVIOUS
<1>1. SType /\ Cleared /\ Showing /\ OutputsMend
  BY DEF SInv
<1>2. pending # <<>> /\ pending \in Seq(Chars \cup Control) /\ TermOK(term) /\ attr \in Colors
  BY <1>1 DEF SType, emit
<1>3. PICK c \in Chars \cup Control : c = Head(pending)
  BY <1>2, Unqueue
<1>4. /\ term' = Printed(term, attr, c) /\ attr' = attr /\ pending' = Tail(pending)
      /\ UNCHANGED <<line, phase, prompt, home, fits>>
  BY <1>3 DEF emit, term_putc
<1>5. SType'
  <2>1. TermOK(term')
    BY <1>2, <1>4, PrintedOK
  <2>2. pending' \in Seq(Chars \cup Control)
    BY <1>2, <1>4, Unqueue
  <2> QED BY <1>1, <1>4, <2>1, <2>2 DEF SType
<1>6. Cleared'
  <2>1. Below(term) /\ Mends(pending) /\ (Right(term) \/ HasNL(pending))
    BY <1>1 DEF Cleared
  <2>2. Below(term') /\ (c # CR /\ (Right(term) \/ c = NL) => Right(term'))
    BY <1>2, <1>4, <2>1, PrintedClears
  <2>3. /\ Mends(pending') /\ (c = CR => HasNL(pending'))
        /\ (HasNL(pending) /\ c # NL => HasNL(pending'))
    <3>1. c = pending[1]
      BY <1>2, <1>3, Unqueue
    <3> QED BY <1>2, <1>4, <2>1, <3>1, MendsTail
  <2> QED BY <2>1, <2>2, <2>3 DEF Cleared
<1>7. Showing'
  <2>1. CASE phase = "prompting"
    <3>1. attr = PromptColor /\ pending \in Seq(Chars) /\ line = <<>>
      BY <1>1, <2>1 DEF Showing
    <3>2. pending' \in Seq(Chars)
      BY <1>2, <1>4, <3>1, Unqueue
    <3>3. ASSUME fits PROVE Prompting(term', home, prompt, pending')
      <4>1. Prompting(term, home, prompt, pending)
        BY <1>1, <2>1, <3>3 DEF Showing
      <4>2. home \in [row : 0 .. Rows - 1, col : 0 .. Cols] /\ prompt \in Seq(Chars)
        BY <1>1 DEF SType
      <4>3. Prompting(Printed(term, PromptColor, Head(pending)), home, prompt, Tail(pending))
        BY <1>2, <3>1, <4>1, <4>2, PromptingStep
      <4> QED BY <1>3, <1>4, <3>1, <4>3
    <3> QED BY <1>4, <2>1, <3>1, <3>2, <3>3 DEF Showing
  <2>2. CASE phase = "edit"
    <3>1. attr = FirstColor /\ pending \in Seq(Chars \cup {BS})
      BY <1>1, <2>2 DEF Showing
    <3>2. pending' \in Seq(Chars \cup {BS})
      BY <1>2, <1>4, <3>1, Unqueue
    <3>3. ASSUME fits PROVE Editing(term', home, prompt, line, pending')
      <4>1. Editing(term, home, prompt, line, pending)
        BY <1>1, <2>2, <3>3 DEF Showing
      <4>2. /\ home \in [row : 0 .. Rows - 1, col : 0 .. Cols]
            /\ prompt \in Seq(Chars) /\ line \in Seq(Chars)
        BY <1>1 DEF SType
      <4>3. Editing(Printed(term, FirstColor, Head(pending)), home, prompt, line, Tail(pending))
        BY <1>2, <3>1, <4>1, <4>2, EditingStep
      <4> QED BY <1>3, <1>4, <3>1, <4>3
    <3> QED BY <1>4, <2>2, <3>1, <3>2, <3>3 DEF Showing
  <2>3. CASE phase # "prompting" /\ phase # "edit"
    BY <1>4, <2>3 DEF Showing
  <2> QED BY <2>1, <2>2, <2>3
<1> QED BY <1>1, <1>5, <1>6, <1>7 DEF SInv, OutputsMend, Mends

\* A key: the line becomes l, chars are on their way.
LEMMA EditedShows ==
  ASSUME SInv, NEW l \in Seq(Chars), NEW h, NEW chars \in Seq(Chars \cup {BS}),
         Edited(l, h, chars),
         Editing(term, home, prompt, line, <<>>) /\ home.col + Len(prompt) + Len(l) < Cols
           => Editing(term, home, prompt, l, chars)
  PROVE  SInv'
<1>1. SType /\ Cleared /\ Showing /\ OutputsMend
  BY DEF SInv
<1>2. /\ phase = "edit" /\ pending = <<>> /\ line' = l /\ pending' = chars
      /\ fits' = (fits /\ home.col + Len(prompt) + Len(l) < Cols)
      /\ UNCHANGED <<term, attr, phase, prompt, home>>
  BY DEF Edited, Ready, Quiet, vars
<1>3. chars \in Seq(Chars \cup Control) /\ Mends(chars)
  BY NoReturn
<1>4. SType'
  <2>1. fits' \in BOOLEAN
    BY <1>1, <1>2, Zenon DEF SType
  <2> QED BY <1>1, <1>2, <1>3, <2>1, Zenon DEF SType
<1>5. Cleared'
  <2>1. Below(term) /\ Right(term)
    BY <1>1, <1>2, Calm
  <2> QED BY <1>2, <1>3, <2>1 DEF Cleared
<1>6. Showing'
  <2>1. attr = FirstColor /\ (fits => Editing(term, home, prompt, line, <<>>))
    BY <1>1, <1>2 DEF Showing
  <2>2. fits' => Editing(term', home', prompt', line', pending')
    BY <1>2, <2>1, Zenon
  <2> QED BY <1>2, <2>1, <2>2 DEF Showing
<1> QED BY <1>1, <1>4, <1>5, <1>6 DEF SInv, OutputsMend, Mends

LEMMA KeysShow ==
  ASSUME HInv, SInv,
         \/ type_bs \/ type_other \/ type_up \/ type_down
         \/ \E c \in Keys : type_key(c)
  PROVE  SInv'
<1>1. /\ line \in Seq(Chars) /\ prompt \in Seq(Chars)
      /\ home \in [row : 0 .. Rows - 1, col : 0 .. Cols]
  BY DEF SInv, SType
<1>2. hist \in Seq(Seq(Chars)) /\ hidx \in Int /\ Recalled
  BY DEF HInv, HTypes
<1>3. PICK len \in Nat : len = Len(line)
  BY <1>1
<1>4. ASSUME Edited(line, -1, <<>>) PROVE SInv'
  <2>1. <<>> \in Seq(Chars \cup {BS})
    OBVIOUS
  <2> QED BY <1>1, <1>4, <2>1, EditedShows
<1>5. ASSUME NEW c \in Keys, type_key(c) PROVE SInv'
  <2>1. c \in Chars
    BY ShellAssumption
  <2>2. CASE len < LineMax
    <3>1. PICK l : l = Append(line, c)
      OBVIOUS
    <3>2. PICK chars : chars = <<c>>
      OBVIOUS
    <3>3. Edited(l, -1, chars)
      BY <1>3, <1>5, <2>2, <3>1, <3>2 DEF type_key
    <3>4. /\ l \in Seq(Chars) /\ Len(l) = len + 1 /\ l[len + 1] = c
          /\ \A k \in 1 .. len : l[k] = line[k]
      BY <1>1, <1>3, <2>1, <3>1, AppendProperties
    <3>5. chars \in Seq(Chars \cup {BS}) /\ Len(chars) = 1 /\ chars[1] = c
      BY <2>1, <3>2
    <3>6. ASSUME Editing(term, home, prompt, line, <<>>), home.col + Len(prompt) + Len(l) < Cols
          PROVE  Editing(term, home, prompt, l, chars)
      <4>1. PICK b \in 0 .. Len(chars) : b = 0
        BY <3>5
      <4>2. PICK n \in 0 .. Len(l) : n = len
        BY <1>3, <3>4
      <4>3. Len(chars) = b + (Len(l) - n) /\ n + b = Len(line)
        BY <1>3, <3>4, <3>5, <4>1, <4>2
      <4>4. \A k \in 1 .. b : chars[k] = BS
        BY <4>1
      <4>5. \A k \in n + 1 .. Len(l) : chars[b + k - n] = l[k]
        <5> SUFFICES ASSUME NEW k \in n + 1 .. Len(l) PROVE chars[b + k - n] = l[k]
          OBVIOUS
        <5>1. k = len + 1 /\ b + k - n = 1
          BY <1>3, <3>4, <4>1, <4>2
        <5> QED BY <3>4, <3>5, <5>1
      <4>6. \A k \in 1 .. n : l[k] = line[k]
        BY <3>4, <4>2
      <4> QED BY <1>1, <3>4, <3>6, <4>3, <4>4, <4>5, <4>6, EditingNew
    <3> QED BY <3>3, <3>4, <3>5, <3>6, EditedShows
  <2>3. CASE ~(len < LineMax)
    BY <1>3, <1>4, <1>5, <2>3 DEF type_key
  <2> QED BY <2>2, <2>3
<1>6. CASE type_bs
  <2>1. CASE line # <<>>
    <3>1. PICK l : l = Front(line)
      OBVIOUS
    <3>2. PICK chars : chars = <<BS>>
      OBVIOUS
    <3>3. Edited(l, -1, chars)
      BY <1>6, <2>1, <3>1, <3>2 DEF type_bs
    <3>4. len >= 1
      BY <1>1, <1>3, <2>1
    <3>5. l \in Seq(Chars) /\ Len(l) = len - 1 /\ \A k \in 1 .. len - 1 : l[k] = line[k]
      BY <1>1, <1>3, <3>1, <3>4 DEF Front
    <3>6. chars \in Seq(Chars \cup {BS}) /\ Len(chars) = 1 /\ chars[1] = BS
      BY <3>2
    <3>7. ASSUME Editing(term, home, prompt, line, <<>>), home.col + Len(prompt) + Len(l) < Cols
          PROVE  Editing(term, home, prompt, l, chars)
      <4>1. PICK b \in 0 .. Len(chars) : b = 1
        BY <3>6
      <4>2. PICK n \in 0 .. Len(l) : n = len - 1
        BY <1>3, <3>4, <3>5
      <4>3. Len(chars) = b + (Len(l) - n) /\ n + b = Len(line)
        BY <1>3, <3>5, <3>6, <4>1, <4>2
      <4>4. \A k \in 1 .. b : chars[k] = BS
        BY <3>6, <4>1
      <4>5. \A k \in n + 1 .. Len(l) : chars[b + k - n] = l[k]
        BY <1>3, <3>5, <4>2
      <4>6. \A k \in 1 .. n : l[k] = line[k]
        BY <3>5, <4>2
      <4> QED BY <1>1, <3>5, <3>7, <4>3, <4>4, <4>5, <4>6, EditingNew
    <3> QED BY <3>3, <3>5, <3>6, <3>7, EditedShows
  <2>2. CASE line = <<>>
    BY <1>4, <1>6, <2>2 DEF type_bs
  <2> QED BY <2>1, <2>2
<1>7. CASE type_other
  BY <1>4, <1>7 DEF type_other
<1>8. ASSUME NEW h \in Int, Recall(h), h = -1 \/ h \in 0 .. Len(hist) - 1 PROVE SInv'
  <2>1. PICK l : l = IF h < 0 THEN <<>> ELSE hist[h + 1]
    OBVIOUS
  <2>2. l \in Seq(Chars)
    <3>1. CASE h < 0
      BY <2>1, <3>1, EmptySeq
    <3>2. CASE ~(h < 0)
      <4>1. h + 1 \in 1 .. Len(hist)
        BY <1>2, <1>8, <3>2
      <4> QED BY <1>2, <2>1, <3>2, <4>1
    <3> QED BY <3>1, <3>2
  <2>3. PICK e : e = Erasing(line)
    OBVIOUS
  <2>4. e \in Seq({BS}) /\ Len(e) = len /\ \A k \in 1 .. len : e[k] = BS
    <3>1. e = [k \in 1 .. len |-> BS]
      BY <1>3, <2>3 DEF Erasing
    <3> QED BY <1>3, <3>1
  <2>5. PICK chars : chars = e \o l
    OBVIOUS
  <2>6. Edited(l, h, chars)
    BY <1>8, <2>1, <2>3, <2>5 DEF Recall
  <2>7. PICK m \in Nat : m = Len(l)
    BY <2>2
  <2>8. e \in Seq(Chars \cup {BS}) /\ l \in Seq(Chars \cup {BS})
    BY <2>2, <2>4, SeqMonotonic
  <2>9. /\ chars \in Seq(Chars \cup {BS}) /\ Len(chars) = len + m
        /\ \A k \in 1 .. len : chars[k] = BS
        /\ \A k \in 1 .. m : chars[len + k] = l[k]
    <3>1. chars \in Seq(Chars \cup {BS}) /\ Len(chars) = len + m
      <4>1. e \o l \in Seq(Chars \cup {BS}) /\ Len(e \o l) = Len(e) + Len(l)
        BY <2>8, ConcatProperties, Zenon
      <4> QED BY <2>4, <2>5, <2>7, <4>1
    <3>2. \A k \in 1 .. len + m : chars[k] = IF k <= len THEN e[k] ELSE l[k - len]
      BY <1>3, <2>4, <2>5, <2>7, <2>8, ConcatProperties
    <3>3. \A k \in 1 .. len : chars[k] = BS
      BY <1>3, <2>4, <2>7, <3>2
    <3>4. \A k \in 1 .. m : chars[len + k] = l[k]
      <4> SUFFICES ASSUME NEW k \in 1 .. m PROVE chars[len + k] = l[k]
        OBVIOUS
      <4>1. len + k \in 1 .. len + m /\ ~(len + k <= len) /\ (len + k) - len = k
        BY <1>3, <2>7
      <4> QED BY <3>2, <4>1
    <3> QED BY <3>1, <3>3, <3>4
  <2>10. ASSUME Editing(term, home, prompt, line, <<>>), home.col + Len(prompt) + Len(l) < Cols
         PROVE  Editing(term, home, prompt, l, chars)
    <3>1. PICK b \in 0 .. Len(chars) : b = len
      BY <1>3, <2>7, <2>9
    <3>2. PICK n \in 0 .. Len(l) : n = 0
      BY <2>7
    <3>3. Len(chars) = b + (Len(l) - n) /\ n + b = Len(line)
      BY <1>3, <2>7, <2>9, <3>1, <3>2
    <3>4. \A k \in 1 .. b : chars[k] = BS
      BY <2>9, <3>1
    <3>5. \A k \in n + 1 .. Len(l) : chars[b + k - n] = l[k]
      <4> SUFFICES ASSUME NEW k \in n + 1 .. Len(l) PROVE chars[b + k - n] = l[k]
        OBVIOUS
      <4>1. k \in 1 .. m /\ b + k - n = len + k
        BY <1>3, <2>7, <3>1, <3>2
      <4> QED BY <2>9, <4>1
    <3>6. \A k \in 1 .. n : l[k] = line[k]
      BY <3>2
    <3> QED BY <1>1, <2>2, <2>10, <3>3, <3>4, <3>5, <3>6, EditingNew
  <2> QED BY <2>2, <2>6, <2>9, <2>10, EditedShows
<1>9. ASSUME UNCHANGED <<vars, shellvars>> PROVE SInv'
  BY <1>9, Zenon DEF SInv, SType, Cleared, Showing, vars, shellvars
<1>10. Len(hist) \in Nat /\ (hist # <<>> => Len(hist) >= 1)
  BY <1>2
<1>11. CASE type_up
  <2>1. CASE hist = <<>>
    BY <1>9, <1>11, <2>1 DEF type_up, Quiet
  <2>2. CASE hist # <<>>
    <3>1. Ready("edit")
      BY <1>11, <2>2 DEF type_up, Recall, Edited
    <3>2. hidx = -1 \/ hidx \in 0 .. Len(hist) - 1
      BY <1>2, <3>1 DEF Ready, Recalled
    <3>3. PICK h : h = IF hidx < 0 THEN Len(hist) - 1 ELSE IF hidx > 0 THEN hidx - 1 ELSE hidx
      OBVIOUS
    <3>4. h \in Int /\ h \in 0 .. Len(hist) - 1
      BY <1>10, <2>2, <3>2, <3>3
    <3>5. Recall(h)
      BY <1>11, <2>2, <3>3 DEF type_up
    <3> QED BY <1>8, <3>4, <3>5
  <2> QED BY <2>1, <2>2
<1>12. CASE type_down
  <2>1. CASE hidx < 0
    BY <1>9, <1>12, <2>1 DEF type_down, Quiet
  <2>2. CASE ~(hidx < 0)
    <3>1. Ready("edit")
      BY <1>12, <2>2 DEF type_down, Recall, Edited
    <3>2. hidx \in 0 .. Len(hist) - 1
      BY <1>2, <2>2, <3>1 DEF Ready, Recalled
    <3>3. PICK h : h = IF hidx = Len(hist) - 1 THEN -1 ELSE hidx + 1
      OBVIOUS
    <3>4. h \in Int /\ (h = -1 \/ h \in 0 .. Len(hist) - 1)
      BY <1>10, <3>2, <3>3
    <3>5. Recall(h)
      BY <1>12, <2>2, <3>3 DEF type_down
    <3> QED BY <1>8, <3>4, <3>5
  <2> QED BY <2>1, <2>2
<1> QED BY <1>5, <1>6, <1>7, <1>11, <1>12

LEMMA ShellShows == HInv /\ SInv /\ [ShellNext]_<<vars, shellvars>> => SInv'
<1> SUFFICES ASSUME HInv, SInv, [ShellNext]_<<vars, shellvars>> PROVE SInv'
  OBVIOUS
<1>1. SType /\ Cleared /\ Showing /\ OutputsMend
  BY DEF SInv
<1>m. OutputsMend'
  BY <1>1 DEF OutputsMend, Mends
<1>2. CASE emit
  BY <1>2, EmitShows
<1>3. CASE start_line
  <2>1. /\ phase = "prompting" /\ pending = <<>> /\ phase' = "edit" /\ attr' = FirstColor
        /\ UNCHANGED <<term, line, pending, prompt, home, fits>>
    BY <1>3 DEF start_line, Ready, term_set_color
  <2>2. FirstColor \in Colors
    BY VgaAssumption
  <2>3. SType'
    BY <1>1, <2>1, <2>2, Zenon DEF SType
  <2>4. Cleared'
    BY <1>1, <2>1, Zenon DEF Cleared
  <2>5. line = <<>> /\ (fits => Prompting(term, home, prompt, <<>>))
    BY <1>1, <2>1 DEF Showing
  <2>6. /\ TermOK(term) /\ home \in [row : 0 .. Rows - 1, col : 0 .. Cols]
        /\ prompt \in Seq(Chars)
    BY <1>1 DEF SType
  <2>7. fits => Editing(term, home, prompt, <<>>, <<>>)
    BY <2>5, <2>6, PromptingDone
  <2>8. <<>> \in Seq(Chars \cup {BS})
    OBVIOUS
  <2>9. Showing'
    BY <2>1, <2>5, <2>7, <2>8 DEF Showing
  <2> QED BY <1>m, <2>3, <2>4, <2>9 DEF SInv
<1>4. ASSUME NEW p \in Prompts, put_prompt(p) PROVE SInv'
  <2>1. /\ pending = <<>> /\ attr' = PromptColor /\ phase' = "prompting" /\ prompt' = p
        /\ pending' = p /\ line' = <<>> /\ home' = [row |-> term.row, col |-> term.col]
        /\ fits' = (term.col + Len(p) < Cols) /\ term' = term
    BY <1>4 DEF put_prompt, Ready, term_set_color
  <2>2. p \in Seq(Chars) /\ PromptColor \in Colors
    BY ShellAssumption
  <2>3. p \in Seq(Chars \cup {BS})
    BY <2>2, SeqMonotonic
  <2>4. p \in Seq(Chars \cup Control) /\ Mends(p)
    BY <2>3, NoReturn
  <2>5. TermOK(term)
    BY <1>1 DEF SType
  <2>6. SType'
    <3>1. home' \in [row : 0 .. Rows - 1, col : 0 .. Cols]
      BY <2>1, <2>5 DEF TermOK
    <3>2. fits' \in BOOLEAN /\ <<>> \in Seq(Chars)
      <4>1. (term.col + Len(p) < Cols) \in BOOLEAN
        OBVIOUS
      <4> QED BY <2>1, <4>1, EmptySeq
    <3> QED BY <2>1, <2>2, <2>4, <2>5, <3>1, <3>2, Zenon DEF SType
  <2>7. Cleared'
    <3>1. Below(term) /\ Right(term)
      BY <1>1, <2>1, Calm
    <3> QED BY <2>1, <2>4, <3>1, Zenon DEF Cleared
  <2>8. Showing'
    <3>1. fits' => Prompting(term, [row |-> term.row, col |-> term.col], p, p)
      BY <2>1, <2>2, <2>5, PromptingStarts
    <3> QED BY <2>1, <2>2, <3>1 DEF Showing
  <2> QED BY <1>m, <2>6, <2>7, <2>8 DEF SInv
<1>5. CASE \/ type_bs \/ type_other \/ type_up \/ type_down
           \/ \E c \in Keys : type_key(c)
  BY <1>5, KeysShow
\* Commands: the phases in which the row of the line is not looked at.
<1>6. ASSUME phase' \in {"prompt", "running"}, pending = <<>>,
             term' = term \/ term' = Clear(attr), attr' = attr,
             pending' \in Seq(Chars \cup Control), Mends(pending'),
             UNCHANGED <<line, prompt, home, fits>>
      PROVE  SInv'
  <2>1. TermOK(term') /\ Below(term') /\ Right(term')
    <3>1. TermOK(term) /\ attr \in Colors
      BY <1>1 DEF SType
    <3>2. Below(term) /\ Right(term)
      BY <1>1, <1>6, Calm
    <3>3. TermOK(Clear(attr)) /\ Below(Clear(attr)) /\ Right(Clear(attr))
      BY <3>1, ClearClears
    <3>4. CASE term' = term
      BY <3>1, <3>2, <3>4
    <3>5. CASE term' = Clear(attr)
      BY <3>3, <3>5
    <3> QED BY <1>6, <3>4, <3>5
  <2>2. SType'
    BY <1>1, <1>6, <2>1, Zenon DEF SType
  <2>3. Cleared'
    BY <1>6, <2>1, Zenon DEF Cleared
  <2>4. Showing'
    BY <1>6 DEF Showing
  <2> QED BY <1>m, <2>2, <2>3, <2>4 DEF SInv
<1>7. <<>> \in Seq(Chars \cup Control) /\ Mends(<<>>)
  BY DEF Mends
<1>8. CASE enter
  <2>1. <<NL>> \in Seq(Chars \cup Control) /\ Mends(<<NL>>)
    BY DEF Mends, Control, NL, CR
  <2>2. /\ phase' = "running" /\ pending = <<>> /\ pending' = <<NL>>
        /\ UNCHANGED <<term, attr, line, prompt, home, fits>>
    BY <1>8 DEF enter, Ready, Quiet, vars
  <2> QED BY <1>6, <2>1, <2>2
<1>9. CASE run_clear
  <2>1. /\ phase' = "prompt" /\ pending = <<>> /\ pending' = pending /\ term' = Clear(attr)
        /\ UNCHANGED <<attr, line, prompt, home, fits>>
    BY <1>9 DEF run_clear, Ready, Back, term_clear
  <2> QED BY <1>6, <1>7, <2>1
<1>10. CASE run_program
  <2>1. /\ phase' = "prompt" /\ pending = <<>> /\ pending' = pending
        /\ UNCHANGED <<attr, line, prompt, home, fits>>
    BY <1>10 DEF run_program, Ready, Back, term_clear, Quiet, vars
  <2>2. term' = term \/ term' = Clear(attr)
    BY <1>10 DEF run_program, term_clear, Quiet, vars
  <2> QED BY <1>6, <1>7, <2>1, <2>2
<1>11. ASSUME NEW text \in Outputs, run_output(text) PROVE SInv'
  <2>1. /\ phase' = "prompt" /\ pending = <<>> /\ pending' = text
        /\ UNCHANGED <<term, attr, line, prompt, home, fits>>
    BY <1>11 DEF run_output, Ready, Back, Quiet, vars
  <2>2. text \in Seq(Chars \cup Control)
    BY ShellAssumption
  <2>3. Mends(text)
    BY <1>1 DEF OutputsMend
  <2> QED BY <1>6, <2>1, <2>2, <2>3
<1>12. CASE UNCHANGED <<vars, shellvars>>
  BY <1>1, <1>12, <1>m, Zenon DEF SInv, SType, Cleared, Showing, vars, shellvars
<1> QED BY <1>2, <1>3, <1>4, <1>5, <1>8, <1>9, <1>10, <1>11, <1>12 DEF ShellNext

\* The prompt and the line under the cursor: while they stay short of the end
\* of the row, what the row shows is what is in them, through every sequence of
\* typing, erasing and recalling, on a screen of any size, if no command leaves
\* the cursor in front of what it wrote.
THEOREM LineAlwaysShown == OutputsMend => (ShellSpec => []LineShown)
<1>1. ShellInit => HInv
  BY HistoryStart
<1>2. OutputsMend /\ ShellInit => SInv
  <2> SUFFICES ASSUME OutputsMend, ShellInit PROVE SInv
    OBVIOUS
  <2>1. /\ term = Clear(FirstColor) /\ attr = FirstColor /\ line = <<>> /\ pending = <<>>
        /\ phase = "prompt" /\ prompt = <<>> /\ home = [row |-> 0, col |-> 0] /\ fits = TRUE
    BY DEF ShellInit, Init
  <2>2. FirstColor \in Colors /\ 0 \in 0 .. Rows - 1 /\ 0 \in 0 .. Cols
    BY VgaAssumption
  <2>3. TermOK(term) /\ Below(term) /\ Right(term)
    BY <2>1, <2>2, ClearClears
  <2>4. <<>> \in Seq(Chars) /\ <<>> \in Seq(Chars \cup Control) /\ Mends(<<>>)
    BY DEF Mends
  <2>5. SType
    <3>1. home \in [row : 0 .. Rows - 1, col : 0 .. Cols]
      BY <2>1, <2>2
    <3> QED BY <2>1, <2>2, <2>3, <2>4, <3>1, Zenon DEF SType
  <2>6. Cleared
    BY <2>1, <2>3, <2>4, Zenon DEF Cleared
  <2>7. Showing
    BY <2>1 DEF Showing
  <2> QED BY <2>5, <2>6, <2>7 DEF SInv
<1>3. SInv => LineShown
  <2> SUFFICES ASSUME SInv, phase = "edit", pending = <<>>, fits PROVE LineShown
    BY DEF LineShown, Ready
  <2>1. /\ TermOK(term) /\ line \in Seq(Chars) /\ prompt \in Seq(Chars)
        /\ home \in [row : 0 .. Rows - 1, col : 0 .. Cols]
    BY DEF SInv, SType
  <2>2. Editing(term, home, prompt, line, <<>>)
    BY DEF SInv, Showing
  <2>3. /\ term.row = home.row /\ term.col = home.col + Len(prompt) + Len(line)
        /\ Holds(term.vga[home.row], home.col, prompt, Len(prompt), PromptColor)
        /\ Holds(term.vga[home.row], home.col + Len(prompt), line, Len(line), FirstColor)
    BY <2>1, <2>2, EditingDone
  <2>4. Right(term)
    BY Calm DEF SInv
  <2>5. \A c \in term.col .. Cols - 1 : term.vga[home.row][c][1] = Space
    <3>1. term.col \in 0 .. Cols /\ Cols \in Nat
      BY <2>1, VgaAssumption DEF TermOK
    <3> QED BY <2>3, <2>4, <3>1 DEF Right
  <2> QED BY <2>3, <2>5, Zenon DEF LineShown, Holds
<1> QED BY <1>1, <1>2, <1>3, HistoryStep, ShellShows, PTL DEF ShellSpec
=============================================================================
