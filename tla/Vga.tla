--------------------------------- MODULE Vga --------------------------------
(***************************************************************************)
(* The text screen, drivers/vga/vga.c: the cells of the screen, the cursor *)
(* and the pending wrap, and the operations that move it. term_puts and    *)
(* term_write are sequences of term_putc steps.                            *)
(*                                                                         *)
(* A cell is a character and a colour; rows and columns count from 0.      *)
(***************************************************************************)
EXTENDS Integers, Sequences

CONSTANTS
  Rows, Cols,  \* ROWS and COLS
  TabStop,     \* 4
  Chars,       \* printable characters
  Colors,      \* values of attr
  FirstColor,  \* 0x0F
  MaxOut       \* the text since the last clear is followed up to this length

VARIABLES
  term,    \* [vga, row, col, wrap]
  attr,
  saved,   \* saved_fg and saved_bg
  out,     \* history: the text since the last clear, while it is only characters
           \* and newlines; else Untracked
  drawing  \* history: [row, left], the row the cursor was sent to and the room that
           \* was left in it, less what has been printed since

vars == <<term, attr, saved, out, drawing>>

NL == "nl"
CR == "cr"
BS == "bs"
TAB == "tab"
Space == "space"
Control == {NL, CR, BS, TAB}
Untracked == << <<TAB, FirstColor>> >>  \* not a plain text
NotDrawing == [row |-> 0, left |-> 0]

ASSUME VgaAssumption ==
  /\ Rows \in Nat \ {0} /\ Cols \in Nat \ {0} /\ TabStop \in Nat \ {0} /\ MaxOut \in Nat
  /\ Cols % TabStop = 0
  /\ Chars \cap Control = {} /\ FirstColor \in Colors

Cell == (Chars \cup {Space}) \X Colors
Line == [0 .. Cols - 1 -> Cell]
Screen == [0 .. Rows - 1 -> Line]
BlankRow(a) == [c \in 0 .. Cols - 1 |-> <<Space, a>>]
Blank(a) == [r \in 0 .. Rows - 1 |-> BlankRow(a)]
-----------------------------------------------------------------------------
(* term_putc, on the terminal t and the colour a.                          *)

\* The terminal t with the cursor elsewhere.
At(t, r, c, w) == [vga |-> t.vga, row |-> r, col |-> c, wrap |-> w]

Shifted(v, a) ==
  [r \in 0 .. Rows - 1 |-> IF r = Rows - 1 THEN BlankRow(a) ELSE v[r + 1]]

scroll(t, a) == [vga |-> Shifted(t.vga, a), row |-> Rows - 1, col |-> t.col, wrap |-> FALSE]

Scrolled(t, a) == IF t.row >= Rows THEN scroll(t, a) ELSE t

\* Mutant: a newline lands the pending wrap as well.
Lands_Always(t, c) == t.wrap

Lands(t, c) == t.wrap /\ c \notin {NL, CR}

\* The pending wrap lands first.
Land(t, a, c) ==
  IF Lands(t, c) THEN Scrolled(At(t, t.row + 1, 0, FALSE), a) ELSE t

Stored(v, r, c, cell) == [v EXCEPT ![r] = [@ EXCEPT ![c] = cell]]

Store(t, cell) ==
  [vga |-> Stored(t.vga, t.row, t.col, cell), row |-> t.row, col |-> t.col, wrap |-> t.wrap]

\* Mutant: the row ends as soon as it is full.
Advance_Eager(t) ==
  IF t.col + 1 >= Cols THEN At(t, t.row + 1, 0, FALSE) ELSE At(t, t.row, t.col + 1, FALSE)

Advance(t) == At(t, t.row, t.col + 1, t.wrap \/ t.col + 1 >= Cols)

NextTab(t) == TabStop * ((t.col + TabStop) \div TabStop)

\* Mutant: a tab stops behind the last column.
Tabbed_Past(t) == At(t, t.row, NextTab(t), t.wrap)

Tabbed(t) ==
  IF NextTab(t) >= Cols THEN At(t, t.row + 1, 0, t.wrap) ELSE At(t, t.row, NextTab(t), t.wrap)

\* The wrap has landed before a backspace, so its test of wrap never holds.
Erased(t, a) ==
  IF t.col > 0 THEN Store(At(t, t.row, t.col - 1, t.wrap), <<Space, a>>) ELSE t

Put(t, a, c) ==
  CASE c = NL -> At(t, t.row + 1, 0, FALSE)
    [] c = CR -> At(t, t.row, 0, FALSE)
    [] c = BS -> Erased(t, a)
    [] c = TAB -> Tabbed(t)
    [] OTHER -> Advance(Store(t, <<c, a>>))

Printed(t, a, c) == Scrolled(Put(Land(t, a, c), a, c), a)
-----------------------------------------------------------------------------
Plain(c) == c \notin Control

\* The text so far is followed while it is short and plain.
Followed(c) ==
  IF out = Untracked \/ Len(out) >= MaxOut \/ c \in Control \ {NL} THEN Untracked
  ELSE Append(out, <<c, attr>>)

term_putc(c) ==
  /\ term' = Printed(term, attr, c)
  /\ out' = Followed(c)
  /\ drawing' = IF Plain(c) /\ drawing.left > 0 THEN [drawing EXCEPT !.left = @ - 1]
                ELSE NotDrawing
  /\ UNCHANGED <<attr, saved>>

Clear(a) == [vga |-> Blank(a), row |-> 0, col |-> 0, wrap |-> FALSE]

term_clear ==
  /\ term' = Clear(attr) /\ out' = <<>> /\ drawing' = NotDrawing
  /\ UNCHANGED <<attr, saved>>

Limit(v, n) == IF v < 0 THEN 0 ELSE IF v >= n THEN n - 1 ELSE v

term_goto(r, c) ==
  /\ term' = At(term, Limit(r, Rows), Limit(c, Cols), FALSE)
  /\ drawing' = [row |-> Limit(r, Rows), left |-> Cols - Limit(c, Cols)]
  /\ out' = Untracked
  /\ UNCHANGED <<attr, saved>>

term_set_color(a) == attr' = a /\ UNCHANGED <<term, saved, out, drawing>>
term_save_color == saved' = attr /\ UNCHANGED <<term, attr, out, drawing>>
term_reset_color == attr' = saved /\ UNCHANGED <<term, saved, out, drawing>>

\* term_init.
Init ==
  /\ term = Clear(FirstColor) /\ attr = FirstColor /\ saved = FirstColor
  /\ out = <<>> /\ drawing = NotDrawing

Next ==
  \/ \E c \in Chars \cup Control : term_putc(c)
  \/ term_clear
  \/ \E r \in -1 .. Rows, c \in -1 .. Cols : term_goto(r, c)
  \/ \E a \in Colors : term_set_color(a)
  \/ term_save_color
  \/ term_reset_color

Spec == Init /\ [][Next]_vars
-----------------------------------------------------------------------------
\* Every cell term_putc stores is on the screen: the cursor is on a row of it,
\* and in a column unless a wrap is pending, in which case it is just behind
\* the last one.
TermOK(t) ==
  /\ t \in [vga : Screen, row : 0 .. Rows - 1, col : 0 .. Cols, wrap : BOOLEAN]
  /\ t.wrap <=> t.col = Cols

TypeOK == TermOK(term) /\ attr \in Colors /\ saved \in Colors

\* The rows the text out takes: one per Cols characters of a line, one for an
\* empty line; the last line is the one the cursor is in.
Grown(rs, x) ==
  IF x[1] = NL THEN Append(rs, <<>>)
  ELSE IF Len(rs[Len(rs)]) = Cols THEN Append(rs, <<x>>)
  ELSE [rs EXCEPT ![Len(rs)] = Append(@, x)]
Layout(text) ==
  LET rowsOf[n \in 0 .. Len(text)] ==
        IF n = 0 THEN << <<>> >> ELSE Grown(rowsOf[n - 1], text[n])
  IN  rowsOf[Len(text)]

\* A cleared screen to which plain text is written shows the last rows of that
\* text: a line as long as the screen is wide takes one row, not two, however
\* it ends, and no character is lost before it scrolls off.
ShowsTail ==
  out # Untracked =>
    LET rs == Layout(out)
        skip == IF Len(rs) > Rows THEN Len(rs) - Rows ELSE 0
        Shown(r, c) == r + 1 + skip <= Len(rs) /\ c + 1 <= Len(rs[r + 1 + skip])
    IN  \A r \in 0 .. Rows - 1, c \in 0 .. Cols - 1 :
          IF Shown(r, c) THEN term.vga[r][c] = rs[r + 1 + skip][c + 1]
          ELSE term.vga[r][c][1] = Space

\* While a row is being drawn the cursor is in it and no wrap is pending: the
\* room that was left is the room that is left.
Aligned ==
  /\ drawing \in [row : 0 .. Rows - 1, left : 0 .. Cols]
  /\ drawing.left > 0 => drawing = [row |-> term.row, left |-> Cols - term.col]

IInv == TypeOK /\ Aligned

\* What is printed after term_goto stays in the row it was sent to until the
\* row is full: a full-screen program can fill the last row, its last column
\* included, without scrolling the screen.
DrawnInPlace ==
  [][drawing.left > 0 /\ (\E c \in Chars : term_putc(c)) =>
       \A r \in 0 .. Rows - 1 : r # drawing.row => term'.vga[r] = term.vga[r]]_vars
=============================================================================
