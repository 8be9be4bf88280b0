--------------------------------- MODULE Keo --------------------------------
(***************************************************************************)
(* The text editor user/keo.c: the buffer, the cursor and the window, the  *)
(* three modes and their keys, loading and saving. A key is one step: the  *)
(* handler of the mode, then draw, which begins with clamp.                *)
(*                                                                         *)
(* A line is the sequence of its characters; cx, cy and top count from 0   *)
(* as in the source. The text of a command is typed in one step.           *)
(***************************************************************************)
EXTENDS Integers, Sequences, FiniteSets, SequencesExt

CONSTANTS
  MaxL,      \* MAXL: lines of the buffer
  MaxC,      \* MAXC: a line has at most MaxC - 1 characters
  TxtRows,   \* TXT_ROWS
  FileMax,   \* FILE_MAX
  Chars,     \* printable characters
  NL,        \* the newline
  Files      \* what the file may hold when the editor is started

VARIABLES
  lines, cx, cy, top,
  dirty,
  mode,       \* "normal", "insert", "cmd", or "exited" after sys_exit
  cmd,
  fname,      \* "" if the name is empty
  pend_d, pend_g,
  loaded,     \* what load found in the file
  written     \* what the last step wrote to the file

cursor == <<cx, cy, top>>
pending == <<pend_d, pend_g>>
vars == <<lines, cursor, dirty, mode, cmd, fname, pending, loaded, written>>

ASSUME KeoAssumption ==
  /\ MaxL \in Nat \ {0} /\ MaxC \in Nat \ {0, 1} /\ TxtRows \in Nat \ {0} /\ FileMax \in Nat
  /\ NL \notin Chars /\ \A f \in Files : f \in Seq(Chars \cup {NL}) /\ Len(f) <= FileMax

NoWrite == <<"none">>
\* "w" stands for wq as well, which does the same; "" for any other text.
Commands == {"", "w", "w file", "w ", "q", "q!"}
nlines == Len(lines)
Line(y) == lines[y + 1]
len == Len(Line(cy))
-----------------------------------------------------------------------------
(* clamp, on the buffer ls and the cursor a key has left.                  *)

Between(v, lo, hi) == IF v < lo THEN lo ELSE IF v > hi THEN hi ELSE v

ClampRow(ls, y) == Between(y, 0, Len(ls) - 1)

Show(ls, x, y) ==
  /\ lines' = ls
  /\ cy' = ClampRow(ls, y)
  /\ cx' = Between(x, 0, Len(ls[cy' + 1]))
  /\ top' = LET t == IF top > cy' THEN cy' ELSE top
            IN  IF t < cy' - (TxtRows - 1) THEN cy' - (TxtRows - 1) ELSE t

\* The cursor moves and the text stays.
Move(x, y) == Show(lines, x, y) /\ UNCHANGED dirty
Stay == Move(cx, cy)
Edit(ls, x, y) == Show(ls, x, y) /\ dirty' = TRUE
Keep == UNCHANGED <<fname, loaded>>
-----------------------------------------------------------------------------
(* Loading and saving.                                                     *)

\* Mutant: keeps the line behind the final newline.
Trailing_Kept(f, ls) == FALSE

\* The final newline ends the last line and starts none.
Trailing(f, ls) == f # <<>> /\ Last(f) = NL /\ Len(ls) > 1

\* One byte of the file: past MaxL lines run together, the end of an overlong
\* line is dropped.
PutByte(ls, c) ==
  IF c = NL THEN IF Len(ls) < MaxL THEN Append(ls, <<>>) ELSE ls
  ELSE IF Len(Last(ls)) < MaxC - 1 THEN [ls EXCEPT ![Len(ls)] = Append(@, c)] ELSE ls

\* The lines load makes of the bytes f.
LinesOf(f) ==
  LET upTo[n \in 0 .. Len(f)] == IF n = 0 THEN << <<>> >> ELSE PutByte(upTo[n - 1], f[n])
  IN  upTo[Len(f)]
Load(f) == LET ls == LinesOf(f) IN IF Trailing(f, ls) THEN Front(ls) ELSE ls

\* The bytes save writes.
Bytes(ls) == FlattenSeq([i \in DOMAIN ls |-> Append(ls[i], NL)])
Fits(ls) == Len(Bytes(ls)) <= FileMax

\* user_main: a fresh program loads the file; if it cannot be read the buffer
\* is empty.
Start(f) ==
  /\ lines' = Load(f) /\ loaded' = f
  /\ cx' = 0 /\ cy' = 0 /\ top' = 0
  /\ dirty' = FALSE /\ mode' = "normal" /\ cmd' = "" /\ fname' = "file"
  /\ pend_d' = FALSE /\ pend_g' = FALSE
  /\ written' = NoWrite

start == mode = "exited" /\ \E f \in Files : Start(f)

Exit == mode' = "exited" /\ UNCHANGED <<lines, cursor>>
Refuse == mode' = "normal" /\ Stay

\* save, and do_save: exits if the file was written. sys_fwrite may fail.
do_save(name) ==
  /\ fname' = name
  /\ \/ name # "" /\ Fits(lines) /\ written' = Bytes(lines) /\ dirty' = FALSE /\ Exit
     \/ written' = NoWrite /\ Refuse
-----------------------------------------------------------------------------
(* Normal mode.                                                            *)

\* Every key but d and g ends a pending d or g; each of those two leaves the
\* other one pending.
NormalKey == mode = "normal" /\ Keep /\ cmd' = cmd /\ written' = NoWrite
Settle == pend_d' = FALSE /\ pend_g' = FALSE
ToMode(m) == mode' = m

key_motion ==
  /\ NormalKey /\ Settle /\ ToMode("normal")
  /\ \/ cx > 0 /\ Move(cx - 1, cy)             \* h
     \/ cx < len /\ Move(cx + 1, cy)           \* l
     \/ cy < nlines - 1 /\ Move(cx, cy + 1)    \* j
     \/ cy > 0 /\ Move(cx, cy - 1)             \* k
     \/ Move(cx, nlines - 1)                   \* G
     \/ Move(0, cy)                            \* 0
     \/ Move(IF len > 0 THEN len - 1 ELSE 0, cy)  \* $
     \/ Stay                                   \* a motion at the edge, any other key

key_insert ==
  /\ NormalKey /\ Settle /\ ToMode("insert")
  /\ \/ Stay                                           \* i
     \/ Move(IF cx < len THEN cx + 1 ELSE cx, cy)      \* a
     \/ Move(len, cy)                                  \* A

open_line(at) ==
  /\ NormalKey /\ Settle
  /\ IF nlines >= MaxL THEN ToMode("normal") /\ Stay
     ELSE ToMode("insert") /\ Edit(InsertAt(lines, at + 1, <<>>), 0, at)

CharDeleted(x) == [lines EXCEPT ![cy + 1] = RemoveAt(@, x + 1)]

key_del_char ==
  /\ NormalKey /\ Settle /\ ToMode("normal")
  /\ IF cx < len THEN Edit(CharDeleted(cx), cx, cy) ELSE Stay

\* Mutant: forgets that the text has changed.
del_line_Clean ==
  IF nlines <= 1 THEN Move(0, cy) ELSE Show(RemoveAt(lines, cy + 1), cx, cy) /\ UNCHANGED dirty

del_line ==
  IF nlines <= 1 THEN Edit(<< <<>> >>, 0, cy) ELSE Edit(RemoveAt(lines, cy + 1), cx, cy)

key_d ==
  /\ NormalKey /\ ToMode("normal")
  /\ IF pend_d THEN del_line /\ pend_d' = FALSE /\ pend_g' = FALSE
     ELSE Stay /\ pend_d' = TRUE /\ UNCHANGED pend_g

key_g ==
  /\ NormalKey /\ ToMode("normal")
  /\ IF pend_g THEN Move(cx, 0) /\ pend_d' = FALSE /\ pend_g' = FALSE
     ELSE Stay /\ pend_g' = TRUE /\ UNCHANGED pend_d
 

key_colon ==
  /\ mode = "normal" /\ Keep /\ Settle /\ ToMode("cmd")
  /\ cmd' = "" /\ written' = NoWrite /\ Stay

normal_key ==
  \/ key_motion \/ key_insert \/ open_line(cy + 1) \/ open_line(cy)
  \/ key_del_char \/ key_d \/ key_g \/ key_colon
-----------------------------------------------------------------------------
(* Insert mode.                                                            *)

InsertKey ==
  /\ mode = "insert" /\ Keep
  /\ cmd' = cmd /\ written' = NoWrite

key_escape == InsertKey /\ UNCHANGED pending /\ ToMode("normal") /\ Stay

\* The arrows are handed to normal_key.
key_arrow ==
  /\ InsertKey /\ ToMode("insert") /\ Settle
  /\ \/ cx > 0 /\ Move(cx - 1, cy)
     \/ cx < len /\ Move(cx + 1, cy)
     \/ cy < nlines - 1 /\ Move(cx, cy + 1)
     \/ cy > 0 /\ Move(cx, cy - 1)
     \/ Stay

\* Mutant: the text behind the cursor stays on the old line as well.
Broken_Copy == InsertAt(lines, cy + 2, SubSeq(Line(cy), cx + 1, len))

\* The line is cut at the cursor.
Broken ==
  [InsertAt(lines, cy + 2, SubSeq(Line(cy), cx + 1, len)) EXCEPT ![cy + 1] = SubSeq(@, 1, cx)]

key_enter ==
  /\ InsertKey /\ UNCHANGED pending /\ ToMode("insert")
  /\ IF nlines >= MaxL THEN Stay ELSE Edit(Broken, 0, cy + 1)

Joined == [RemoveAt(lines, cy + 1) EXCEPT ![cy] = @ \o Line(cy)]

key_backspace ==
  /\ InsertKey /\ UNCHANGED pending /\ ToMode("insert")
  /\ IF cx > 0 THEN Edit(CharDeleted(cx - 1), cx - 1, cy)
     ELSE IF cy > 0 /\ Len(Line(cy - 1)) + len < MaxC
       THEN Edit(Joined, Len(Line(cy - 1)), cy - 1)
     ELSE Stay

HasRoom == len < MaxC - 1

key_char(c) ==
  /\ InsertKey /\ UNCHANGED pending /\ ToMode("insert")
  /\ IF HasRoom THEN Edit([lines EXCEPT ![cy + 1] = InsertAt(@, cx + 1, c)], cx + 1, cy)
     ELSE Stay

insert_key ==
  \/ key_escape \/ key_arrow \/ key_enter \/ key_backspace
  \/ \E c \in Chars : key_char(c)
-----------------------------------------------------------------------------
(* Command mode.                                                           *)

CmdKey == mode = "cmd" /\ UNCHANGED <<pending, loaded>>
NoSave == written' = NoWrite /\ UNCHANGED fname

cmd_type ==
  /\ CmdKey /\ NoSave /\ ToMode("cmd") /\ Stay
  /\ cmd' \in Commands

cmd_escape == CmdKey /\ NoSave /\ ToMode("normal") /\ Stay /\ UNCHANGED cmd

exec_cmd ==
  /\ CmdKey /\ UNCHANGED cmd
  /\ CASE cmd = "w" -> do_save(fname)
       [] cmd = "w file" -> do_save("file")
       [] cmd = "w " -> do_save("")
       [] cmd = "q" -> NoSave /\ IF dirty THEN Refuse ELSE Exit /\ UNCHANGED dirty
       [] cmd = "q!" -> NoSave /\ Exit /\ UNCHANGED dirty
       [] OTHER -> NoSave /\ Refuse

cmd_key == cmd_type \/ cmd_escape \/ exec_cmd
-----------------------------------------------------------------------------
Init ==
  \E f \in Files :
    /\ lines = Load(f) /\ loaded = f
    /\ cx = 0 /\ cy = 0 /\ top = 0
    /\ dirty = FALSE /\ mode = "normal" /\ cmd = "" /\ fname = "file"
    /\ pend_d = FALSE /\ pend_g = FALSE
    /\ written = NoWrite

Next == start \/ normal_key \/ insert_key \/ cmd_key

Spec == Init /\ [][Next]_vars
-----------------------------------------------------------------------------
\* The array bounds: every line and the number of lines fit, and the cursor
\* is on a line and inside the window that is drawn.
TypeOK ==
  /\ nlines \in 1 .. MaxL
  /\ \A i \in 1 .. nlines : lines[i] \in Seq(Chars) /\ Len(lines[i]) <= MaxC - 1
  /\ cy \in 0 .. nlines - 1 /\ cx \in 0 .. len
  /\ top \in 0 .. cy /\ cy <= top + TxtRows - 1
  /\ mode \in {"normal", "insert", "cmd", "exited"} /\ cmd \in Commands
  /\ fname \in {"file", ""}
  /\ {dirty, pend_d, pend_g} \subseteq BOOLEAN

\* The editor is left by w, wq or q only when the file holds the text of the
\* buffer or the buffer is what was loaded: no sequence of keys changes the
\* text without setting dirty.
ExitLosesNothing ==
  [][mode' = "exited" /\ cmd # "q!" =>
       written' = Bytes(lines) \/ (written' = NoWrite /\ lines = Load(loaded))]_vars

\* What is saved from a buffer that is not full and loaded again is the same
\* lines: empty lines, an empty last line and an empty buffer included. (A full
\* one loses its last line: its final newline starts no line, and load takes
\* one away all the same.) And the arrays keep their bounds (TypeOK).
SaveLoadSame == TypeOK /\ (nlines < MaxL => Load(Bytes(lines)) = lines)

\* Moving, breaking a line, opening one, joining two and leaving a mode keep
\* every character in its order, whether or not there was room; only x, dd
\* and a backspace inside a line take one away.
Text(ls) == FlattenSeq(ls)
KeepsText == key_motion \/ key_insert \/ key_arrow \/ key_enter \/ key_colon \/ key_g
             \/ key_escape \/ cmd_escape \/ open_line(cy) \/ open_line(cy + 1) \/ (key_backspace /\ cx = 0)
TextKept == [][KeepsText => Text(lines') = Text(lines)]_vars
=============================================================================
