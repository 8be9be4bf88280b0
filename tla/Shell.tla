------------------------------- MODULE Shell -------------------------------
(***************************************************************************)
(* The shell's prompt (user_main and hist_push of user/shell.c) on the     *)
(* text screen of module Vga: the line being edited, the history of lines  *)
(* and what both leave on the screen. put1 and sys_puts put characters     *)
(* into pending, from where they reach the screen one term_putc at a time. *)
(*                                                                         *)
(* running appears by what it writes; Moon, FatPath, RamFs and Exec have   *)
(* what its commands do.                                                   *)
(***************************************************************************)
EXTENDS Vga, SequencesExt

CONSTANTS
  LineMax,      \* characters of a line, 127
  HistN,        \* HIST_N
  Keys,         \* the printable characters typed
  Prompts,      \* "root@inaneos:" with a working directory, and "# "
  Outputs,      \* what a command may write
  PromptColor,
  MaxEntered    \* bound: lines entered since the shell was started

VARIABLES
  line, hist, hidx,
  pending,      \* characters on their way to the screen
  phase,        \* "prompt", "prompting", "edit" or "running"
  prompt,       \* the prompt of this line
  home,         \* history: where the prompt starts, [row, col]
  fits,         \* history: prompt and line never came to the end of the row
  entered       \* history: the lines entered, without empty ones

shellvars == <<line, hist, hidx, pending, phase, prompt, home, fits, entered>>

ASSUME ShellAssumption ==
  /\ LineMax \in Nat /\ HistN \in Nat \ {0} /\ MaxEntered \in Nat
  /\ Keys \subseteq Chars /\ PromptColor \in Colors
  /\ Prompts \subseteq Seq(Chars) /\ Outputs \subseteq Seq(Chars \cup Control)
-----------------------------------------------------------------------------
\* Mutant: the oldest line stays, the newest takes the place of the last.
hist_push_Stuck(h, l) ==
  IF l = <<>> \/ (h # <<>> /\ Last(h) = l) THEN h
  ELSE IF Len(h) < HistN THEN Append(h, l)
  ELSE Append(Front(h), l)

hist_push(h, l) ==
  IF l = <<>> \/ (h # <<>> /\ Last(h) = l) THEN h
  ELSE IF Len(h) < HistN THEN Append(h, l)
  ELSE Append(Tail(h), l)

\* A step of the shell that is no output.
Quiet == UNCHANGED vars
Ready(p) == phase = p /\ pending = <<>>

\* The characters reach the screen.
emit ==
  /\ pending # <<>> /\ term_putc(Head(pending)) /\ pending' = Tail(pending)
  /\ UNCHANGED <<line, hist, hidx, phase, prompt, home, fits, entered>>

put_prompt(p) ==
  /\ Ready("prompt") /\ term_set_color(PromptColor)
  /\ phase' = "prompting" /\ prompt' = p /\ pending' = p /\ line' = <<>> /\ hidx' = -1
  /\ home' = [row |-> term.row, col |-> term.col] /\ fits' = (term.col + Len(p) < Cols)
  /\ UNCHANGED <<hist, entered>>

start_line ==
  /\ Ready("prompting") /\ term_set_color(FirstColor) /\ phase' = "edit"
  /\ UNCHANGED <<line, hist, hidx, pending, prompt, home, fits, entered>>

\* The line becomes l and h its place in the history, chars are written.
Edited(l, h, chars) ==
  /\ Ready("edit") /\ Quiet
  /\ line' = l /\ hidx' = h /\ pending' = chars
  /\ fits' = (fits /\ home.col + Len(prompt) + Len(l) < Cols)
  /\ UNCHANGED <<hist, phase, prompt, home, entered>>

type_key(c) ==
  IF Len(line) < LineMax THEN Edited(Append(line, c), -1, <<c>>) ELSE Edited(line, -1, <<>>)
type_bs == IF line # <<>> THEN Edited(Front(line), -1, <<BS>>) ELSE Edited(line, -1, <<>>)
\* A key the shell has no use for.
type_other == Edited(line, -1, <<>>)

\* Mutant: one character of the old line is left on the screen.
Erasing_Short(l) == [k \in 1 .. Len(l) - 1 |-> BS]

Erasing(l) == [k \in 1 .. Len(l) |-> BS]

\* The line with index h of the history, or an empty one for -1.
Recall(h) ==
  LET l == IF h < 0 THEN <<>> ELSE hist[h + 1]
  IN  Edited(l, h, Erasing(line) \o l)

type_up ==
  IF hist = <<>> THEN Ready("edit") /\ Quiet /\ UNCHANGED shellvars
  ELSE Recall(IF hidx < 0 THEN Len(hist) - 1 ELSE IF hidx > 0 THEN hidx - 1 ELSE hidx)
type_down ==
  IF hidx < 0 THEN Ready("edit") /\ Quiet /\ UNCHANGED shellvars
  ELSE Recall(IF hidx = Len(hist) - 1 THEN -1 ELSE hidx + 1)

enter ==
  /\ Ready("edit") /\ Quiet /\ Len(entered) < MaxEntered
  /\ pending' = <<NL>> /\ hist' = hist_push(hist, line) /\ phase' = "running"
  /\ entered' = IF line = <<>> THEN entered ELSE Append(entered, line)
  /\ UNCHANGED <<line, hidx, prompt, home, fits>>

\* running: a command that writes something, clear, or a program, which may
\* clear the screen and after which the shell is loaded anew.
Back == phase' = "prompt" /\ UNCHANGED <<line, hidx, prompt, home, fits>>
run_output(text) ==
  /\ Ready("running") /\ Quiet /\ pending' = text /\ Back /\ UNCHANGED <<hist, entered>>
run_clear == Ready("running") /\ term_clear /\ Back /\ UNCHANGED <<hist, entered, pending>>
run_program ==
  /\ Ready("running") /\ (Quiet \/ term_clear) /\ Back /\ UNCHANGED pending
  /\ hist' = <<>> /\ entered' = <<>>

ShellInit ==
  /\ Init /\ line = <<>> /\ hist = <<>> /\ hidx = -1 /\ pending = <<>> /\ phase = "prompt"
  /\ prompt = <<>> /\ home = [row |-> 0, col |-> 0] /\ fits = TRUE /\ entered = <<>>

ShellNext ==
  \/ emit \/ start_line \/ \E p \in Prompts : put_prompt(p)
  \/ type_bs \/ type_other \/ type_up \/ type_down \/ \E c \in Keys : type_key(c)
  \/ enter \/ run_clear \/ run_program \/ \E text \in Outputs : run_output(text)

ShellSpec == ShellInit /\ [][ShellNext]_<<vars, shellvars>>
-----------------------------------------------------------------------------
\* While prompt and line stay short of the end of the row, the row shows the
\* prompt, the line and nothing behind it, the cursor behind the line, and the
\* prompt in its colour, whatever was typed, erased and recalled, and wherever
\* the last command left the cursor, unless a carriage return put it in front
\* of what the row shows. (A line that has filled its row does not do as well:
\* a backspace in a full row lands the pending wrap first and then erases
\* nothing.)
LineShown ==
  Ready("edit") /\ fits =>
    LET row == term.vga[home.row]
        first == home.col + Len(prompt)
    IN  /\ term.row = home.row /\ term.col = first + Len(line)
        /\ \A k \in 1 .. Len(prompt) : row[home.col + k - 1] = <<prompt[k], PromptColor>>
        /\ \A k \in 1 .. Len(line) : row[first + k - 1] = <<line[k], FirstColor>>
        /\ \A c \in term.col .. Cols - 1 : row[c][1] = Space

\* The history is the last HistN lines entered, of equal ones in a row the
\* first; and while a line of it is recalled, it is the line.
NotRepeated(s) ==
  LET upto[n \in 0 .. Len(s)] ==
        IF n = 0 THEN <<>>
        ELSE IF n > 1 /\ s[n] = s[n - 1] THEN upto[n - 1]
        ELSE Append(upto[n - 1], s[n])
  IN  upto[Len(s)]
Recent(s) == SubSeq(s, IF Len(s) > HistN THEN Len(s) - HistN + 1 ELSE 1, Len(s))
HistoryRight ==
  LET all == NotRepeated(entered)
  IN  /\ hist = Recent(all)
      /\ hidx >= 0 /\ phase = "edit" => hidx < Len(hist) /\ line = hist[hidx + 1]
=============================================================================
