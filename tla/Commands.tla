----------------------------- MODULE Commands ------------------------------
(***************************************************************************)
(* What a user may do at the prompt, one program at a time: a session of   *)
(* file commands on a mounted volume (FatPath), of the command moon (Moon) *)
(* or of the calculator (Calc), or the typing at the prompt itself         *)
(* (Shell). They share no state but what RamFs and Exec model, so each     *)
(* session starts from its own initial state.                              *)
(***************************************************************************)
EXTENDS FatPath, Moon, Calc, Shell

VARIABLE session

commandvars == <<pathvars, moonvars, calcvars, vars, shellvars, session>>

CommandsInit ==
  /\ session \in {"files", "moon", "calc", "prompt"}
  /\ PathInit /\ CalcInit /\ ShellInit /\ MoonInit /\ (session = "moon" \/ table = <<>>)

\* A step of session s leaves the state of the others alone.
In(s) ==
  /\ session = s /\ UNCHANGED session
  /\ s # "files" => UNCHANGED pathvars
  /\ s # "moon" => UNCHANGED moonvars
  /\ s # "calc" => UNCHANGED calcvars
  /\ s # "prompt" => UNCHANGED <<vars, shellvars>>

FilesSession == In("files") /\ PathNext
MoonSession == In("moon") /\ MoonNext
CalcSession == In("calc") /\ CalcNext
PromptSession == In("prompt") /\ ShellNext

CommandsNext == FilesSession \/ MoonSession \/ CalcSession \/ PromptSession

CommandsSpec == CommandsInit /\ [][CommandsNext]_commandvars
-----------------------------------------------------------------------------
\* In a session of file commands every path that does not climb above the
\* working directory leads where it means to lead (ResolvesInside), and the
\* working directory's string, its cluster and "ls" agree (CwdAgrees), however
\* cd with ".", "..", doubled slashes and refused paths came before.
PathsLead == session = "files" => PathTypeOK /\ ResolvesInside /\ CwdAgrees

\* In the same sessions fat_read finds a file where fat_write has saved it.
SavedIsRead == session = "files" => SavedIsFound

\* An index below 2^31 typed after moon mounts that partition or is refused
\* (TypedIsMounted), and a list that fits says what is mounted, by the number
\* that mounts it (ListReadsBack).
MoonTrue == session = "moon" => TypedIsMounted /\ ListReadsBack

\* The calculator prints the exact value of an expression whose parts are
\* longs, and "err" if it divides by zero; a text that is no expression gives
\* no value: "err", or the divide exception in a part of it (ShowsMeaning).
\* The digits of a value are read back as the same value (ReadsBack).
CalcRight == session = "calc" => CalcTypeOK /\ ShowsMeaning /\ ReadsBack
=============================================================================
