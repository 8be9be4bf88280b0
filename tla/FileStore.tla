------------------------------ MODULE FileStore -----------------------------
(***************************************************************************)
(* What fat_write promises its callers: a file is replaced as a whole, at  *)
(* one moment of the call. Success means the new content is there, failure *)
(* means the old one is untouched, and after a power loss it is one of the *)
(* two.                                                                    *)
(***************************************************************************)
EXTENDS Integers

CONSTANTS
  Names,      \* the names of files
  Others,     \* names of directories: writing one fails
  Contents, Missing, NoResult

VARIABLES
  files,   \* what reading each name returns
  phase,   \* "none", "pending" or "committed": the call in progress
  pend,    \* its name and content
  ret      \* the result of the last call

NoCall == [name |-> Missing, content |-> Missing]

Init == /\ files = [n \in Names |-> Missing]
        /\ phase = "none" /\ pend = NoCall /\ ret = NoResult

Begin(n, v) == /\ phase = "none" /\ phase' = "pending"
               /\ pend' = [name |-> n, content |-> v]
               /\ UNCHANGED <<files, ret>>

Commit == /\ phase = "pending" /\ phase' = "committed"
          /\ pend.name \in Names
          /\ files' = [files EXCEPT ![pend.name] = pend.content]
          /\ UNCHANGED <<pend, ret>>

Return == /\ phase # "none" /\ phase' = "none"
          /\ ret' = IF phase = "committed" THEN 0 ELSE -1
          /\ pend' = NoCall
          /\ UNCHANGED files

PowerLoss == phase' = "none" /\ pend' = NoCall /\ ret' = NoResult /\ UNCHANGED files

Next == \/ \E n \in Names \cup Others : \E v \in Contents[n] : Begin(n, v)
        \/ Commit \/ Return \/ PowerLoss

Spec == Init /\ [][Next]_<<files, phase, pend, ret>>
=============================================================================
