------------------------------ MODULE KeyQueue ------------------------------
(***************************************************************************)
(* What the keyboard driver promises its reader: a bounded FIFO of         *)
(* characters. A key that arrives while the queue is full is dropped, no   *)
(* other key is lost, duplicated, altered or reordered.                    *)
(***************************************************************************)
EXTENDS Naturals, Sequences

CONSTANTS Capacity, Chars

VARIABLES
  q,    \* the characters not read yet
  out   \* the character the last completed read returned

Init == q = <<>> /\ out = 0

Put(c) == /\ q' = IF Len(q) < Capacity THEN Append(q, c) ELSE q
          /\ UNCHANGED out

Get == /\ q # <<>>
       /\ q' = Tail(q)
       /\ out' = Head(q)

Next == (\E c \in Chars : Put(c)) \/ Get

Spec == Init /\ [][Next]_<<q, out>>
=============================================================================
