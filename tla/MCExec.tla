------------------------------- MODULE MCExec ------------------------------
(* A machine of 20 frames of one unit, large pages of 2 frames, the user   *)
(* window from frame 16 on.                                                *)
EXTENDS Exec

\* Memory that reaches into the user window, with and without a hole; and
\* machines whose memory ends below it, from one that cannot start init to
\* one with a frame for everything.
Mem(f, l) == [available |-> TRUE, addr |-> f, len |-> l]
MCMemMaps ==
  { << Mem(1, 16) >>, << Mem(1, 14), Mem(18, 2) >> } \cup {<< Mem(1, l) >> : l \in 9 .. 14}

BigMemory == { << Mem(1, 19) >> }

MCModules == [i \in 1 .. 4 |-> [start |-> 1 + i, end |-> 2 + i]]

\* init; a program that needs a second page table for its second segment; one
\* that leaves a page of that table alone; one whose second segment is bad.
Seg(a, b) == [first |-> a, last |-> b]
MCPrograms ==
  << [segs |-> << Seg(16, 17) >>, defect |-> NoDefect],
     [segs |-> << Seg(16, 17), Seg(18, 19) >>, defect |-> NoDefect],
     [segs |-> << Seg(16, 17), Seg(19, 19) >>, defect |-> NoDefect],
     [segs |-> << Seg(16, 16), Seg(18, 18) >>, defect |-> 2] >>
=============================================================================
