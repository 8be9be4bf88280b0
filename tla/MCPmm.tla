------------------------------- MODULE MCPmm -------------------------------
(* Small memory maps for Pmm: 12 frames of 4 bytes, the first frame is the  *)
(* "first megabyte", the kernel image starts right above it, and the user  *)
(* window begins with frame 9.                                             *)
EXTENDS Pmm

E(t, a, l) == [available |-> t, addr |-> a, len |-> l]

\* Aligned memory with a hole; unaligned entries that share a frame and run
\* past the cap; an entry that straddles LowMem, one entirely below it and
\* one entirely above the cap; a map without any available memory.
MCMemMaps ==
  { << E(TRUE, 0, 3), E(FALSE, 3, 1), E(TRUE, 4, 44) >>,
    << E(TRUE, 5, 13), E(TRUE, 18, 5), E(TRUE, 23, 40) >>,
    << E(TRUE, 0, 2), E(TRUE, 2, 21), E(FALSE, 23, 3), E(TRUE, 26, 17), E(TRUE, 60, 8) >>,
    << E(FALSE, 0, 60) >> }

\* The second module starts inside the last frame of the first one, the third
\* ends past the cap, the fourth is empty, the last one lies in the window.
MCModules ==
  << [start |-> 12, end |-> 14], [start |-> 14, end |-> 15], [start |-> 40, end |-> 50],
     [start |-> 20, end |-> 20], [start |-> 37, end |-> 39] >>
=============================================================================
