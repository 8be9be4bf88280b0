------------------------------ MODULE MCRamFs ------------------------------
(* Three nodes, two names that are the two pieces of a long one, and disks *)
(* with FAT partitions, odd ones and unreadable ones.                      *)
EXTENDS RamFs

TwoDisks == { <<"fat", "empty", "odd", "fat">>, <<"odd", "unreadable", "fat", "empty">> }
=============================================================================
