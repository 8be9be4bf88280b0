-------------------------------- MODULE MCVga -------------------------------
(* Three rows of two columns with a tab stop in each, one character in two *)
(* colours.                                                                *)
EXTENDS Vga
=============================================================================
