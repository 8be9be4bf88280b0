----------------------------- MODULE Numerals ------------------------------
(***************************************************************************)
(* Numbers written with digits, the highest first: what the loops of       *)
(* emit_dec (kernel/syscall.c) and put_dec (user/calc.c) write and what    *)
(* those of parse_idx (user/shell.c) and parse_num (user/expr.c) mean to   *)
(* read. A digit is its value.                                             *)
(***************************************************************************)
EXTENDS Integers, Sequences

\* The number that the digits ds stand for to the base b, whatever its size.
ValueOf(ds, b) ==
  LET upto[k \in 0 .. Len(ds)] == IF k = 0 THEN 0 ELSE upto[k - 1] * b + ds[k]
  IN  upto[Len(ds)]

\* The digits of u: remainders of u, u / b, ... as long as anything is left,
\* at least one, written in reverse.
Numeral(u, b) ==
  LET left[k \in 0 .. u + 1] == IF k = 0 THEN u ELSE left[k - 1] \div b
      n == CHOOSE n \in 1 .. u + 1 : left[n] = 0 /\ \A m \in 1 .. n - 1 : left[m] # 0
  IN  [k \in 1 .. n |-> left[n - k] % b]
=============================================================================
