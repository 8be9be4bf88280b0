------------------------------- MODULE Calc --------------------------------
(***************************************************************************)
(* The calculator: the line it reads (user/calc.c), the evaluator of       *)
(* integer expressions (user/expr.c) and the printed result. A character   *)
(* is a one-letter string; a long is one of 2 * Half numbers and wraps, as *)
(* the processor's do, and is written with Radix digits.                   *)
(***************************************************************************)
EXTENDS Numerals, SequencesExt

CONSTANTS
  Half,      \* 2^63: a long is one of the 2 * Half numbers from -Half on
  Digits,    \* the digits, Digits[n + 1] has the value n
  CalcMax    \* bound: characters of a line (line[128] in calc.c)

VARIABLES
  calc_line, \* the characters typed so far
  shown      \* what the last line has printed, or None

calcvars == <<calc_line, shown>>

Radix == Len(Digits)
Operators == {"+", "-", "*", "/", "%"}
Gap == " "
CalcChars == Range(Digits) \cup Operators \cup {"(", ")", Gap}

\* Outcomes of a line.
Value(v) == <<"value", v>>
Error == <<"err", 0>>
Trap == <<"trap", 0>>          \* the divide exception, which ends in panic
None == <<"none", 0>>

ASSUME CalcAssumption ==
  /\ Half \in Nat \ {0} /\ CalcMax \in Nat /\ Digits \in Seq(STRING) /\ Radix > 1
  /\ \A m, n \in 1 .. Radix : Digits[m] = Digits[n] => m = n
  /\ Range(Digits) \cap (Operators \cup {"(", ")", Gap}) = {}
-----------------------------------------------------------------------------
(* Arithmetic on longs.                                                    *)

Longs == -Half .. Half - 1
Wrap(v) == ((v + Half) % (2 * Half)) - Half

Abs(v) == IF v < 0 THEN -v ELSE v
\* Division rounds to zero and the remainder has the sign of the dividend.
Quotient(v, r) == IF (v < 0) = (r < 0) THEN Abs(v) \div Abs(r) ELSE -(Abs(v) \div Abs(r))
Remainder(v, r) == v - r * Quotient(v, r)
-----------------------------------------------------------------------------
(* The parser. Its state has the characters of the text read so far (pos), *)
(* the value v, ok, and whether the program has been stopped by a trap,    *)
(* after which it does nothing more.                                       *)

States(text) == [at : 0 .. Len(text), v : Longs, ok : BOOLEAN, trap : BOOLEAN]

\* The next character, and where the characters of S from here on end.
IsA(text, i, S) == i < Len(text) /\ text[i + 1] \in S
Behind(text, i, S) ==
  CHOOSE j \in i .. Len(text) : ~IsA(text, j, S) /\ \A k \in i + 1 .. j : text[k] \in S

skip(text, s) == [s EXCEPT !.at = Behind(text, @, {Gap})]
Consumed(s) == [s EXCEPT !.at = @ + 1]
Failed(s) == [s EXCEPT !.ok = FALSE]

DigitValue(d) == (CHOOSE n \in 1 .. Radix : Digits[n] = d) - 1

parse_num(text, s0) ==
  LET s == skip(text, s0)
      end == Behind(text, s.at, Range(Digits))
      v[k \in 0 .. end - s.at] ==
        IF k = 0 THEN 0 ELSE Wrap(v[k - 1] * Radix + DigitValue(text[s.at + k]))
  IN  [at |-> end, v |-> v[end - s.at], ok |-> s.ok /\ end > s.at, trap |-> s.trap]

\* v op r, where the divisor is not 0.
Divided(s, op, v, r) ==
  IF v = -Half /\ r = -1 THEN [s EXCEPT !.trap = TRUE]
  ELSE [s EXCEPT !.v = IF op = "/" THEN Quotient(v, r) ELSE Remainder(v, r)]

Multiplied(s, op, v, r) ==
  CASE op = "*" -> [s EXCEPT !.v = Wrap(v * r)]
    [] op # "*" /\ r = 0 -> [Failed(s) EXCEPT !.v = v]
    [] OTHER -> Divided(s, op, v, r)

\* The functions of expr.c call each other only after they have read a
\* character. calls has what they do to the state from there on.
parse_factor(text, calls, s0) ==
  LET s == skip(text, s0)
  IN  CASE s.trap -> s
        [] ~s.trap /\ IsA(text, s.at, {"("}) ->
             LET e == skip(text, calls.expr[Consumed(s)])
             IN  IF IsA(text, e.at, {")"}) THEN Consumed(e) ELSE Failed(e)
        [] ~s.trap /\ IsA(text, s.at, {"-"}) ->
             LET f == calls.factor[Consumed(s)] IN [f EXCEPT !.v = Wrap(-@)]
        [] OTHER -> parse_num(text, s)

\* The loops of parse_term and parse_expr, from the operand s.v on.
term_rest(text, calls, s0) ==
  LET s == skip(text, s0)
  IN  IF s.trap \/ ~IsA(text, s.at, {"*", "/", "%"}) THEN s
      ELSE LET r == calls.factor[Consumed(s)]
           IN  IF r.trap \/ ~r.ok THEN [r EXCEPT !.v = 0]
               ELSE calls.term_rest[Multiplied(r, text[s.at + 1], s.v, r.v)]

parse_term(text, calls, s) == term_rest(text, calls, parse_factor(text, calls, s))

\* Mutant: the right operand takes the rest of the sum with it.
expr_rest_Right(text, calls, s0) ==
  LET s == skip(text, s0)
  IN  IF s.trap \/ ~IsA(text, s.at, {"+", "-"}) THEN s
      ELSE LET r == calls.expr[Consumed(s)]
           IN  IF r.trap \/ ~r.ok THEN [r EXCEPT !.v = 0]
               ELSE [r EXCEPT !.v = Wrap(IF text[s.at + 1] = "+" THEN s.v + @ ELSE s.v - @)]

expr_rest(text, calls, s0) ==
  LET s == skip(text, s0)
  IN  IF s.trap \/ ~IsA(text, s.at, {"+", "-"}) THEN s
      ELSE LET r == calls.term[Consumed(s)]
           IN  IF r.trap \/ ~r.ok THEN [r EXCEPT !.v = 0]
               ELSE calls.expr_rest[
                      [r EXCEPT !.v = Wrap(IF text[s.at + 1] = "+" THEN s.v + @ ELSE s.v - @)]]

parse_expr(text, calls, s) == expr_rest(text, calls, parse_term(text, calls, s))

\* All of them, for states with fewer than n characters left to read.
Parser(text, n) ==
  LET fewer[k \in 0 .. n] ==
        IF k = 0 THEN [f \in {"factor", "term", "term_rest", "expr", "expr_rest"} |-> [s \in States(text) |-> s]]
        ELSE [factor    |-> [s \in States(text) |-> parse_factor(text, fewer[k - 1], s)],
              term      |-> [s \in States(text) |-> parse_term(text, fewer[k - 1], s)],
              term_rest |-> [s \in States(text) |-> term_rest(text, fewer[k - 1], s)],
              expr      |-> [s \in States(text) |-> parse_expr(text, fewer[k - 1], s)],
              expr_rest |-> [s \in States(text) |-> expr_rest(text, fewer[k - 1], s)]]
  IN  fewer[n]

expr_eval(text) ==
  LET start == [at |-> 0, v |-> 0, ok |-> TRUE, trap |-> FALSE]
      s == skip(text, Parser(text, Len(text) + 1).expr[start])
  IN  CASE s.trap -> Trap
        [] ~s.trap /\ (~s.ok \/ s.at < Len(text)) -> Error
        [] OTHER -> Value(s.v)
-----------------------------------------------------------------------------
(* The result and the line.                                                *)

\* u = -(v + 1) + 1 is unsigned.
put_dec(v) ==
  LET u == Numeral(IF v < 0 THEN -(v + 1) + 1 ELSE v, Radix)
  IN  (IF v < 0 THEN <<"-">> ELSE <<>>) \o [k \in DOMAIN u |-> Digits[u[k] + 1]]

\* A key: printable characters up to the limit, and backspace.
calc_key(c) ==
  /\ Len(calc_line) < CalcMax
  /\ calc_line' = Append(calc_line, c) /\ shown' = None
calc_erase == calc_line # <<>> /\ calc_line' = Front(calc_line) /\ shown' = None

\* Enter. The line read is kept in line until the next key.
calc_enter == shown = None /\ shown' = expr_eval(calc_line) /\ UNCHANGED calc_line

\* The next line starts empty.
calc_again == shown \notin {None, Trap} /\ calc_line' = <<>> /\ shown' = None

CalcInit == calc_line = <<>> /\ shown = None
CalcNext ==
  \/ shown = None /\ (calc_erase \/ \E c \in CalcChars : calc_key(c))
  \/ calc_enter \/ calc_again
CalcSpec == CalcInit /\ [][CalcNext]_calcvars
-----------------------------------------------------------------------------
(* What a text means: the grammar of expressions with the exact value of   *)
(* each phrase. Over is a phrase with a part whose value is no long, or    *)
(* whose quotient is none.                                                 *)

CalcTypeOK ==
  /\ calc_line \in Seq(CalcChars) /\ Len(calc_line) <= CalcMax
  /\ shown \in {None, Error, Trap} \cup {Value(v) : v \in Longs}

Over == <<"over", 0>>
Exact(v) == IF v \in Longs THEN Value(v) ELSE Over

Applied(op, x, y) ==
  IF Over \in {x, y} THEN Over
  ELSE IF Error \in {x, y} \/ (op \in {"/", "%"} /\ y = Value(0)) THEN Error
  ELSE CASE op = "+" -> Exact(x[2] + y[2])
         [] op = "-" -> Exact(x[2] - y[2])
         [] op = "*" -> Exact(x[2] * y[2])
         [] op = "/" -> Exact(Quotient(x[2], y[2]))
         [] op = "%" -> IF Quotient(x[2], y[2]) \in Longs THEN Exact(Remainder(x[2], y[2])) ELSE Over

Number(ds) == ValueOf([k \in DOMAIN ds |-> DigitValue(ds[k])], Radix)

\* The phrases of n characters with their meaning, from the shorter ones.
Of(shorter, kind, k) == IF k < 1 THEN {} ELSE shorter[k][kind]
Within(left, phrases, right) == {<<left \o x[1] \o right, x[2]>> : x \in phrases}
Joint(shorter, n, lefts, rights, ops) ==
  UNION { {<<x[1] \o <<op>> \o y[1], Applied(op, x[2], y[2])>> :
             x \in shorter[k][lefts], y \in shorter[n - 1 - k][rights], op \in ops}
          : k \in 1 .. n - 2 }

Factors(shorter, n) ==
  {<<ds, Exact(Number(ds))>> : ds \in [1 .. n -> Range(Digits)]}
    \cup {<< <<"-">> \o x[1], Applied("-", Value(0), x[2])>> : x \in Of(shorter, "factor", n - 1)}
    \cup Within(<<"(">>, Of(shorter, "expr", n - 2), <<")">>)
    \cup Within(<<Gap>>, Of(shorter, "factor", n - 1), <<>>)
    \cup Within(<<>>, Of(shorter, "factor", n - 1), <<Gap>>)

Grammar(shorter, n) ==
  LET factors == Factors(shorter, n)
      terms == factors \cup Joint(shorter, n, "term", "factor", {"*", "/", "%"})
  IN  [factor |-> factors, term |-> terms,
       expr |-> terms \cup Joint(shorter, n, "expr", "term", {"+", "-"})]

Phrases[n \in 0 .. CalcMax] ==
  IF n = 0 THEN [factor |-> {}, term |-> {}, expr |-> {}]
  ELSE Grammar([k \in 1 .. n - 1 |-> Phrases[k]], n)

Meanings == UNION {Phrases[n].expr : n \in 1 .. CalcMax}
Texts == {m[1] : m \in Meanings}

\* The recursive descent of expr.c, with its loops for the operators of equal
\* rank and its error flag, prints the exact value of an expression all of
\* whose parts are longs and "err" for a division by zero in it. A text that
\* is no expression gives no value, but "err" or, before the error is met, the
\* divide exception. (Nothing is said of an expression with a part that is no
\* long: it prints its value modulo 2^64 or ends in the divide exception.)
ShowsMeaning ==
  shown # None =>
    IF calc_line \in Texts THEN <<calc_line, Over>> \in Meanings \/ <<calc_line, shown>> \in Meanings
    ELSE shown \in {Error, Trap}

\* What put_dec prints, typed as the next line, is read back as the same
\* value, the smallest long too, whose digits alone are no long.
ReadsBack == shown[1] = "value" => expr_eval(put_dec(shown[2])) = shown
=============================================================================
