---------------------------- MODULE MCCommands -----------------------------
(* Small volumes, partition tables and numbers for the sessions.           *)
EXTENDS Commands

\* Files: a name, one with an extension, one that ends in a dot and one of
\* more than 8 characters; the directories /A and /A/A.
MCNames == { <<"a", NoExt>>, <<"b", "t">>, <<"b", "">>, <<Long, NoExt>> }
MCUpper == [x \in {"a", "A"} |-> "A"] @@ [x \in {"b", "B"} |-> "B"] @@ [x \in {"t", "T"} |-> "T"]
             @@ [x \in {"", NoExt, Long} |-> x]
MCDirs == { <<>>, << <<"A", "">> >>, << <<"A", "">>, <<"A", "">> >> }

\* moon: no disk, one partition, and four of which one has no file system;
\* indices of up to three digits, longs of 7 bits and ints of 5, so that an
\* index may be cut or turn negative; buffers of every size that matters.
P(t, l, s, f) == [type |-> t, lba |-> l, sectors |-> s, fat |-> f]
MCTables ==
  { <<>>, << P(12, 0, 9, TRUE) >>,
    << P(12, 63, 100, TRUE), P(130, 10, 0, FALSE), P(11, 2048, 9, TRUE), P(255, 99, 10, TRUE) >> }
MCMoonKeys == {0, 1, 2, 3, 6, Letter}

\* calc: longs of 3 bits, numbers to the base 3.
MCDigits == <<"0", "1", "2">>

\* The prompt: two working directories, and commands that write nothing, leave
\* the cursor in the middle of a row, or write a row that ends in CR NL.
MCPrompts == { <<"p">>, <<"p", "p">> }
MCOutputs == { <<>>, <<"b">>, <<"b", CR, NL>> }
=============================================================================
