-------------------------------- MODULE MCKeo -------------------------------
(* Three lines of two characters, a window of two rows; files without a    *)
(* final newline, with an overlong line and with too many lines.           *)
EXTENDS Keo

MCFiles == { <<>>, <<"a", "b", "a">>, <<"/", "/", "/", "b">> }
=============================================================================
