------------------------------ MODULE MCStrings ------------------------------
(***************************************************************************)
(* StringCalls on every memory of five cells with zeros, commas and bytes  *)
(* above 127, followed by a terminator and the delimiter of strtok, and on *)
(* every text of up to four characters that matter to numbers; int has 7   *)
(* bits, long 9.                                                           *)
(***************************************************************************)
EXTENDS StringCalls

MCTexts == {free \o <<0, 44, 0>> : free \in [1 .. 5 -> {0, 44, 200}]}

\* Space, sign, a digit of every base, of base 10 and of base 16.
NumberText == UNION {[1 .. n -> {32, 43, 45, 49, 57, 97, 90}] : n \in 0 .. 4}
MCNumerals == {t \o <<0>> : t \in NumberText}
MCBuffer == [a \in 1 .. 12 |-> 255]

MCPointers == {1, 2, 4, 7}
MCInts == {0, 44, 200, -56}
MCBases == {-1, 0, 1, 2, 10, 16, 36, 37}

=============================================================================
