-------------------------------- MODULE Printf --------------------------------
(***************************************************************************)
(* fprintf of kernel/core/printf.c, which printf, sprintf and kpanic's     *)
(* report go through: it reads the format one character at a time and      *)
(* gives every character of the output to a callback, which may refuse it. *)
(* That of printf never does, and neither does that of vsprintf, which     *)
(* puts a terminator behind its output. Characters are strings of length   *)
(* one.                                                                    *)
(***************************************************************************)
EXTENDS Integers, Sequences, FiniteSets, SequencesExt

CONSTANTS
  Symbol,     \* the characters of strings, without the terminator
  Formats,    \* the formats that are printed, sequences of characters
  ArgLists,   \* the arguments passed, sequences as long as a format needs
  SHORT, INT, LONG, \* number of values of short, int, and long (= long long)
  NoText      \* a null pointer passed for %s

Arg(n, t) == [number |-> n, text |-> t, char |-> "z"]

ASSUME WidthAssumption ==
  /\ \A t \in {SHORT, INT, LONG} : t \in Nat \ {0} /\ t % 2 = 0
  /\ SHORT <= INT /\ INT <= LONG

NUL == "nul"

\* The digits, and what else fprintf prints of its own.
DigitSymbols == {"0", "1", "2", "3", "4", "5", "6", "7", "8", "9",
                 "a", "b", "c", "d", "e", "f", "A", "B", "C", "D", "E", "F"}
OtherSymbols == {"%", "-", " ", "(", ")", "n", "u", "l"}

ASSUME SymbolAssumption ==
  /\ DigitSymbols \cup OtherSymbols \subseteq Symbol
  /\ NUL \notin Symbol

\* How many directives, at most, are in a format.
Percents(f) == Cardinality({k \in DOMAIN f : f[k] = "%"})

\* The calls that C defines: strings are terminated, an argument is a value of
\* the type, and no directive is without its argument. Left out is %c of the
\* terminator itself, after which a buffer has two.
ASSUME CallAssumption ==
  /\ Formats \subseteq Seq(Symbol)
  /\ \A a \in ArgLists : a \in Seq(ToSet(a))
  /\ \A x \in UNION {ToSet(a) : a \in ArgLists} :
       /\ x.number \in Nat /\ x.char \in Symbol
       /\ x.text # NoText => x.text \in Seq(Symbol)
  /\ \A f \in Formats, a \in ArgLists : Percents(f) <= Len(a)

VARIABLES
  format,    \* what is left of the format
  args,      \* what is left of the arguments
  buffered,  \* it is vsprintf that has called, with its buffer
  dir,       \* the flags, width and length read so far of a directive
  pc,        \* where in the loop the code is
  out,       \* the characters the callback has accepted, and the terminator
  total_count,
  ret,       \* the result, -1 or the count; 0 before
  refused    \* the callback has refused a character, or there is none (history)

vars == <<format, args, buffered, dir, pc, out, total_count, ret, refused>>

NoFlags == [zero_pad |-> FALSE, left_justify |-> FALSE, width |-> 0, length_mod |-> 0]

Init ==
  /\ format \in Formats /\ args \in ArgLists
  /\ buffered \in BOOLEAN
  /\ dir = NoFlags /\ pc \in {"null", "text"}
  /\ out = <<>> /\ total_count = 0 /\ ret = 0 /\ refused = FALSE

Next_is(c) == format # <<>> /\ Head(format) \in c
Skip == format' = Tail(format)

-----------------------------------------------------------------------------
(* Numerals *)

digits == <<"0", "1", "2", "3", "4", "5", "6", "7", "8", "9", "a", "b", "c", "d", "e", "f">>
digits_uc == <<"0", "1", "2", "3", "4", "5", "6", "7", "8", "9", "A", "B", "C", "D", "E", "F">>

\* ull_to_base: digits from the last one on, then turned around.
ull_to_base(value, base, uppercase) ==
  LET Digit(n) == IF uppercase THEN digits_uc[n + 1] ELSE digits[n + 1]
      numeral[n \in Nat] == IF n < base THEN <<Digit(n)>>
                            ELSE Append(numeral[n \div base], Digit(n % base))
  IN numeral[value]

\* (unsigned long long)(-value); for LLONG_MIN as two's complement wraps.
ll_to_base(value, base) ==
  IF value < 0 THEN <<"-">> \o ull_to_base((-value) % LONG, base, FALSE)
               ELSE ull_to_base(value, base, FALSE)

Repeat(c, n) == [k \in 1 .. n |-> c]
Pad(d, len) == IF d.width > len THEN d.width - len ELSE 0

\* The text print_number prints for a numeral: zeros go after the sign.
print_number(d, numeral) ==
  LET pad == Pad(d, Len(numeral))
  IN IF d.left_justify THEN numeral \o Repeat(" ", pad)
     ELSE IF d.zero_pad /\ numeral[1] = "-" /\ pad > 0
     THEN <<"-">> \o Repeat("0", pad) \o Tail(numeral)
     ELSE Repeat(IF d.zero_pad THEN "0" ELSE " ", pad) \o numeral

\* How many values the type has that a length modifier selects: none, h, l, ll.
Values_LongIsInt(d) == CASE d.length_mod = 1 -> SHORT [] d.length_mod = 3 -> LONG [] OTHER -> INT
Values(d) == CASE d.length_mod = 1 -> SHORT [] d.length_mod \in {2, 3} -> LONG [] OTHER -> INT

Unsigned(n, d) == n % Values(d)
Signed(n, d) == ((n + Values(d) \div 2) % Values(d)) - Values(d) \div 2

-----------------------------------------------------------------------------
(* Output *)

\* The characters of s go to the callback in turn; the first one it refuses
\* ends the call with -1.
Emit_GoesOn(s) ==
  \E k \in 0 .. Len(s) :
    /\ out' = out \o SubSeq(s, 1, k)
    /\ refused' = (k < Len(s))
    /\ total_count' = total_count + k
    /\ pc' = "text" /\ UNCHANGED ret
Emit(s) ==
  \/ /\ out' = out \o s
     /\ total_count' = total_count + Len(s)
     /\ pc' = "text"
     /\ UNCHANGED <<ret, refused>>
  \/ \E k \in 0 .. Len(s) - 1 :
       /\ ~buffered
       /\ out' = out \o SubSeq(s, 1, k)
       /\ refused' = TRUE /\ ret' = -1 /\ pc' = "done"
       /\ UNCHANGED total_count

\* A character of the format that is printed as it is.
Literal ==
  /\ pc = "text" /\ format # <<>> /\ ~Next_is({"%"})
  /\ Emit(<<Head(format)>>)
  /\ Skip
  /\ UNCHANGED <<args, buffered, dir>>

-----------------------------------------------------------------------------
(* A directive *)

Percent ==
  /\ pc = "text" /\ Next_is({"%"})
  /\ dir' = NoFlags /\ pc' = "percent"
  /\ Skip
  /\ UNCHANGED <<args, buffered, out, total_count, ret, refused>>

PercentPercent ==
  /\ pc = "percent" /\ Next_is({"%"})
  /\ Emit(<<"%">>)
  /\ Skip
  /\ UNCHANGED <<args, buffered, dir>>

Flag_Stays ==
  /\ pc \in {"percent", "flags"} /\ Next_is({"0", "-"})
  /\ dir' = [dir EXCEPT !.zero_pad = TRUE]
  /\ pc' = "flags"
  /\ UNCHANGED <<format, args, buffered, out, total_count, ret, refused>>
Flag ==
  /\ pc \in {"percent", "flags"} /\ Next_is({"0", "-"})
  /\ dir' = [dir EXCEPT !.zero_pad = @ \/ (Head(format) = "0" /\ ~dir.left_justify),
                        !.left_justify = @ \/ Head(format) = "-"]
  /\ pc' = "flags"
  /\ Skip
  /\ UNCHANGED <<args, buffered, out, total_count, ret, refused>>

Numbers == {"0", "1", "2", "3", "4", "5", "6", "7", "8", "9"}
DigitValue(c) == (CHOOSE k \in 1 .. 16 : c \in {digits[k], digits_uc[k]}) - 1

\* The width is an int, and wraps when the digits are too many for one.
IntValues == -(INT \div 2) .. INT \div 2 - 1
AsInt(n) == ((n + INT \div 2) % INT) - INT \div 2

Width ==
  /\ \/ pc \in {"percent", "flags"} /\ Next_is(Numbers \ {"0"})
     \/ pc = "width" /\ Next_is(Numbers)
  /\ dir' = [dir EXCEPT !.width = AsInt(@ * 10 + DigitValue(Head(format)))]
  /\ pc' = "width"
  /\ Skip
  /\ UNCHANGED <<args, buffered, out, total_count, ret, refused>>

LengthModifier_AddsUp ==
  /\ \/ pc \in {"percent", "flags", "width"} /\ Next_is({"h", "l"})
     \/ pc = "length" /\ Next_is({"l"})
  /\ dir' = [dir EXCEPT !.length_mod = @ + (IF Head(format) = "h" THEN 1 ELSE 2)]
  /\ pc' = "length"
  /\ Skip
  /\ UNCHANGED <<args, buffered, out, total_count, ret, refused>>
\* One h, one l or two l.
LengthModifier ==
  /\ \/ /\ pc \in {"percent", "flags", "width"} /\ Next_is({"h", "l"})
        /\ dir' = [dir EXCEPT !.length_mod = IF Head(format) = "h" THEN 1 ELSE 2]
     \/ /\ pc = "length" /\ dir.length_mod = 2 /\ Next_is({"l"})
        /\ dir' = [dir EXCEPT !.length_mod = 3]
  /\ pc' = "length"
  /\ Skip
  /\ UNCHANGED <<args, buffered, out, total_count, ret, refused>>

\* The next character is none of a flag, a width or a length any more.
AtSpecifier ==
  \/ pc = "percent" /\ ~Next_is(Numbers \cup {"%", "-", "h", "l"})
  \/ pc = "flags" /\ ~Next_is(Numbers \cup {"-", "h", "l"})
  \/ pc = "width" /\ ~Next_is(Numbers \cup {"h", "l"})
  \/ pc = "length" /\ ~(dir.length_mod = 2 /\ Next_is({"l"}))

TakesArgument == {"c", "s", "d", "i", "u", "x", "X", "p"}

\* What a directive prints for argument a.
Text(spec, a) ==
  LET s == IF a.text = NoText THEN <<"(", "n", "u", "l", "l", ")">> ELSE a.text
      pad == Repeat(" ", Pad(dir, Len(s)))
  IN CASE spec = "c" -> <<a.char>>
       [] spec = "s" -> IF dir.left_justify THEN s \o pad ELSE pad \o s
       [] spec \in {"d", "i"} -> print_number(dir, ll_to_base(Signed(a.number, dir), 10))
       [] spec = "u" -> print_number(dir, ull_to_base(Unsigned(a.number, dir), 10, FALSE))
       [] spec \in {"x", "X"} ->
            print_number(dir, ull_to_base(Unsigned(a.number, dir), 16, spec = "X"))
       [] spec = "p" -> ull_to_base(a.number, 16, FALSE)

Convert ==
  /\ AtSpecifier /\ Next_is(TakesArgument)
  /\ Emit(Text(Head(format), Head(args)))
  /\ args' = Tail(args)
  /\ Skip
  /\ UNCHANGED <<buffered, dir>>

\* An unknown specifier is printed, with its %.
Unknown ==
  /\ AtSpecifier /\ format # <<>> /\ ~Next_is(TakesArgument)
  /\ Emit(<<"%", Head(format)>>)
  /\ Skip
  /\ UNCHANGED <<args, buffered, dir>>

\* The end of the format, also in the middle of a directive.
End ==
  /\ format = <<>> /\ pc \in {"text", "percent", "flags", "width", "length"}
  /\ ret' = total_count
  /\ pc' = IF buffered THEN "terminate" ELSE "done"
  /\ UNCHANGED <<format, args, buffered, dir, out, total_count, refused>>

\* vsprintf, when fprintf has returned.
Terminate ==
  /\ pc = "terminate"
  /\ out' = Append(out, NUL) /\ pc' = "done"
  /\ UNCHANGED <<format, args, buffered, dir, total_count, ret, refused>>

\* No callback, no buffer or no format.
NullPointer ==
  /\ pc = "null"
  /\ ret' = -1 /\ refused' = TRUE /\ pc' = "done"
  /\ UNCHANGED <<format, args, buffered, dir, out, total_count>>

Done == pc = "done" /\ UNCHANGED vars

Step ==
  \/ Literal \/ Percent \/ PercentPercent \/ Flag \/ Width \/ LengthModifier
  \/ Convert \/ Unknown \/ End \/ Terminate \/ NullPointer

Next == Step \/ Done

Spec == Init /\ [][Next]_vars /\ WF_vars(Step)

-----------------------------------------------------------------------------
(* Properties *)

\* Every variable has its type.
TypeOK ==
  /\ pc \in {"null", "text", "percent", "flags", "width", "length", "terminate", "done"}
  /\ dir.width \in IntValues /\ dir.length_mod \in 0 .. 3
  /\ total_count \in Nat /\ ret \in Nat \cup {-1}

\* The result is the number of characters printed, without the terminator of
\* vsprintf (printf.h:46-47), and negative exactly when the callback refused one
\* (printf.h:23) or a pointer was null: nothing is printed after that, no
\* character is left out of the count, and a buffer ends with its only terminator.
ReturnsTheCount ==
  LET printed == IF NUL \in ToSet(out) THEN Front(out) ELSE out
  IN /\ pc = "done" => /\ ret = IF refused THEN -1 ELSE Len(printed)
                       /\ (NUL \in ToSet(out)) <=> (buffered /\ ~refused)
     /\ NUL \notin ToSet(printed)
     /\ pc # "done" => ~refused

\* Every call returns, whatever the format.
CallReturns == <>(pc = "done")

\* A piece of output without the blanks around it; its value as a numeral.
Stripped(s) == LET ink == {k \in DOMAIN s : s[k] # " "} IN SubSeq(s, Min(ink), Max(ink))
Value(s, base) == FoldLeft(LAMBDA n, c : n * base + DigitValue(c), 0, s)
Read(s, base) == IF s[1] = "-" THEN -Value(Tail(s), base) ELSE Value(s, base)

\* What a numeric directive may print for n.
Prints(spec, n, piece) ==
  LET type == <<INT, SHORT, LONG, LONG>>[dir.length_mod + 1]
      base == IF spec \in {"x", "X"} THEN 16 ELSE 10
      value == Read(Stripped(piece), base)
      bound == IF spec \in {"d", "i"} THEN type \div 2 ELSE type
  IN /\ value < bound /\ value >= bound - type
     /\ (value - n) % type = 0
     /\ Len(piece) >= dir.width
     /\ Len(piece) > dir.width =>
          /\ piece[1] # " " /\ Last(piece) # " "
          /\ piece[1] = "0" => Len(piece) = 1

\* A numeric directive prints its argument, converted to the type the length
\* modifier names, so that reading it gives the number again, sign and all, in
\* a field as wide as the int that the width was read into, or just as wide as
\* the numeral.
NumbersReadBack ==
  [][Convert /\ ~refused' /\ Head(format) \in {"d", "i", "u", "x", "X"}
       => Prints(Head(format), Head(args).number,
                 SubSeq(out', Len(out) + 1, Len(out')))]_vars

=============================================================================
